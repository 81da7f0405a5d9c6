------------------------ MODULE Registration_proofs ------------------------
(***************************************************************************)
(* Registration for any tablets, classes and oddities: which of them each  *)
(* promise tolerates is in the statement of the property.                  *)
(***************************************************************************)
EXTENDS Registration, TLAPS

Student == [name : STRING \ {"", GARBAGE}, sid : Nat \ {0}, mac : Addresses]

(***************************************************************************)
(* The shape of the table, and: a run is not started, and does not go on,  *)
(* without a MAC address, if dumpsys gave what there is of one.            *)
(***************************************************************************)
Known ==
  /\ \E n \in Nat : class1 \in [1 .. n -> Student]
  /\ macAddress \in Addresses
  /\ plugged \in Tablets \cup {NONE}
  /\ id \in Ids \cup {0} /\ combo \in Ids \cup {0}
  /\ canInstall \/ pc # "watch" => (read => macAddress # NONE)
  /\ pc = "save" => id # 0

-----------------------------------------------------------------------------
\* 0 stands for no student and is no id.
LEMMA ZeroIsNobody ==
  ASSUME Known
  PROVE  0 \notin Ids
<1>1. PICK n \in Nat : class1 \in [1 .. n -> Student]
  BY DEF Known
<1>2. Ids = 1 .. n
  BY <1>1 DEF Ids
<1> QED
  BY <1>2

\* The first update keeps the shape of the table.
LEMMA StudentsShared ==
  ASSUME NEW n \in Nat, class1 \in [1 .. n -> Student],
         NEW m, NEW first \in Named(m), macAddress \in Addresses
  PROVE  Shared(m, first) \in [1 .. n -> Student]
BY DEF Shared, Named, Ids, Student

\* Known holds when the program starts for the first time.
LEMMA KnownInit == Init => Known
<1> SUFFICES ASSUME Init PROVE Known
  OBVIOUS
<1>1. PICK c \in Classes :
        class1 = [k \in DOMAIN c |-> [name |-> c[k].name, sid |-> c[k].sid, mac |-> NONE]]
  BY DEF Init
<1>2. c \in Seq(Pupil)
  BY ClassAssumption
<1>3. DOMAIN c = 1 .. Len(c) /\ Len(c) \in Nat /\ \A k \in 1 .. Len(c) : c[k] \in Pupil
  BY <1>2
<1>4. class1 \in [1 .. Len(c) -> Student]
  BY <1>1, <1>3 DEF Student, Pupil, Addresses
<1> QED
  BY <1>3, <1>4 DEF Init, Known, Addresses

\* Every step keeps Known; TickReady is what gives a run its address.
LEMMA KnownInductive == Known /\ [Next]_vars => Known'
<1> SUFFICES ASSUME Known, [Next]_vars PROVE Known'
  OBVIOUS
<1>n. PICK n \in Nat : class1 \in [1 .. n -> Student]
  BY DEF Known
<1> USE DEF Known, Ids
<1>1. CASE Plug
  BY <1>1 DEF Plug, view, names
<1>2. CASE Select
  BY <1>2 DEF Select, world, view
<1>3. CASE Install
  BY <1>3 DEF Install, StartRun, world, names
<1>4. CASE ForceInstall
  BY <1>4 DEF ForceInstall, StartRun, world, names
<1>5. CASE NextTablet
  BY <1>5 DEF NextTablet, world, names
<1>6. CASE Restart
  BY <1>6 DEF Restart, Started, world, Addresses
<1>7. CASE TickNoMac
  BY <1>7 DEF TickNoMac, world, Addresses
<1>8. CASE TickReady
  <2>1. (read' => macAddress' # NONE) /\ macAddress' \in Addresses
    BY <1>8 DEF TickReady, Addresses
  <2>2. id' \in Ids \cup {0} /\ combo' \in Ids \cup {0}
    BY <1>8 DEF TickReady, Consult, ListStudents, Found, Unregistered
  <2> QED
    BY <1>8, <2>1, <2>2 DEF TickReady, world
<1>9. CASE TickNone
  BY <1>9 DEF TickNone, world
<1>10. CASE TickUnknown
  BY <1>10 DEF TickUnknown, world, view
<1>11. CASE RegisterByName
  <2>1. class1' \in [1 .. n -> Student]
    BY <1>11, <1>n, StudentsShared DEF RegisterByName
  <2> QED
    BY <1>11, <1>n, <2>1 DEF RegisterByName, Goto, view
<1>12. CASE Decide
  BY <1>12 DEF Decide, Goto, world, names
<1>13. CASE Settings
  BY <1>13 DEF Settings, Goto, names, view
<1>14. CASE Personalise
  BY <1>14 DEF Personalise, Goto, names, view
<1>15. CASE SaveMac
  <2>1. class1' \in [1 .. n -> Student]
    BY <1>15, <1>n DEF SaveMac, Student
  <2> QED
    BY <1>15, <1>n, <2>1 DEF SaveMac, Goto, names, view
<1>16. CASE Close
  BY <1>16 DEF Close, Goto, world, names
<1>17. CASE UNCHANGED vars
  BY <1>17 DEF vars, world, names, view
<1> QED
  BY <1>1, <1>2, <1>3, <1>4, <1>5, <1>6, <1>7, <1>8, <1>9, <1>10, <1>11,
     <1>12, <1>13, <1>14, <1>15, <1>16, <1>17 DEF Next, Worker

\* Known holds throughout.
LEMMA KnownAlways == Spec => []Known
<1>1. Init => Known
  BY KnownInit
<1>2. Known /\ [Next]_vars => Known'
  BY KnownInductive
<1> QED
  BY <1>1, <1>2, PTL DEF Spec

-----------------------------------------------------------------------------
(* Only two actions write the table, and both the address at hand. *)

\* Any other step leaves the table as it is.
LEMMA KeepsTheRest ==
  ASSUME [Next]_vars, ~RegisterByName, ~SaveMac
  PROVE  class1' = class1
BY DEF Next, vars, world, Worker, Plug, Select, Install, StartRun, ForceInstall,
       NextTablet, Restart, TickNoMac, TickReady, TickNone, TickUnknown, Decide,
       Settings, Personalise, Close

\* Both updates write the address at hand.
LEMMA AddressesStay ==
  ASSUME Known, [Next]_vars, read, NEW k \in Ids, class1[k].mac # NONE
  PROVE  class1'[k].mac # NONE
<1>1. CASE ~RegisterByName /\ ~SaveMac
  BY <1>1, KeepsTheRest
<1>2. CASE RegisterByName
  BY <1>2 DEF RegisterByName, Shared, Known, Goto
<1>3. CASE SaveMac
  <2>1. macAddress # NONE /\ id \in Ids \cup {0}
    BY <1>3 DEF SaveMac, Goto, Known
  <2>2. CASE class1' = class1
    BY <2>2
  <2>3. CASE class1' = [class1 EXCEPT ![id].mac = macAddress]
    <3>1. PICK n \in Nat : class1 \in [1 .. n -> Student]
      BY DEF Known
    <3> QED
      BY <2>1, <2>3, <3>1 DEF Student, Ids
  <2> QED
    BY <1>3, <2>2, <2>3 DEF SaveMac
<1> QED
  BY <1>1, <1>2, <1>3

(***************************************************************************)
(* Install is disabled when dumpsys shows no address and stays so until a  *)
(* poll gives one, so a run takes a registration away only if the address  *)
(* it was started on was left over on the stack.                           *)
(***************************************************************************)
THEOREM NeverLost == Spec => NeverUnregistered
<1>1. Known /\ [Next]_vars
        => [\A k \in Ids : class1[k].mac # NONE => class1'[k].mac # NONE \/ ~read]_vars
  BY AddressesStay
<1> QED
  BY <1>1, KnownAlways, PTL DEF Spec, NeverUnregistered

-----------------------------------------------------------------------------
(* One student for each tablet. *)

Accepted == odd \cap {"other", "namesake", "again"} = {}

Working == pc \in {"decide", "settings", "personal", "save"}

(***************************************************************************)
(* Between the two updates of a run nobody but the student found has the   *)
(* address that the second one will write.                                 *)
(***************************************************************************)
OnceInv ==
  Accepted =>
    /\ RegisteredOnce
    /\ Working /\ id # 0 /\ macAddress # NONE =>
         \A k \in Ids \ {id} : class1[k].mac # macAddress
    /\ id = 0 => username \in {"", GARBAGE}

\* A run that Accepted holds of after reading the list.
LEMMA AcceptedRun ==
  ASSUME Known, RegisterByName, Accepted'
  PROVE  /\ Accepted
         /\ combo = id
         /\ id # 0 => Named(class1[id].name) = {id}
         /\ macAddress # NONE => \A k \in Ids \ {id} : class1[k].mac # macAddress
<1>1. odd' \in {odd \cup Oddities, odd \cup Oddities \cup {"nosql"}}
  BY DEF RegisterByName
<1>2. "other" \notin Oddities /\ "namesake" \notin Oddities /\ "again" \notin Oddities
  BY <1>1 DEF Accepted
<1>3. Accepted
  BY <1>1 DEF Accepted
<1>4. combo = id
  BY <1>2 DEF Oddities, Odd
<1>5. macAddress # NONE => \A k \in Ids \ {id} : class1[k].mac # macAddress
  BY <1>2 DEF Oddities, Odd
<1>6. ASSUME id # 0
      PROVE  Named(class1[id].name) = {id}
  <2>1. \A k \in Ids \ {id} : class1[k].name # class1[id].name
    BY <1>2, <1>4, <1>6 DEF Oddities, Odd
  <2> QED
    BY <2>1, <1>6 DEF Named, Known
<1> QED
  BY <1>3, <1>4, <1>5, <1>6

\* The history of oddities only grows.
LEMMA OddGrows == [Next]_vars => odd \subseteq odd'
BY DEF Next, vars, world, Worker, Plug, Select, Install, StartRun, ForceInstall,
       NextTablet, Restart, TickNoMac, TickReady, TickNone, TickUnknown, Decide,
       Settings, Personalise, Close, RegisterByName, SaveMac

\* After the first update a run keeps the student and the tablet it began with.
LEMMA RunKeepsItsStudent ==
  ASSUME [Next]_vars, Working', ~RegisterByName
  PROVE  Working /\ UNCHANGED <<macAddress, id, plugged, username, sid, odd>>
BY DEF Next, vars, world, names, Worker, Working, Goto, Plug, Select, Install, StartRun,
       ForceInstall, NextTablet, Restart, Started, TickNoMac, TickReady, TickNone,
       TickUnknown, Decide, Settings, Personalise, Close, SaveMac

\* Without a student found the name is empty, or what garbage gave.
LEMMA NoStudentNoName ==
  ASSUME Known, [Next]_vars, ~RegisterByName, id = 0 => username \in {"", GARBAGE}
  PROVE  id' = 0 => username' \in {"", GARBAGE}
<1>1. CASE TickReady
  <2>1. 0 \notin Unregistered
    BY ZeroIsNobody DEF Unregistered
  <2> QED
    BY <1>1, <2>1 DEF TickReady, Consult, ListStudents, Found
<1>2. CASE ~TickReady
  BY <1>2 DEF Next, vars, world, names, Worker, Plug, Select, Install, StartRun,
       ForceInstall, NextTablet, Restart, Started, TickNoMac, TickNone,
       TickUnknown, Decide, Settings, Personalise, Close, SaveMac
<1> QED
  BY <1>1, <1>2

\* Giving the student found, and no other, the address nobody else has.
LEMMA OnceKept ==
  ASSUME RegisteredOnce, Accepted, Ids' = Ids,
         \A k \in Ids \ {id} : class1'[k].mac = class1[k].mac,
         macAddress # NONE => \A k \in Ids \ {id} : class1[k].mac # macAddress,
         id \in Ids => class1'[id].mac \in {class1[id].mac, macAddress}
  PROVE  RegisteredOnce'
<1> SUFFICES ASSUME NEW k \in Ids, NEW m \in Ids,
                    class1'[k].mac = class1'[m].mac, class1'[k].mac # NONE
             PROVE  k = m
  BY DEF RegisteredOnce
<1>1. \A j, l \in Ids : class1[j].mac = class1[l].mac /\ class1[j].mac # NONE => j = l
  BY DEF RegisteredOnce, Accepted
<1>2. CASE k # id /\ m # id
  BY <1>1, <1>2
<1>3. CASE k = id \/ m = id
  BY <1>1, <1>3
<1> QED
  BY <1>2, <1>3

\* Every step keeps OnceInv.
LEMMA OnceInductive == Known /\ OnceInv /\ [Next]_vars => OnceInv'
<1> SUFFICES ASSUME Known, OnceInv, [Next]_vars, Accepted'
             PROVE  /\ RegisteredOnce'
                    /\ (Working /\ id # 0 /\ macAddress # NONE =>
                          \A k \in Ids \ {id} : class1[k].mac # macAddress)'
                    /\ (id = 0 => username \in {"", GARBAGE})'
  BY DEF OnceInv
<1>a. Accepted
  BY OddGrows DEF Accepted
<1>n. PICK n \in Nat : class1 \in [1 .. n -> Student]
  BY DEF Known
<1>1. CASE RegisterByName
  <2>1. /\ combo = id
        /\ id # 0 => Named(class1[id].name) = {id}
        /\ macAddress # NONE => \A k \in Ids \ {id} : class1[k].mac # macAddress
    BY <1>1, AcceptedRun
  <2>2. UNCHANGED <<id, macAddress, combo>> /\ username' \in NameSelected
    BY <1>1 DEF RegisterByName
  <2>3. CASE id = 0
    <3>1. username' \in {"", GARBAGE}
      BY <1>a, <2>1, <2>2, <2>3 DEF NameSelected, OnceInv
    <3>2. Named(username') = {}
      BY <1>n, <3>1 DEF Named, Ids, Student
    <3>3. class1' = class1
      BY <1>1, <3>2 DEF RegisterByName
    <3> QED
      BY <1>a, <2>2, <2>3, <3>1, <3>3 DEF OnceInv, RegisteredOnce, Ids, Accepted
  <2>4. CASE id # 0
    <3>1. username' = class1[id].name /\ id \in Ids
      BY <2>1, <2>2, <2>4 DEF NameSelected, Known
    <3>2. \/ class1' = class1
          \/ class1' = Shared(class1[id].name, id)
      BY <1>1, <2>1, <2>4, <3>1 DEF RegisterByName
    <3>3. /\ Ids' = Ids
          /\ \A k \in Ids \ {id} : class1'[k].mac = class1[k].mac
          /\ class1'[id].mac \in {class1[id].mac, macAddress}
      BY <2>1, <2>4, <3>1, <3>2 DEF Shared, Ids
    <3>4. RegisteredOnce'
      BY <1>a, <2>1, <3>3, OnceKept DEF OnceInv
    <3>5. macAddress' # NONE => \A k \in Ids' \ {id'} : class1'[k].mac # macAddress'
      BY <2>1, <2>2, <3>3
    <3> QED
      BY <2>2, <2>4, <3>4, <3>5
  <2> QED
    BY <2>3, <2>4
<1>2. CASE SaveMac
  <2>1. UNCHANGED <<id, macAddress, username>> /\ pc' = "close" /\ Working
    BY <1>2 DEF SaveMac, Goto, names, Working
  <2>2. \/ class1' = class1
        \/ class1' = [class1 EXCEPT ![id].mac = macAddress]
    BY <1>2 DEF SaveMac
  <2>3. /\ Ids' = Ids
        /\ \A k \in Ids \ {id} : class1'[k].mac = class1[k].mac
        /\ id \in Ids => class1'[id].mac \in {class1[id].mac, macAddress}
    BY <1>n, <2>2 DEF Ids, Student
  <2>5. 0 \notin Ids
    BY ZeroIsNobody
  <2>6. RegisteredOnce'
    <3>1. CASE id = 0
      <4>1. \A k \in Ids : class1'[k].mac = class1[k].mac
        BY <2>3, <2>5, <3>1
      <4>2. \A k, m \in Ids : class1[k].mac = class1[m].mac /\ class1[k].mac # NONE => k = m
        BY <1>a DEF OnceInv, RegisteredOnce, Accepted
      <4> QED
        BY <2>3, <4>1, <4>2 DEF RegisteredOnce
    <3>2. CASE id # 0
      BY <1>a, <2>1, <2>3, <3>2, OnceKept DEF OnceInv
    <3> QED
      BY <3>1, <3>2
  <2> QED
    BY <1>a, <2>1, <2>6 DEF OnceInv, Working
<1>3. CASE ~RegisterByName /\ ~SaveMac
  <2>1. class1' = class1
    BY <1>3, KeepsTheRest
  <2>2. Working' => Working /\ UNCHANGED <<macAddress, id>>
    BY <1>3, RunKeepsItsStudent
  <2>3. (id = 0 => username \in {"", GARBAGE})'
    BY <1>3, <1>a, NoStudentNoName DEF OnceInv
  <2> QED
    BY <1>a, <2>1, <2>2, <2>3 DEF OnceInv, RegisteredOnce, Ids, Accepted
<1> QED
  BY <1>1, <1>2, <1>3

\* OnceInv holds initially: no tablet has a student.
LEMMA OnceInit == Init => OnceInv
<1> SUFFICES ASSUME Init PROVE OnceInv
  OBVIOUS
<1>1. PICK c \in Classes :
        class1 = [k \in DOMAIN c |-> [name |-> c[k].name, sid |-> c[k].sid, mac |-> NONE]]
  BY DEF Init
<1>2. \A k \in Ids : class1[k].mac = NONE
  BY <1>1 DEF Ids
<1> QED
  BY <1>2 DEF Init, OnceInv, RegisteredOnce, Working

(***************************************************************************)
(* The two updates of a run never give one tablet to two students, through *)
(* restarts, failures of MySQL, exchanged tablets and further tablets of a *)
(* session, if the operator accepts the student the program selects and no *)
(* registered tablet comes back.                                           *)
(***************************************************************************)
THEOREM OneStudent == Spec => []RegisteredOnce
<1>1. Init => OnceInv
  BY OnceInit
<1>2. OnceInv => RegisteredOnce
  BY DEF OnceInv, RegisteredOnce, Accepted
<1> QED
  BY <1>1, <1>2, OnceInductive, KnownAlways, PTL DEF Spec

-----------------------------------------------------------------------------
(* The launcher and the fixed address. *)

Regular == odd \subseteq {"nobody"}

Row(k, num, who, t) == class1[k].sid = num /\ class1[k].name = who /\ class1[k].mac = t

(***************************************************************************)
(* While a regular run works, the row of its student already says what the *)
(* launcher will say: the first update of the run has put the MAC there.   *)
(***************************************************************************)
TileInv ==
  /\ DOMAIN tile = Tablets
  /\ Regular =>
       /\ \A t \in Tablets : tile[t] # NONE =>
            \E k \in Ids : Row(k, tile[t].sid, tile[t].name, t)
       /\ id # 0 => sid = class1[id].sid
       /\ Working => /\ plugged = macAddress
                     /\ id # 0 => Row(id, sid, username, macAddress)

\* The rows of other tablets' students survive the first update.
LEMMA RegularRun ==
  ASSUME Known, OnceInv, RegisterByName, Regular', id # 0 => sid = class1[id].sid
  PROVE  /\ Regular /\ plugged = macAddress
         /\ Ids' = Ids
         /\ \A num, who : \A k \in Ids, t \in Tablets :
              Row(k, num, who, t) => Row(k, num, who, t)'
         /\ \A k \in Ids : class1'[k].sid = class1[k].sid
         /\ id # 0 => Row(id, sid, username, macAddress)'
<1>1. odd' = odd \cup Oddities /\ sqlOpen' = TRUE
  BY DEF RegisterByName, Regular
<1>2. Regular /\ Accepted'
  BY <1>1 DEF Regular, Accepted
<1>3. /\ combo = id
      /\ id # 0 => Named(class1[id].name) = {id}
  BY <1>2, AcceptedRun
<1>4. "second" \notin Oddities /\ "swap" \notin Oddities
  BY <1>1 DEF Regular
<1>5. plugged = macAddress
  BY <1>4 DEF Oddities, Odd
<1>6. id # 0 => class1[id].mac \in {NONE, macAddress}
  BY <1>4 DEF Oddities, Odd
<1>7. UNCHANGED <<macAddress, id, sid>> /\ username' \in NameSelected
  BY DEF RegisterByName
<1>8. id # 0 => /\ username' = class1[id].name
                /\ class1' = Shared(class1[id].name, id)
  <2> SUFFICES ASSUME id # 0
               PROVE  /\ username' = class1[id].name
                      /\ class1' = Shared(class1[id].name, id)
    OBVIOUS
  <2>1. username' = class1[id].name
    BY <1>3, <1>7 DEF NameSelected
  <2>2. \/ Named(username') = {} /\ UNCHANGED class1
        \/ \E first \in Named(username') : class1' = Shared(username', first)
    BY <1>1 DEF RegisterByName, Regular
  <2> QED
    BY <1>3, <2>1, <2>2
<1>9. id = 0 => class1' = class1
  <2> SUFFICES ASSUME id = 0 PROVE class1' = class1
    OBVIOUS
  <2>1. username' \in {"", GARBAGE}
    BY <1>2, <1>3, <1>7 DEF NameSelected, OnceInv, Regular, Accepted
  <2>2. PICK n \in Nat : class1 \in [1 .. n -> Student]
    BY DEF Known
  <2>3. Named(username') = {}
    BY <2>1, <2>2 DEF Named, Ids, Student
  <2> QED
    BY <2>3 DEF RegisterByName
<1>10. CASE id = 0
  BY <1>2, <1>5, <1>7, <1>9, <1>10 DEF Row, Ids
<1>11. CASE id # 0
  <2> DEFINE who == class1[id].name
  <2>1. id \in Ids /\ Named(who) = {id}
    BY <1>3, <1>11 DEF Known
  <2>2. class1' = [k \in Ids |-> IF k = id
                                THEN [name |-> who, sid |-> class1[id].sid, mac |-> macAddress]
                                ELSE class1[k]]
    BY <1>8, <1>11, <2>1 DEF Shared
  <2>3. Ids' = Ids
    BY <2>2 DEF Ids
  <2>4. \A k \in Ids \ {id} : class1'[k] = class1[k]
    BY <2>2
  <2>5. /\ class1'[id].name = who /\ class1'[id].sid = class1[id].sid
        /\ class1'[id].mac = macAddress
    BY <2>1, <2>2
  <2>6. ASSUME NEW k \in Ids, NEW t \in Tablets, NEW num, NEW w, Row(k, num, w, t)
        PROVE  Row(k, num, w, t)'
    <3>1. CASE k = id
      BY <1>6, <1>11, <2>5, <2>6, <3>1, ClassAssumption DEF Row
    <3>2. CASE k # id
      BY <2>4, <2>6, <3>2 DEF Row
    <3> QED
      BY <3>1, <3>2
  <2>7. Row(id, sid, username, macAddress)'
    BY <1>7, <1>8, <1>11, <2>5 DEF Row
  <2> QED
    BY <1>2, <1>5, <2>3, <2>4, <2>5, <2>6, <2>7
<1> QED
  BY <1>10, <1>11

\* Only two actions write to a tablet.
LEMMA TabletsKeep ==
  ASSUME [Next]_vars
  PROVE  /\ ~Personalise => tile' = tile
         /\ ~Settings => ip' = ip
BY DEF Next, vars, world, Worker, Plug, Select, Install, StartRun, ForceInstall,
       NextTablet, Restart, TickNoMac, TickReady, TickNone, TickUnknown, Decide,
       Settings, Personalise, Close, RegisterByName, SaveMac

\* this_sid is the number of the student found, whatever is done next.
LEMMA NumberOfStudent ==
  ASSUME Known, [Next]_vars, ~RegisterByName, ~SaveMac,
         id # 0 => sid = class1[id].sid
  PROVE  (id # 0 => sid = class1[id].sid)'
<1>1. class1' = class1
  BY KeepsTheRest
<1>2. CASE TickReady
  BY <1>1, <1>2 DEF TickReady, Consult, ListStudents, Found
<1>3. CASE ~TickReady
  BY <1>1, <1>3 DEF Next, vars, world, names, Worker, Plug, Select, Install, StartRun,
       ForceInstall, NextTablet, Restart, Started, TickNoMac, TickNone,
       TickUnknown, Decide, Settings, Personalise, Close
<1> QED
  BY <1>2, <1>3

\* In a regular run the second update writes what the first one wrote.
LEMMA SecondUpdate ==
  ASSUME Known, TileInv, Regular, SaveMac
  PROVE  /\ Ids' = Ids
         /\ \A num, who, t : \A k \in Ids : Row(k, num, who, t) => Row(k, num, who, t)'
         /\ \A k \in Ids : class1'[k].sid = class1[k].sid
<1>1. PICK n \in Nat : class1 \in [1 .. n -> Student]
  BY DEF Known
<1>2. class1[id].mac = macAddress /\ id \in Ids
  BY DEF TileInv, Row, SaveMac, Goto, Working, Known
<1>3. class1' = class1 \/ class1' = [class1 EXCEPT ![id].mac = macAddress]
  BY DEF SaveMac
<1>4. Ids' = Ids
  BY <1>1, <1>3 DEF Ids
<1>5. \A k \in Ids : /\ class1'[k].mac = class1[k].mac
                     /\ class1'[k].sid = class1[k].sid
                     /\ class1'[k].name = class1[k].name
  BY <1>1, <1>2, <1>3 DEF Ids, Student
<1> QED
  BY <1>4, <1>5 DEF Row

\* Every step keeps TileInv; only Personalise writes on a launcher.
LEMMA TileInductive == Known /\ OnceInv /\ TileInv /\ [Next]_vars => TileInv'
<1> SUFFICES ASSUME Known, OnceInv, TileInv, [Next]_vars
             PROVE  TileInv'
  OBVIOUS
<1>d. DOMAIN tile' = Tablets
  BY TabletsKeep DEF TileInv, Personalise
<1> SUFFICES ASSUME Regular'
             PROVE  /\ (\A t \in Tablets : tile[t] # NONE =>
                          \E k \in Ids : Row(k, tile[t].sid, tile[t].name, t))'
                    /\ (id # 0 => sid = class1[id].sid)'
                    /\ (Working => /\ plugged = macAddress
                                   /\ id # 0 => Row(id, sid, username, macAddress))'
  BY <1>d DEF TileInv
<1>r. Regular
  BY OddGrows DEF Regular
<1>1. CASE RegisterByName
  <2>1. tile' = tile /\ id' = id /\ sid' = sid /\ UNCHANGED <<plugged, macAddress>>
    BY <1>1 DEF RegisterByName
  <2>2. /\ plugged = macAddress
        /\ Ids' = Ids
        /\ \A num, who : \A k \in Ids, t \in Tablets : Row(k, num, who, t) => Row(k, num, who, t)'
        /\ \A k \in Ids : class1'[k].sid = class1[k].sid
        /\ id # 0 => Row(id, sid, username, macAddress)'
    BY <1>1, <1>r, RegularRun DEF TileInv
  <2>3. ASSUME NEW t \in Tablets, tile'[t] # NONE
        PROVE  \E k \in Ids' : Row(k, tile[t].sid, tile[t].name, t)'
    <3>1. PICK k \in Ids : Row(k, tile[t].sid, tile[t].name, t)
      BY <1>r, <2>1, <2>3 DEF TileInv
    <3>2. Row(k, tile[t].sid, tile[t].name, t)'
      BY <2>1, <2>2, <3>1 DEF Row
    <3> QED
      BY <2>2, <3>2
  <2>4. (id # 0 => sid = class1[id].sid)'
    BY <1>r, <2>1, <2>2 DEF TileInv, Known
  <2> QED
    BY <2>1, <2>2, <2>3, <2>4
<1>2. CASE SaveMac
  <2>1. tile' = tile /\ id' = id /\ sid' = sid /\ ~Working'
    BY <1>2 DEF SaveMac, names, Goto, Working
  <2>2. /\ Ids' = Ids
        /\ \A num, who, t : \A k \in Ids : Row(k, num, who, t) => Row(k, num, who, t)'
        /\ \A k \in Ids : class1'[k].sid = class1[k].sid
    BY <1>2, <1>r, SecondUpdate
  <2>3. ASSUME NEW t \in Tablets, tile'[t] # NONE
        PROVE  \E k \in Ids' : Row(k, tile[t].sid, tile[t].name, t)'
    <3>1. PICK k \in Ids : Row(k, tile[t].sid, tile[t].name, t)
      BY <1>r, <2>1, <2>3 DEF TileInv
    <3>2. Row(k, tile[t].sid, tile[t].name, t)'
      BY <2>1, <2>2, <3>1 DEF Row
    <3> QED
      BY <2>2, <3>2
  <2>4. (id # 0 => sid = class1[id].sid)'
    BY <1>r, <2>1, <2>2 DEF TileInv, Known
  <2> QED
    BY <2>1, <2>3, <2>4
<1>3. CASE ~RegisterByName /\ ~SaveMac
  <2>1. class1' = class1
    BY <1>3, KeepsTheRest
  <2>2. (id # 0 => sid = class1[id].sid)'
    BY <1>3, <1>r, NumberOfStudent DEF TileInv
  <2>3. Working' => Working /\ UNCHANGED <<macAddress, id, plugged, username, sid>>
    BY <1>3, RunKeepsItsStudent
  <2>4. ASSUME NEW t \in Tablets, tile'[t] # NONE
        PROVE  \E k \in Ids : Row(k, tile'[t].sid, tile'[t].name, t)
    <3>1. CASE tile'[t] = tile[t]
      BY <1>r, <2>4, <3>1 DEF TileInv
    <3>2. CASE tile'[t] # tile[t]
      <4>1. /\ Personalise /\ id # 0 /\ pc = "personal"
            /\ plugged # NONE /\ tile' = [tile EXCEPT ![plugged] = [sid |-> sid, name |-> username]]
        BY <3>2, TabletsKeep DEF Personalise, Goto
      <4>2. t = plugged /\ tile'[t] = [sid |-> sid, name |-> username]
        BY <3>2, <4>1 DEF TileInv
      <4>3. plugged = macAddress /\ Row(id, sid, username, macAddress)
        BY <1>r, <4>1 DEF TileInv, Working
      <4>4. id \in Ids
        BY <4>1 DEF Known
      <4> QED
        BY <4>2, <4>3, <4>4
    <3> QED
      BY <3>1, <3>2
  <2>5. (Working => /\ plugged = macAddress
                    /\ id # 0 => Row(id, sid, username, macAddress))'
    BY <1>r, <2>1, <2>3 DEF TileInv, Row
  <2> QED
    BY <2>1, <2>2, <2>4, <2>5 DEF Row, Ids
<1> QED
  BY <1>1, <1>2, <1>3

\* OnceInv holds throughout.
LEMMA OnceAlways == Spec => []OnceInv
<1>1. Init => OnceInv
  BY OnceInit
<1> QED
  BY <1>1, OnceInductive, KnownAlways, PTL DEF Spec

\* TileInv holds throughout.
LEMMA TileAlways == Spec => []TileInv
<1>1. Init => TileInv
  BY DEF Init, TileInv, Working
<1> QED
  BY <1>1, TileInductive, OnceAlways, KnownAlways, PTL DEF Spec

(***************************************************************************)
(* In regular sessions the number and the name on a launcher are those of  *)
(* the student class1 holds that tablet for.                               *)
(***************************************************************************)
THEOREM LauncherTrue == Spec => []TileTrue
<1>1. Known /\ TileInv => TileTrue
  <2> SUFFICES ASSUME Known, TileInv, Regular, NEW t \in Tablets, tile[t] # NONE
               PROVE  \E k \in Ids :
                        class1[k] = [name |-> tile[t].name, sid |-> tile[t].sid, mac |-> t]
    BY DEF TileTrue, Regular
  <2>1. PICK n \in Nat : class1 \in [1 .. n -> Student]
    BY DEF Known
  <2>2. PICK k \in Ids : Row(k, tile[t].sid, tile[t].name, t)
    BY DEF TileInv
  <2>3. class1[k] \in Student
    BY <2>1, <2>2 DEF Ids
  <2> QED
    BY <2>2, <2>3 DEF Row, Student
<1> QED
  BY <1>1, TileAlways, KnownAlways, PTL

(***************************************************************************)
(* If moreover every run finds a student, the address of a tablet is made  *)
(* from the number of the student who has it, and numbers stay distinct.   *)
(***************************************************************************)
AddressInv ==
  /\ DOMAIN ip = Tablets
  /\ odd = {} =>
       /\ \A t \in Tablets : ip[t] # NONE =>
            \E k \in Ids : class1[k].sid = ip[t] /\ class1[k].mac = t
       /\ \A k, m \in Ids : class1[k].sid = class1[m].sid => k = m
       /\ Working => id # 0

\* Numbers are distinct in every class to start from.
LEMMA AddressInit == Init => AddressInv
<1> SUFFICES ASSUME Init PROVE AddressInv
  OBVIOUS
<1>1. PICK c \in Classes :
        class1 = [k \in DOMAIN c |-> [name |-> c[k].name, sid |-> c[k].sid, mac |-> NONE]]
  BY DEF Init
<1>2. \A k, m \in DOMAIN c : c[k].sid = c[m].sid => k = m
  BY ClassAssumption
<1>3. \A k, m \in Ids : class1[k].sid = class1[m].sid => k = m
  BY <1>1, <1>2 DEF Ids
<1> QED
  BY <1>3 DEF Init, AddressInv, Working

\* Every step keeps AddressInv; only Settings gives a tablet an address.
LEMMA AddressInductive ==
  Known /\ OnceInv /\ TileInv /\ AddressInv /\ [Next]_vars => AddressInv'
<1> SUFFICES ASSUME Known, OnceInv, TileInv, AddressInv, [Next]_vars
             PROVE  AddressInv'
  OBVIOUS
<1>d. DOMAIN ip' = Tablets
  BY TabletsKeep DEF AddressInv, Settings
<1> SUFFICES ASSUME odd' = {}
             PROVE  /\ (\A t \in Tablets : ip[t] # NONE =>
                          \E k \in Ids : class1[k].sid = ip[t] /\ class1[k].mac = t)'
                    /\ (\A k, m \in Ids : class1[k].sid = class1[m].sid => k = m)'
                    /\ (Working => id # 0)'
  BY <1>d DEF AddressInv
<1>r. odd = {} /\ Regular /\ Regular'
  BY OddGrows DEF Regular
<1>u. \A k, m \in Ids : class1[k].sid = class1[m].sid => k = m
  BY <1>r DEF AddressInv
<1>1. ASSUME RegisterByName \/ SaveMac
      PROVE  /\ Ids' = Ids
             /\ \A num, who : \A k \in Ids, t \in Tablets : Row(k, num, who, t) => Row(k, num, who, t)'
             /\ \A k \in Ids : class1'[k].sid = class1[k].sid
             /\ ip' = ip /\ id' = id
  <2>1. ip' = ip /\ id' = id
    BY <1>1 DEF RegisterByName, SaveMac, names
  <2> QED
    BY <1>1, <1>r, <2>1, RegularRun, SecondUpdate DEF TileInv
<1>2. CASE RegisterByName \/ SaveMac
  <2>1. ASSUME NEW t \in Tablets, ip'[t] # NONE
        PROVE  \E k \in Ids' : class1'[k].sid = ip'[t] /\ class1'[k].mac = t
    <3>1. PICK k \in Ids : class1[k].sid = ip[t] /\ class1[k].mac = t
      BY <1>1, <1>2, <1>r, <2>1 DEF AddressInv
    <3>2. Row(k, ip[t], class1[k].name, t)
      BY <3>1 DEF Row
    <3>3. class1'[k].sid = ip'[t] /\ class1'[k].mac = t
      BY <1>1, <1>2, <3>2 DEF Row
    <3> QED
      BY <1>1, <1>2, <3>3
  <2>2. (\A k, m \in Ids : class1[k].sid = class1[m].sid => k = m)'
    BY <1>1, <1>2, <1>u
  <2>3. (Working => id # 0)'
    <3>1. CASE RegisterByName
      <4>1. "nobody" \notin Oddities
        BY <3>1 DEF RegisterByName
      <4> QED
        BY <1>1, <3>1, <4>1 DEF Oddities, Odd
    <3>2. CASE SaveMac
      BY <3>2 DEF SaveMac, Goto, Working
    <3> QED
      BY <1>2, <3>1, <3>2
  <2> QED
    BY <2>1, <2>2, <2>3
<1>3. CASE ~RegisterByName /\ ~SaveMac
  <2>1. class1' = class1
    BY <1>3, KeepsTheRest
  <2>2. Working' => Working /\ UNCHANGED id
    BY <1>3, RunKeepsItsStudent
  <2>3. ASSUME NEW t \in Tablets, ip'[t] # NONE
        PROVE  \E k \in Ids : class1[k].sid = ip'[t] /\ class1[k].mac = t
    <3>1. CASE ip'[t] = ip[t]
      BY <1>r, <2>3, <3>1 DEF AddressInv
    <3>2. CASE ip'[t] # ip[t]
      <4>1. Settings /\ pc = "settings" /\ ip' = [ip EXCEPT ![plugged] = sid]
        BY <3>2, TabletsKeep DEF Settings, Goto
      <4>2. t = plugged /\ ip'[t] = sid
        BY <3>2, <4>1 DEF AddressInv
      <4>3. id # 0 /\ plugged = macAddress /\ Row(id, sid, username, macAddress)
        BY <1>r, <4>1 DEF AddressInv, TileInv, Working
      <4>4. id \in Ids
        BY <4>3 DEF Known
      <4> QED
        BY <4>2, <4>3, <4>4 DEF Row
    <3> QED
      BY <3>1, <3>2
  <2> QED
    BY <1>r, <1>u, <2>1, <2>2, <2>3 DEF AddressInv, Ids
<1> QED
  BY <1>2, <1>3

(***************************************************************************)
(* Check_Android_SettingDB never gives two tablets the same fixed address, *)
(* as long as no run was odd.                                              *)
(***************************************************************************)
THEOREM AddressesDistinct == Spec => []AddressUnique
<1>1. AddressInv => AddressUnique
  BY DEF AddressInv, AddressUnique
<1>2. Spec => []AddressInv
  BY AddressInit, AddressInductive, TileAlways, OnceAlways, KnownAlways, PTL DEF Spec
<1> QED
  BY <1>1, <1>2, PTL

-----------------------------------------------------------------------------
(* Types. *)

\* The names and numbers of the table are those the class began with.
ClassType ==
  \E c \in Classes :
    class1 \in [DOMAIN c -> [name : {c[k].name : k \in DOMAIN c},
                             sid : {c[k].sid : k \in DOMAIN c},
                             mac : Addresses]]

TabletType ==
  /\ tile \in [Tablets -> {NONE} \cup [sid : Nat \ {0}, name : Names]]
  /\ ip \in [Tablets -> Nat \cup {NONE}]

(* The number goes with the student found; before the list has been filled
   there is neither, so that an empty result may leave the number alone. *)
NumberType == sid \in Nat /\ (id = 0 <=> sid = 0) /\ (~listed => id = 0)

ViewType ==
  /\ read \in BOOLEAN /\ listed \in BOOLEAN /\ canInstall \in BOOLEAN /\ sqlOpen \in BOOLEAN
  /\ force \in BOOLEAN /\ forceShown \in BOOLEAN
  /\ pc \in {"watch", "register", "decide", "settings", "personal", "save",
             "close", "over"}
  /\ odd \subseteq Odd

Typed ==
  /\ Known /\ ClassType /\ TabletType /\ NumberType /\ ViewType
  /\ username \in Names

\* Neither update brings a name or a number into the table.
LEMMA ClassTypeKept == Known /\ ClassType /\ [Next]_vars => ClassType'
<1> SUFFICES ASSUME Known, ClassType, [Next]_vars PROVE ClassType'
  OBVIOUS
<1>1. PICK c \in Classes :
        class1 \in [DOMAIN c -> [name : {c[k].name : k \in DOMAIN c},
                                 sid : {c[k].sid : k \in DOMAIN c},
                                 mac : Addresses]]
  BY DEF ClassType
<1> DEFINE ItsNames == {c[k].name : k \in DOMAIN c}
           Sids == {c[k].sid : k \in DOMAIN c}
<1> SUFFICES class1' \in [DOMAIN c -> [name : ItsNames, sid : Sids, mac : Addresses]]
  BY DEF ClassType
<1>2. class1 \in [DOMAIN c -> [name : ItsNames, sid : Sids, mac : Addresses]]
  BY <1>1
<1>3. macAddress \in Addresses
  BY DEF Known
<1> HIDE DEF ItsNames, Sids
<1>4. ASSUME NEW n, NEW first \in Named(n)
      PROVE  Shared(n, first) \in [DOMAIN c -> [name : ItsNames, sid : Sids,
                                                mac : Addresses]]
  BY <1>2, <1>3, <1>4 DEF Shared, Named, Ids
<1>5. CASE RegisterByName
  BY <1>2, <1>4, <1>5 DEF RegisterByName
<1>6. CASE SaveMac
  BY <1>2, <1>3, <1>6 DEF SaveMac
<1> QED
  BY <1>2, <1>5, <1>6, KeepsTheRest

\* A student keeps the name: the first update writes the one it looked for.
LEMMA NamesStay == Known /\ [Next]_vars => Names' = Names
<1> SUFFICES ASSUME Known, [Next]_vars PROVE KnownNames' = KnownNames
  BY Zenon DEF Names
<1>1. PICK n \in Nat : class1 \in [1 .. n -> Student]
  BY DEF Known
<1>2. CASE RegisterByName
  <2>1. ASSUME NEW m, NEW first \in Named(m), class1' = Shared(m, first)
        PROVE  Ids' = Ids /\ \A k \in Ids : class1'[k].name = class1[k].name
    BY <2>1 DEF Shared, Named, Ids
  <2>2. Ids' = Ids /\ \A k \in Ids : class1'[k].name = class1[k].name
    BY <1>2, <2>1 DEF RegisterByName, Ids
  <2> QED
    BY <2>2 DEF KnownNames
<1>3. CASE SaveMac
  <2>1. Ids' = Ids /\ \A k \in Ids : class1'[k].name = class1[k].name
    BY <1>1, <1>3 DEF SaveMac, Ids, Student
  <2> QED
    BY <2>1 DEF KnownNames
<1>4. CASE ~RegisterByName /\ ~SaveMac
  BY <1>4, KeepsTheRest DEF KnownNames, Ids
<1> QED
  BY <1>2, <1>3, <1>4

\* What the run writes to the tablet plugged in is the number of a student.
LEMMA TabletTypeKept == Typed /\ [Next]_vars => TabletType'
<1> SUFFICES ASSUME Typed, [Next]_vars PROVE TabletType'
  OBVIOUS
<1>1. /\ plugged \in Tablets \cup {NONE} /\ sid \in Nat /\ username \in Names
      /\ Names' = Names
  BY NamesStay DEF Typed, Known, NumberType
<1>2. CASE Personalise
  <2>1. /\ UNCHANGED ip
        /\ \/ UNCHANGED tile
           \/ /\ sid # 0 /\ plugged # NONE
              /\ tile' = [tile EXCEPT ![plugged] = [sid |-> sid, name |-> username]]
    BY <1>2 DEF Personalise, Typed, NumberType
  <2> QED
    BY <1>1, <2>1 DEF Typed, TabletType
<1>3. CASE Settings
  BY <1>1, <1>3 DEF Settings, Typed, TabletType
<1>4. CASE ~Personalise /\ ~Settings
  BY <1>1, <1>4, TabletsKeep DEF Typed, TabletType
<1> QED
  BY <1>2, <1>3, <1>4

\* Only the timer finds a student, and only a restart forgets one.
LEMMA NumberTypeKept == Typed /\ [Next]_vars => NumberType'
<1> SUFFICES ASSUME Typed, [Next]_vars PROVE NumberType'
  OBVIOUS
<1> USE DEF Typed, NumberType
<1>1. PICK n \in Nat : class1 \in [1 .. n -> Student]
  BY DEF Known
<1>2. \A k \in Ids : class1[k].sid \in Nat \ {0} /\ k # 0
  <2>1. \A r \in Student : r.sid \in Nat \ {0}
    BY Zenon DEF Student
  <2> QED
    BY <1>1, <2>1 DEF Ids
<1>3. CASE TickReady
  <2>1. ASSUME NEW k \in Ids, id' = k, sid' = class1[k].sid, listed' = TRUE
        PROVE  NumberType'
    BY <1>2, <2>1
  <2>2. ASSUME ~listed, UNCHANGED sid, id' = 0, listed' = TRUE
        PROVE  NumberType'
    BY <2>2
  <2>3. ASSUME UNCHANGED <<id, sid, listed>>
        PROVE  NumberType'
    BY <2>3
  <2>4. \/ \E k \in Ids : id' = k /\ sid' = class1[k].sid /\ listed' = TRUE
        \/ ~listed /\ UNCHANGED sid /\ id' = 0 /\ listed' = TRUE
        \/ UNCHANGED <<id, sid, listed>>
    BY <1>3, Zenon DEF TickReady, Consult, ListStudents, Found, Unregistered
  <2> QED
    BY <2>1, <2>2, <2>3, <2>4
<1>4. CASE Restart
  <2>1. sid' = 0 /\ id' = 0
    BY <1>4, Zenon DEF Restart, Started
  <2> QED
    BY <2>1
<1>5. CASE UNCHANGED <<id, sid, listed>>
  BY <1>5
<1>6. ASSUME ~TickReady, ~Restart PROVE UNCHANGED <<id, sid, listed>>
  BY <1>6, Zenon DEF Next, vars, names, Worker, Plug, Select, Install, StartRun,
     ForceInstall, NextTablet, TickNoMac, TickNone, TickUnknown, RegisterByName,
     Decide, Settings, Personalise, Close, SaveMac
<1> QED
  BY <1>3, <1>4, <1>5, <1>6

\* The name comes from the table, or is empty, or is what the list left.
LEMMA UsernameKept == Typed /\ [Next]_vars => username' \in Names'
<1> SUFFICES ASSUME Typed, [Next]_vars PROVE username' \in Names
  BY NamesStay DEF Typed
<1>1. "" \in Names /\ GARBAGE \in Names /\ \A k \in Ids : class1[k].name \in Names
  BY Zenon DEF Names, KnownNames
<1>2. username \in Names /\ combo \in Ids \cup {0}
  BY DEF Typed, Known
<1>3. CASE TickReady
  BY <1>1, <1>3, Zenon DEF TickReady, Consult, ListStudents, Found, Unregistered
<1>4. CASE RegisterByName
  <2>1. username' \in NameSelected
    BY <1>4, Zenon DEF RegisterByName
  <2>2. NameSelected \subseteq Names
    BY <1>1, <1>2 DEF NameSelected
  <2> QED
    BY <2>1, <2>2
<1>5. CASE Restart
  BY <1>1, <1>5, Zenon DEF Restart, Started
<1>6. CASE TickNoMac \/ TickNone \/ TickUnknown
  BY <1>1, <1>6, Zenon DEF TickNoMac, TickNone, TickUnknown
<1>7. ASSUME ~TickReady, ~RegisterByName, ~Restart, ~TickNoMac, ~TickNone, ~TickUnknown
      PROVE  UNCHANGED username
  BY <1>7, Zenon DEF Next, vars, names, Worker, Plug, Select, Install, StartRun,
     ForceInstall, NextTablet, Decide, Settings, Personalise, Close, SaveMac
<1> QED
  BY <1>2, <1>3, <1>4, <1>5, <1>6, <1>7

\* Buttons, flags and the place in the worker.
LEMMA ViewTypeKept == Typed /\ [Next]_vars => ViewType'
<1> SUFFICES ASSUME Typed, [Next]_vars PROVE ViewType'
  OBVIOUS
<1> USE DEF Typed, ViewType, view, names, world, Goto
<1>1. CASE Plug \/ Select \/ NextTablet
  BY <1>1 DEF Plug, Select, NextTablet
<1>2. CASE Install \/ ForceInstall
  BY <1>2 DEF Install, ForceInstall, StartRun
<1>3. CASE Restart
  BY <1>3 DEF Restart, Started
<1>4. CASE TickNoMac \/ TickNone \/ TickUnknown
  BY <1>4 DEF TickNoMac, TickNone, TickUnknown
<1>5. CASE TickReady
  BY <1>5 DEF TickReady, Consult, ListStudents
<1>6. CASE RegisterByName
  <2>1. odd' \subseteq Odd
    BY <1>6, HabitAssumption DEF RegisterByName
  <2>2. sqlOpen' \in BOOLEAN /\ pc' = "decide" /\ UNCHANGED <<read, listed, view>>
    BY <1>6 DEF RegisterByName
  <2> QED
    BY <2>1, <2>2
<1>7. CASE Decide \/ Settings \/ Personalise
  BY <1>7 DEF Decide, Settings, Personalise
<1>8. CASE SaveMac \/ Close
  BY <1>8 DEF SaveMac, Close
<1>9. CASE UNCHANGED vars
  BY <1>9 DEF vars
<1> QED
  BY <1>1, <1>2, <1>3, <1>4, <1>5, <1>6, <1>7, <1>8, <1>9 DEF Next, Worker

(***************************************************************************)
(* TypeOK: in particular the table never holds a name or number that was   *)
(* not there from the start, and this_sid goes with this_id, so that no    *)
(* launcher gets the number 0 (Personalise looks at this_id only).         *)
(***************************************************************************)
THEOREM TypeCorrect == Spec => []TypeOK
<1>1. Init => Typed
  <2> SUFFICES ASSUME Init PROVE Typed
    OBVIOUS
  <2>1. PICK c \in Classes :
          class1 = [k \in DOMAIN c |-> [name |-> c[k].name, sid |-> c[k].sid, mac |-> NONE]]
    BY DEF Init
  <2>2. ClassType
    BY <2>1 DEF ClassType, Addresses
  <2>3. TabletType
    BY DEF Init, TabletType
  <2>4. username \in Names
    BY Zenon DEF Init, Names
  <2>5. /\ id = 0 /\ sid = 0 /\ listed = FALSE /\ canInstall = FALSE /\ sqlOpen = FALSE
        /\ force = FALSE /\ forceShown = FALSE /\ pc = "watch" /\ odd = {} /\ read = TRUE
    BY Zenon DEF Init
  <2>6. NumberType /\ ViewType
    BY <2>5 DEF NumberType, ViewType
  <2> QED
    BY <2>2, <2>3, <2>4, <2>6, KnownInit DEF Typed
<1>2. Typed /\ [Next]_vars => Typed'
  <2> SUFFICES ASSUME Typed, [Next]_vars PROVE Typed'
    OBVIOUS
  <2>1. Known' /\ ClassType'
    BY KnownInductive, ClassTypeKept DEF Typed
  <2> QED
    BY <2>1, TabletTypeKept, NumberTypeKept, UsernameKept, ViewTypeKept DEF Typed
<1>3. Typed => TypeOK
  BY DEF Typed, Known, ClassType, TabletType, NumberType, ViewType, TypeOK
<1> QED
  BY <1>1, <1>2, <1>3, PTL DEF Spec
=============================================================================
