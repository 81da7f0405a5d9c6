---------------------------- MODULE Registration ----------------------------
(***************************************************************************)
(* Which tablet belongs to which student: the MySQL table class1, the      *)
(* globals TimerProc1 leaves for the worker (this_MAC_address, this_id,    *)
(* this_sid, this_username, listAll_flag), the list of students and the    *)
(* steps of Install_process that read them.  The table and the tablets     *)
(* outlive the program, the globals outlive a run.                         *)
(*                                                                         *)
(* One worker at a time, the timer off while it runs (Dialog says when).   *)
(* The installation itself (InstallRun) changes nothing here.              *)
(***************************************************************************)
EXTENDS Integers, Sequences, FiniteSets

CONSTANTS
  Tablets,    \* their MAC addresses
  Classes,    \* the tables to start from: sequences of [name, sid]
  Habits,     \* the oddities that may come together: subsets of Odd
  NONE        \* no tablet, no address: fewer than 13 characters

Odd == {"other",     \* the student selected is not the one found by the timer
        "namesake",  \* another student has the selected student's name
        "again",     \* the tablet is registered for another student
        "second",    \* the student found has another tablet
        "swap",      \* the MAC address is not that of the tablet plugged in
        "nobody",    \* the timer found no student
        "nosql"}     \* MySQL not reached, or failing, when the run began

ASSUME HabitAssumption == \A h \in Habits : h \subseteq Odd

GARBAGE == "?"   \* an uninitialised string (as an address: 13 characters or more)
Pupil   == [name : STRING \ {"", GARBAGE}, sid : Nat \ {0}]

ASSUME ClassAssumption ==
  /\ {NONE, GARBAGE} \cap Tablets = {}
  /\ \A c \in Classes :
       /\ c \in Seq(Pupil)
       /\ \A k, m \in DOMAIN c : c[k].sid = c[m].sid => k = m

VARIABLES
  class1,      \* class1[id]: a student's name, number and registered MAC
  plugged,     \* the one tablet adb devices lists, or NONE (none or several)
  tile,        \* tile[t]: the number and name on tablet t's launcher
  ip,          \* ip[t]: the student number its fixed address is made from
  macAddress, id, sid, username,   \* this_MAC_address, this_id, ...
  read,        \* history: macAddress is what dumpsys said of a tablet
  listed,      \* listAll_flag
  combo,       \* the selection in the list of students: an id, or 0
  canInstall,  \* the Install button is enabled
  force, forceShown,
  pc,          \* "watch": the timer runs; "over": Next is shown; else the worker
  sqlOpen,     \* the worker's connection
  odd          \* history: what was unusual about the runs so far

world == <<class1, plugged, tile, ip>>
names == <<id, sid, username, listed, combo>>
view  == <<canInstall, force, forceShown>>
vars  == <<world, macAddress, read, names, view, pc, sqlOpen, odd>>

Ids == DOMAIN class1

Addresses == Tablets \cup {NONE, GARBAGE}

\* What can stand where a name is expected: a student's, nothing, garbage.
KnownNames == {class1[k].name : k \in Ids}
Names == KnownNames \cup {"", GARBAGE}

TypeOK ==
  /\ \E c \in Classes : class1 \in [DOMAIN c -> [name : {c[k].name : k \in DOMAIN c},
                                                 sid : {c[k].sid : k \in DOMAIN c},
                                                 mac : Addresses]]
  /\ plugged \in Tablets \cup {NONE} /\ macAddress \in Addresses
  /\ \A t \in Tablets :
       /\ ip[t] \in Nat \cup {NONE}
       /\ tile[t] = NONE \/ tile[t] \in [sid : Nat \ {0}, name : Names]
  /\ id \in Ids \cup {0} /\ combo \in Ids \cup {0}
  /\ id = 0 <=> sid = 0
  /\ username \in Names
  /\ read \in BOOLEAN /\ listed \in BOOLEAN /\ canInstall \in BOOLEAN /\ sqlOpen \in BOOLEAN
  /\ force \in BOOLEAN /\ forceShown \in BOOLEAN
  /\ pc \in {"watch", "register", "decide", "settings", "personal", "save",
             "close", "over"}
  /\ odd \subseteq Odd

\* The program starts: the globals are zero, the list is empty.
Started ==
  /\ macAddress' = NONE /\ read' = TRUE
  /\ id' = 0 /\ sid' = 0 /\ username' = "" /\ listed' = FALSE /\ combo' = 0
  /\ canInstall' = FALSE /\ force' = FALSE /\ forceShown' = FALSE
  /\ pc' = "watch" /\ sqlOpen' = FALSE

Init ==
  /\ \E c \in Classes :
       class1 = [k \in DOMAIN c |-> [name |-> c[k].name, sid |-> c[k].sid, mac |-> NONE]]
  /\ plugged = NONE
  /\ tile = [t \in Tablets |-> NONE] /\ ip = [t \in Tablets |-> NONE]
  /\ macAddress = NONE /\ read = TRUE
  /\ id = 0 /\ sid = 0 /\ username = "" /\ listed = FALSE /\ combo = 0
  /\ canInstall = FALSE /\ force = FALSE /\ forceShown = FALSE
  /\ pc = "watch" /\ sqlOpen = FALSE /\ odd = {}

-----------------------------------------------------------------------------
(* The operator. *)

\* Between the runs.
Plug ==
  /\ pc \in {"watch", "over"}
  /\ plugged' \in Tablets \cup {NONE}
  /\ UNCHANGED <<class1, tile, ip, macAddress, read, names, view, pc, sqlOpen, odd>>

\* Typing into the list leaves it without a selection.
Select ==
  /\ listed
  /\ combo' \in Ids \cup {0}
  /\ UNCHANGED <<world, macAddress, read, id, sid, username, listed, view, pc, sqlOpen, odd>>

\* What is out of the ordinary about the run that reads the list now.
Oddities ==
  {o \in Odd \ {"nosql"} :
     CASE o = "other"    -> combo # id
       [] o = "namesake" -> combo # 0 /\ \E k \in Ids \ {combo} :
                                            class1[k].name = class1[combo].name
       [] o = "again"    -> macAddress # NONE /\ \E k \in Ids \ {id} :
                                                   class1[k].mac = macAddress
       [] o = "second"   -> id # 0 /\ class1[id].mac \notin {NONE, macAddress}
       [] o = "swap"     -> macAddress # plugged
       [] o = "nobody"   -> id = 0}

StartRun ==
  /\ pc' = "register" /\ canInstall' = FALSE
  /\ UNCHANGED <<world, macAddress, read, names, sqlOpen, odd>>

Install ==
  /\ pc = "watch" /\ canInstall
  /\ StartRun
  /\ UNCHANGED <<force, forceShown>>

ForceInstall ==
  /\ pc = "over" /\ forceShown
  /\ force' = TRUE /\ forceShown' = FALSE
  /\ StartRun

NextTablet ==
  /\ pc = "over"
  /\ pc' = "watch" /\ forceShown' = FALSE
  /\ UNCHANGED <<world, macAddress, read, names, canInstall, force, sqlOpen, odd>>

\* Closed or died, and started again.
Restart == Started /\ UNCHANGED <<world, odd>>

-----------------------------------------------------------------------------
(* TimerProc1. *)

\* GetName_from_MySQL: the first row MySQL returns of the students without a
\* registered machine; the query states no order.
Unregistered == {k \in Ids : class1[k].mac = NONE}

\* The student is selected, unless filling the list failed.
Found(k) == id' = k /\ combo' \in {k, 0} /\ username' = class1[k].name

\* Mutant: the number is not copied.
ListStudentsNoNumber ==
  /\ listed' = TRUE /\ UNCHANGED sid
  /\ \/ \E k \in Unregistered : Found(k)
     \/ id' = 0 /\ combo' = 0 /\ username' = ""

\* Once per session: fill the list, find a student and select that student,
\* or find none: all are registered, or the query fails.
ListStudents ==
  /\ listed' = TRUE
  /\ \/ \E k \in Unregistered : Found(k) /\ sid' = class1[k].sid
     \/ UNCHANGED sid /\ id' = 0 /\ combo' = 0 /\ username' = ""

\* MySQL may be out of reach; the window goes on without it.
Consult ==
  \/ ~listed /\ ListStudents
  \/ username' = "" /\ UNCHANGED <<id, sid, listed, combo>>

\* Mutant: Install stays enabled when the MAC address is not known.
TickNoMacEnabled ==
  /\ pc = "watch" /\ plugged # NONE
  /\ macAddress' = NONE /\ read' = TRUE /\ username' = ""
  /\ UNCHANGED <<world, id, sid, listed, combo, view, pc, sqlOpen, odd>>

\* WiFi is off: dumpsys shows "<none>".
TickNoMac ==
  /\ pc = "watch" /\ plugged # NONE
  /\ macAddress' = NONE /\ read' = TRUE /\ username' = "" /\ canInstall' = FALSE
  /\ UNCHANGED <<world, id, sid, listed, combo, force, forceShown, pc, sqlOpen, odd>>

\* If dumpsys is not understood, or not within the 1000 bytes read, the local
\* mac_address stays uninitialised: the address of the poll before, a few
\* characters, anything ("<none>" is TickNoMac).  More than 19 characters
\* would overrun this_MAC_address; that is not followed.
TickReady ==
  /\ pc = "watch" /\ plugged # NONE
  /\ \/ macAddress' = plugged /\ read' = TRUE
     \/ macAddress' \in {macAddress, NONE, GARBAGE} /\ read' = FALSE
  /\ Consult
  /\ canInstall' = TRUE
  /\ UNCHANGED <<world, force, forceShown, pc, sqlOpen, odd>>

\* No tablet or several.
TickNone ==
  /\ pc = "watch" /\ plugged = NONE
  /\ username' = "" /\ canInstall' = FALSE
  /\ UNCHANGED <<world, macAddress, read, id, sid, listed, combo, force, forceShown,
                 pc, sqlOpen, odd>>

\* adb answers something else ("unable ...", "connected"): nothing is done.
TickUnknown ==
  /\ pc = "watch" /\ username' = ""
  /\ UNCHANGED <<world, macAddress, read, id, sid, listed, combo, view, pc, sqlOpen, odd>>

-----------------------------------------------------------------------------
(* Install_process; only the runs Habits admits are followed. *)

Goto(from, to) == pc = from /\ pc' = to

\* The name of the selected student; without a selection GetLBText leaves
\* the buffer uninitialised, which yields a '.' or not.
NameSelected == IF combo # 0 THEN {class1[combo].name} ELSE {username, GARBAGE}

\* Mutant: the MAC is written to the first student of the list.
RegisterByNameFirst ==
  /\ Goto("register", "decide")
  /\ username' \in NameSelected
  /\ sqlOpen' = TRUE
  /\ class1' = [class1 EXCEPT ![1].mac = macAddress]
  /\ UNCHANGED <<plugged, tile, ip, macAddress, read, id, sid, listed, combo, view, odd>>

\* UpdateMAC_byName_to_MySQL writes the MAC, and the number of one of them,
\* to every student of that name.  A failing query or update goes unnoticed;
\* on an empty result an uninitialised pointer is freed (if fatal: Restart).
Named(n) == {k \in Ids : class1[k].name = n}

Shared(n, first) ==
  [k \in Ids |-> IF k \in Named(n)
               THEN [name |-> n, sid |-> class1[first].sid, mac |-> macAddress]
               ELSE class1[k]]

RegisterByName ==
  /\ Goto("register", "decide")
  /\ username' \in NameSelected
  /\ \/ /\ sqlOpen' = TRUE /\ odd' = odd \cup Oddities
        /\ \/ Named(username') = {} /\ UNCHANGED class1
           \/ \E first \in Named(username') : class1' = Shared(username', first)
     \/ /\ sqlOpen' \in BOOLEAN /\ odd' = odd \cup Oddities \cup {"nosql"}
        /\ UNCHANGED class1
  /\ \E h \in Habits : odd' \subseteq h
  /\ UNCHANGED <<plugged, tile, ip, macAddress, read, id, sid, listed, combo, view>>

\* "Already the latest" skips everything up to _Install_over.
Decide ==
  /\ \/ Goto("decide", "close") /\ ~force /\ forceShown' = TRUE
     \/ Goto("decide", "settings") /\ UNCHANGED forceShown
  /\ UNCHANGED <<world, macAddress, read, names, canInstall, force, sqlOpen, odd>>

\* Mutant: the number does not enter the address.
SettingsNoNumber ==
  /\ Goto("settings", "personal")
  /\ \/ plugged # NONE /\ ip' = [ip EXCEPT ![plugged] = 0]
     \/ UNCHANGED ip
  /\ UNCHANGED <<class1, plugged, tile, macAddress, read, names, view, sqlOpen, odd>>

\* Check_Android_SettingDB( atoi(this_sid) ), unless the pull or push fails.
Settings ==
  /\ Goto("settings", "personal")
  /\ \/ plugged # NONE /\ ip' = [ip EXCEPT ![plugged] = sid]
     \/ UNCHANGED ip
  /\ UNCHANGED <<class1, plugged, tile, macAddress, read, names, view, sqlOpen, odd>>

\* SQLite_Process( this_sid ". " this_username ), if this_id.
Personalise ==
  /\ \/ /\ id # 0 /\ Goto("personal", "save")
        /\ \/ /\ plugged # NONE
              /\ tile' = [tile EXCEPT ![plugged] = [sid |-> sid, name |-> username]]
           \/ UNCHANGED tile
     \/ id = 0 /\ Goto("personal", "close") /\ UNCHANGED tile
  /\ UNCHANGED <<class1, plugged, ip, macAddress, read, names, view, sqlOpen, odd>>

\* Mutant: SQL2, the update without a WHERE, instead of SQL5.
SaveMacEverywhere ==
  /\ Goto("save", "close")
  /\ \/ sqlOpen /\ class1' = [k \in Ids |-> [class1[id] EXCEPT !.mac = macAddress]]
     \/ UNCHANGED class1
  /\ UNCHANGED <<plugged, tile, ip, macAddress, read, names, view, sqlOpen, odd>>

\* UpdateMAC_to_MySQL( this_id , this_MAC_address ) keeps name and number; a
\* query or update that fails goes unnoticed.
SaveMac ==
  /\ Goto("save", "close")
  /\ \/ sqlOpen /\ class1' = [class1 EXCEPT ![id].mac = macAddress]
     \/ UNCHANGED class1
  /\ UNCHANGED <<plugged, tile, ip, macAddress, read, names, view, sqlOpen, odd>>

\* A forced run always comes to the line that resets force_install_flag.
Close ==
  /\ Goto("close", "over")
  /\ force' = FALSE /\ sqlOpen' = FALSE
  /\ UNCHANGED <<world, macAddress, read, names, canInstall, forceShown, odd>>

Worker == RegisterByName \/ Decide \/ Settings \/ Personalise \/ SaveMac \/ Close

Next ==
  \/ Plug \/ Select \/ Install \/ ForceInstall \/ NextTablet \/ Restart
  \/ TickNoMac \/ TickReady \/ TickNone \/ TickUnknown
  \/ Worker

Spec == Init /\ [][Next]_vars

-----------------------------------------------------------------------------
(***************************************************************************)
(* A tablet is registered for at most one student, over any sequence of    *)
(* sessions, runs, failures of MySQL and failed personalisations, as long  *)
(* as the operator accepts the student the program selects and no tablet   *)
(* that already has a student comes back.                                  *)
(***************************************************************************)
RegisteredOnce ==
  odd \cap {"other", "namesake", "again"} = {} =>
    \A k, m \in Ids : class1[k].mac = class1[m].mac /\ class1[k].mac # NONE => k = m

(***************************************************************************)
(* The name and number on a tablet's launcher are those of the student for *)
(* whom class1 holds that tablet, if in addition every session serves one  *)
(* tablet, that tablet is the one polled, and MySQL answers during runs.   *)
(***************************************************************************)
TileTrue ==
  odd \subseteq {"nobody"} =>
    \A t \in Tablets : tile[t] # NONE =>
      \E k \in Ids : class1[k] = [name |-> tile[t].name, sid |-> tile[t].sid, mac |-> t]

(***************************************************************************)
(* No two tablets are given the same fixed IP address (it is made from the *)
(* student's number), under the same conditions and with a student found.  *)
(***************************************************************************)
AddressUnique ==
  odd = {} => \A t, u \in Tablets : ip[t] = ip[u] /\ ip[t] # NONE => t = u

(***************************************************************************)
(* Whatever the operator does, a registered student becomes one without a  *)
(* machine only if the run was started on an address dumpsys did not give: *)
(* what is left in mac_address may then be short.  No other run starts     *)
(* without an address, and none loses its address on the way.              *)
(***************************************************************************)
NeverUnregistered ==
  [][\A k \in Ids : class1[k].mac # NONE => class1'[k].mac # NONE \/ ~read]_vars

(***************************************************************************)
(* "取得MySQL中還沒有登記 MAC的機器": a run registers its tablet for a      *)
(* student who has none, never in place of another tablet.                 *)
(***************************************************************************)
OnlyUnregistered ==
  [][\A k \in Ids : class1'[k].mac # class1[k].mac => class1[k].mac = NONE]_vars

(***************************************************************************)
(* "修改 tiledb 畫面上有寫上學生的名字": what is written on the launcher is *)
(* some student's name and number.                                         *)
(***************************************************************************)
TileIsAStudent ==
  \A t \in Tablets : tile[t] # NONE =>
    \E k \in Ids : tile[t] = [sid |-> class1[k].sid, name |-> class1[k].name]
=============================================================================
