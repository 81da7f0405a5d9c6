------------------------------ MODULE InfoZip ------------------------------
(***************************************************************************)
(* CInfoZip: the wrapper that loads ZIPDLL.DLL and UNZDLL.DLL, looks their *)
(* functions up, and calls them through the pointers it keeps.  A pointer  *)
(* is modelled by whether it is set, a library by how often it is loaded.  *)
(***************************************************************************)
EXTENDS Integers

CONSTANT ZMaxLoads   \* bound: loads of one library that are not freed

ASSUME ZAssumption == ZMaxLoads \in Nat

VARIABLES
  zLib,       \* of each library, the members that are set and its load count
  zTrusted,   \* libraries whose last Initialize* gave TRUE, with no Finalize* since
  zNull,      \* libraries that were called through a NULL pointer
  zUses,      \* the pairs of functions used so far
  zFailed     \* a library or a function was missing once

zVars == <<zLib, zTrusted, zNull, zUses, zFailed>>

Libs    == {"zip", "unzip"}
Members == {"handle", "version", "exec"}
ZState  == [Libs -> [set : SUBSET Members, loads : Nat]]

\* InitializeZip and FinalizeZip, InitializeUnzip and FinalizeUnzip, and
\* Initialize and Finalize, which do both.
Pairs == {"zip", "unzip", "both"}

ZInit ==
  /\ zLib = [l \in Libs |-> [set |-> {}, loads |-> 0]]
  /\ zTrusted = {} /\ zNull = {} /\ zUses = {} /\ zFailed = FALSE

\* GetInitializedZip, GetInitializedUnzip.
GetInitialized(lib, l) == lib[l].set = Members

\* Mutant: the flag asked is the other library's.
AsksOther(l) == IF l = "zip" THEN "unzip" ELSE "zip"

\* Both functions ask for the unzip library.
Asks(l) == "unzip"

\* What the members become when the lookups succeed up to the first one that
\* does not; the members after that one keep what they had.
Lookups(set) ==
  { set \ {"handle"}, (set \cup {"handle"}) \ {"version"},
    (set \cup {"handle", "version"}) \ {"exec"}, Members }

\* One InitializeZip or InitializeUnzip: the states it can lead to, and what
\* it returns.
Load(lib, l) ==
  IF GetInitialized(lib, Asks(l))
  THEN {[lib |-> lib, ok |-> TRUE]}
  ELSE { [lib |-> [lib EXCEPT ![l] =
                    [set |-> m,
                     loads |-> IF "handle" \in m THEN @.loads + 1 ELSE @.loads]],
          ok |-> m = Members] : m \in Lookups(lib[l].set) }

\* Initialize stops at the first failure.
LoadBoth(lib) ==
  UNION { IF a.ok THEN Load(a.lib, "unzip") ELSE {a} : a \in Load(lib, "zip") }

Concerns(pair) == IF pair = "both" THEN Libs ELSE {pair}

Initialize(pair) ==
  /\ \A l \in Libs : zLib[l].loads < ZMaxLoads
  /\ \E a \in IF pair = "both" THEN LoadBoth(zLib) ELSE Load(zLib, pair) :
       /\ zLib' = a.lib
       /\ zTrusted' = IF a.ok THEN zTrusted \cup Concerns(pair)
                      ELSE zTrusted \ Concerns(pair)
       /\ zFailed' = (zFailed \/ ~a.ok)
  /\ zUses' = zUses \cup {pair}
  /\ UNCHANGED zNull

\* Mutant: FreeLibrary, but the pointers stay.
FreeKeeping(l) == [zLib[l] EXCEPT !.loads = @ - 1]

Free(l) == [set |-> {}, loads |-> zLib[l].loads - 1]

\* FinalizeZip, FinalizeUnzip, Finalize: what is not fully set up is not freed.
Finalize(pair) ==
  /\ zLib' = [l \in Libs |-> IF l \in Concerns(pair) /\ GetInitialized(zLib, l)
                             THEN Free(l) ELSE zLib[l]]
  /\ zTrusted' = zTrusted \ Concerns(pair)
  /\ zUses' = zUses \cup {pair}
  /\ UNCHANGED <<zNull, zFailed>>

\* AddFiles, ExtractFiles: the call goes through the pointer untested.
CallLib(l) ==
  /\ l \in zTrusted
  /\ zNull' = IF "exec" \in zLib[l].set THEN zNull ELSE zNull \cup {l}
  /\ UNCHANGED <<zLib, zTrusted, zUses, zFailed>>

ZNext ==
  \/ \E pair \in Pairs : Initialize(pair) \/ Finalize(pair)
  \/ \E l \in Libs : CallLib(l)

\* The program keeps to one of the three pairs of functions.
OnePair == \E pair \in Pairs : zUses \subseteq {pair}

ZSpec == ZInit /\ [][ZNext]_zVars

ZTypeOK ==
  /\ zLib \in ZState
  /\ zTrusted \subseteq Libs /\ zNull \subseteq Libs /\ zUses \subseteq Pairs
  /\ zFailed \in BOOLEAN

(***************************************************************************)
(* A library whose initialisation gave TRUE can be called, and is not      *)
(* called through a NULL pointer: always for unzipping, which is all that  *)
(* the program does; for zipping only as long as a single pair of          *)
(* functions is used.  (InitializeZip asks for the unzip library, so that  *)
(* after InitializeUnzip it loads nothing and reports success.)            *)
(***************************************************************************)
ReadyWhenTold ==
  \A l \in Libs :
    l = "unzip" \/ OnePair =>
      /\ l \in zTrusted => GetInitialized(zLib, l)
      /\ l \notin zNull

(***************************************************************************)
(* Nothing is loaded twice or freed twice: if no library and no function   *)
(* was ever missing, the unzip library is loaded once when it is ready and *)
(* not at all otherwise, and so is the zip library if only Initialize and  *)
(* Finalize are used.                                                      *)
(***************************************************************************)
LoadsBalanced ==
  \A l \in Libs :
    ~zFailed /\ (l = "unzip" \/ zUses \subseteq {"both"}) =>
      zLib[l].loads = IF GetInitialized(zLib, l) THEN 1 ELSE 0
=============================================================================
