------------------------------- MODULE Config -------------------------------
(***************************************************************************)
(* The second loop of Install_process, over the rows of C.txt: make a      *)
(* folder, push a file, change its mode, change its owner.  Only the push  *)
(* is waited for; the others are sent with ExecDosCmd_noWait, which looks  *)
(* at nothing and goes on after 300 ms, so that they may take effect at    *)
(* any later time and in any order.                                        *)
(*                                                                         *)
(* One folder and one file in it: rows for different files do not touch.   *)
(***************************************************************************)
EXTENDS Integers, Sequences, SequencesExt

CONSTANT CfMaxRows   \* bound: rows of C.txt

ASSUME ConfigAssumption == CfMaxRows \in Nat

VARIABLES
  cfRows, cfI,      \* inst1 and the loop index
  cfTemp,           \* the file is in the temp folder
  cfFirst,          \* the tablet before the run
  cfTablet,         \* what is on the tablet now
  cfPending,        \* rows sent but not yet carried out
  cfFailed,         \* the file could not be unpacked for a push
  cfState

cfVars == <<cfRows, cfI, cfTemp, cfFirst, cfTablet, cfPending, cfFailed, cfState>>

\* What a row is about: the folder, the file in it, its mode, its owner.
Tablet == [dir : BOOLEAN, file : BOOLEAN, mode : BOOLEAN, owner : BOOLEAN]

\* A row carried out on tablet t.  adb push makes the folder if need be and
\* replaces the file, and with it its mode and owner; chmod and chown fail
\* without the file.
Effect(t, act) ==
  CASE act = "M" -> [t EXCEPT !.dir = TRUE]
    [] act = "P" -> [dir |-> TRUE, file |-> TRUE, mode |-> FALSE, owner |-> FALSE]
    [] act = "H" -> [t EXCEPT !.mode = t.file]
    [] act = "O" -> [t EXCEPT !.owner = t.file]

CfInit ==
  /\ cfRows \in BoundedSeq({"M", "P", "H", "O"}, CfMaxRows)
  /\ cfI = 1 /\ cfTemp = FALSE
  /\ cfFirst \in {t \in Tablet : (t.file => t.dir) /\ (t.mode \/ t.owner => t.file)}
  /\ cfTablet = cfFirst
  /\ cfPending = {} /\ cfFailed = FALSE /\ cfState = "row"

\* A command that is not waited for is done at once or some time later.
Send ==
  \/ cfTablet' = Effect(cfTablet, cfRows[cfI]) /\ UNCHANGED cfPending
  \/ cfPending' = cfPending \cup {cfI} /\ UNCHANGED cfTablet

SendRow ==
  /\ cfState = "row" /\ cfI <= Len(cfRows) /\ cfRows[cfI] # "P"
  /\ Send
  /\ cfI' = cfI + 1
  /\ UNCHANGED <<cfRows, cfTemp, cfFirst, cfFailed, cfState>>

\* ExtractFiles, whose result is TRUE even if nothing came out.
Unpack ==
  /\ cfState = "row" /\ cfI <= Len(cfRows) /\ cfRows[cfI] = "P"
  /\ cfState' = "push"
  /\ \/ cfTemp' = TRUE /\ UNCHANGED cfFailed
     \/ cfFailed' = TRUE /\ UNCHANGED cfTemp
  /\ UNCHANGED <<cfRows, cfI, cfTablet, cfPending, cfFirst>>

\* Mutant: the push is not waited for either.
PushRowNoWait ==
  /\ cfState = "push" /\ cfState' = "row" /\ cfI' = cfI + 1
  /\ \/ cfTemp /\ Send
     \/ ~cfTemp /\ UNCHANGED <<cfTablet, cfPending>>
  /\ cfTemp' = FALSE
  /\ UNCHANGED <<cfRows, cfFirst, cfFailed>>

\* Start_install_apk(.., 'P') and Delete_file.
PushRow ==
  /\ cfState = "push" /\ cfState' = "row" /\ cfI' = cfI + 1
  /\ cfTablet' = IF cfTemp THEN Effect(cfTablet, "P") ELSE cfTablet
  /\ cfTemp' = FALSE
  /\ UNCHANGED <<cfRows, cfPending, cfFirst, cfFailed>>

\* A command sent earlier takes effect.
Land ==
  /\ \E k \in cfPending :
       /\ cfTablet' = Effect(cfTablet, cfRows[k])
       /\ cfPending' = cfPending \ {k}
  /\ UNCHANGED <<cfRows, cfI, cfTemp, cfFirst, cfFailed, cfState>>

RowsDone ==
  /\ cfState = "row" /\ cfI > Len(cfRows) /\ cfState' = "done"
  /\ UNCHANGED <<cfRows, cfI, cfTemp, cfTablet, cfPending, cfFirst, cfFailed>>

CfNext == SendRow \/ Unpack \/ PushRow \/ Land \/ RowsDone

\* The tablet after each of the rows, carried out one after the other.
After(first, rows) ==
  LET f[n \in 0 .. Len(rows)] == IF n = 0 THEN first ELSE Effect(f[n - 1], rows[n])
  IN  f

InOrder == After(cfFirst, cfRows)[Len(cfRows)]

CfSpec == CfInit /\ [][CfNext]_cfVars

(***************************************************************************)
(* Not waiting loses nothing: once all commands have taken effect, the     *)
(* tablet has at least the folder, the file, its mode and its owner that   *)
(* the rows give when carried out one after the other.  (It may have more: *)
(* a late chmod or chown may reach the file of a later push.)  This rests  *)
(* on the push being waited for.                                           *)
(***************************************************************************)
NothingLost ==
  cfState = "done" /\ cfPending = {} /\ ~cfFailed =>
    \A part \in DOMAIN cfFirst : InOrder[part] => cfTablet[part]
=============================================================================
