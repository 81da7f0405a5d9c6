----------------------------- MODULE IndexFile -----------------------------
(***************************************************************************)
(* check_Install_index_file and make_into_install_item: how I.txt and      *)
(* C.txt become the table inst1.  The file is read into a block of just    *)
(* its length and taken apart with strstr, so that the end of the table is *)
(* recognised by a byte that is not part of the file.                      *)
(*                                                                         *)
(* A text is a sequence of characters; a name, which is never looked into, *)
(* counts as one character.                                                *)
(***************************************************************************)
EXTENDS Integers, Sequences, FiniteSets, SequencesExt

CONSTANTS
  IxNames,     \* names of files, packages and folders
  IxLimit,     \* the size of inst1
  IxMaxRows    \* bound: rows of a file

Comma == ","
Hash  == "#"
None  == "none"   \* no activity, written as '#'

ASSUME IndexAssumption ==
  /\ IxLimit \in Nat /\ IxMaxRows \in Nat
  /\ IxNames \cap {Comma, Hash, None} = {}   \* the table is not made for such names

VARIABLES
  ixRows,      \* the rows of the file
  ixBuf,       \* indexbuf, and the two bytes behind the block in memory
  ixPos,       \* f4
  ixInst,      \* inst1[0 .. i-1]
  ixFlag,      \* remove_version_flag
  ixState      \* "parse", "done", or "crash" when strstr returns NULL

ixVars == <<ixRows, ixBuf, ixPos, ixInst, ixFlag, ixState>>

IxRowType == [act : {"I", "U"}, name : IxNames, activity : IxNames \cup {None}]

\* One line: action,name,activity,# and action,name,#,# (as in I-install.txt
\* and U.txt).
Line(r) == <<r.act, Comma, r.name, Comma, IF r.activity = None THEN Hash ELSE r.activity,
             Comma, Hash, "CR", "LF">>
Width == 9

\* The file: line after line.
File(rows) ==
  [p \in 1 .. Width * Len(rows) |->
     Line(rows[((p - 1) \div Width) + 1])[((p - 1) % Width) + 1]]

IxInit ==
  /\ ixRows \in BoundedSeq(IxRowType, IxMaxRows)
  /\ \E b1, b2 \in {Comma, "NUL", "other"} : ixBuf = File(ixRows) \o <<b1, b2>>
  /\ ixPos = 1 /\ ixInst = <<>> /\ ixState = "parse"
  /\ ixFlag = FALSE

\* strstr(p, c): the first c from position p on, 0 for NULL.
StrStr(p, c) ==
  LET hits == {q \in p .. Len(ixBuf) : ixBuf[q] = c}
  IN  IF hits = {} THEN 0 ELSE CHOOSE q \in hits : \A h \in hits : q <= h

Between(p, q) == IF q = p + 2 THEN ixBuf[p + 1] ELSE "several"

MoreRows == ixBuf[ixPos + 1] = Comma

Count(act) == Cardinality({k \in DOMAIN ixInst : ixInst[k].act = act})

\* The activity behind the comma f2 is missing.
Empty(f2) == f2 < Len(ixBuf) /\ ixBuf[f2 + 1] = Hash

\* Mutant: the next line is taken to start after one character of line end.
AfterLineShort(p) == p + 2

AfterLine(p) == p + 3

\* f3: behind '#', or at the comma that ends the activity.
ActivityEnd(f2) == IF Empty(f2) THEN f2 + 2 ELSE StrStr(f2 + 1, Comma)

\* One round of the loop; a NULL from strstr is followed blindly.
ParseRow ==
  /\ ixState = "parse" /\ MoreRows
  /\ LET f1 == StrStr(ixPos, Comma)
         f2 == StrStr(f1 + 1, Comma)
         f3 == ActivityEnd(f2)
         f4 == StrStr(f3 + 1, Hash)
     IN  IF f2 = 0 \/ f3 = 0 \/ f4 = 0
         THEN /\ ixState' = "crash"
              /\ UNCHANGED <<ixPos, ixInst>>
         ELSE /\ ixInst' = Append(ixInst,
                   [act |-> ixBuf[f1 - 1], name |-> Between(f1, f2),
                    activity |-> IF Empty(f2) THEN None ELSE Between(f2, f3)])
              /\ ixPos' = AfterLine(f4)
              /\ UNCHANGED ixState
  /\ UNCHANGED <<ixRows, ixBuf, ixFlag>>

\* Install_sum and remove_version_flag; the flag was cleared before.
ParseDone ==
  /\ ixState = "parse" /\ ~MoreRows /\ ixState' = "done"
  /\ ixFlag' = (Count("I") < Count("U"))
  /\ UNCHANGED <<ixRows, ixBuf, ixPos, ixInst>>

IxNext == ParseRow \/ ParseDone
IxSpec == IxInit /\ [][IxNext]_ixVars

(***************************************************************************)
(* The table is the file, row for row, with or without activities, and the *)
(* flag says that more is removed than installed; no NULL is followed, and *)
(* inst1 is overrun only by a file of more rows than it has.  All of this  *)
(* hangs on a byte that does not belong to the file: the second one behind *)
(* the block must not happen to be a comma.                                *)
(***************************************************************************)
IndexExact ==
  Last(ixBuf) # Comma =>
    /\ ixState # "crash"
    /\ IsPrefix(ixInst, ixRows)
    /\ Len(ixInst) > IxLimit => Len(ixRows) > IxLimit
    /\ ixState = "done" =>
         /\ ixInst = ixRows
         /\ ixFlag <=> 2 * Cardinality({k \in DOMAIN ixRows : ixRows[k].act = "U"})
                       > Len(ixRows)
=============================================================================
