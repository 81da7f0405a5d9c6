---------------------------- MODULE StudentList ----------------------------
(***************************************************************************)
(* How the students travel from MySQL to the list in the window and back:  *)
(* ToMysql::SelectData ends every field with the character 6 and every row *)
(* with another one, GetAllUser_from_MySQL takes the text apart and makes  *)
(* the entries "sid.name", TimerProc1 looks the found student up among     *)
(* them by a prefix search, and the worker cuts the name out of the        *)
(* selected entry.                                                         *)
(***************************************************************************)
EXTENDS Integers, Sequences, SequencesExt

CONSTANTS
  SlChars,    \* the characters of numbers and names
  SlSids,     \* numbers of students, as texts
  SlNames,    \* their names, as texts, the empty one among them
  SlMaxRows   \* bound: students in class1

Sep == "6"
Nul == "0"
Dot == "."

\* A number has no dot; the separator is a control character.
ASSUME StudentsAssumption ==
  /\ SlMaxRows \in Nat
  /\ Sep \notin SlChars
  /\ SlSids \subseteq Seq(SlChars \ {Dot}) /\ SlNames \subseteq Seq(SlChars)

VARIABLES
  slRows,     \* the rows of class1
  slFound,    \* index of the row GetName_from_MySQL found, 0 if none
  slI, slJ,   \* the loop index and the start of the current entry
  slBuf,      \* buf: the text, with a 0 at the end of every entry read
  slItems,    \* the entries of the list
  slSel,      \* the selected entry, from 1; 0 for none
  slUser,     \* this_username as the worker reads it
  slState

slVars == <<slRows, slFound, slI, slJ, slBuf, slItems, slSel, slUser, slState>>

SlRow == [sid : SlSids, name : SlNames]

\* SelectData with two columns.
Fields(r) == r.sid \o <<Sep>> \o r.name \o <<Sep>> \o <<Sep>>
\* The text of the first rows, and of all.
Packed(rows) ==
  LET f[k \in 0 .. Len(rows)] == IF k = 0 THEN <<>> ELSE f[k - 1] \o Fields(rows[k])
  IN  f
Selected(rows) == Packed(rows)[Len(rows)]

Entry(r) == r.sid \o <<Dot>> \o r.name

SlInit ==
  /\ slRows \in BoundedSeq(SlRow, SlMaxRows)
  /\ \A k, l \in DOMAIN slRows : slRows[k].sid = slRows[l].sid => k = l
  /\ slFound \in 0 .. Len(slRows)
  /\ slI = 1 /\ slJ = 1
  /\ slBuf = Selected(slRows)
  /\ slItems = <<>> /\ slSel = 0 /\ slUser = <<>> /\ slState = "scan"

Dotted(c) == IF c = Sep THEN Dot ELSE c

\* Two separators end an entry; those within it become dots.
RowEnds == slI < Len(slBuf) /\ slBuf[slI] = Sep /\ slBuf[slI + 1] = Sep

\* Mutant: the second separator is not skipped.
ScanEndSlow ==
  /\ slState = "scan" /\ slI <= Len(slBuf) /\ RowEnds
  /\ slItems' = Append(slItems, [k \in 1 .. slI - slJ |-> Dotted(slBuf[slJ + k - 1])])
  /\ slBuf' = [slBuf EXCEPT ![slI] = Nul]
  /\ slJ' = slI + 1 /\ slI' = slI + 1
  /\ UNCHANGED <<slRows, slFound, slSel, slUser, slState>>

ScanEnd ==
  /\ slState = "scan" /\ slI <= Len(slBuf) /\ RowEnds
  /\ slItems' = Append(slItems, [k \in 1 .. slI - slJ |-> Dotted(slBuf[slJ + k - 1])])
  /\ slBuf' = [slBuf EXCEPT ![slI] = Nul]
  /\ slJ' = slI + 2 /\ slI' = slI + 2
  /\ UNCHANGED <<slRows, slFound, slSel, slUser, slState>>

ScanOn ==
  /\ slState = "scan"
  /\ \/ slI <= Len(slBuf) /\ ~RowEnds /\ slI' = slI + 1 /\ UNCHANGED slState
     \/ slI > Len(slBuf) /\ slState' = "find" /\ UNCHANGED slI
  /\ UNCHANGED <<slRows, slFound, slJ, slBuf, slItems, slSel, slUser>>

\* What TimerProc1 looks for.
Wanted == Entry(slRows[slFound])

Foremost(hits) == CHOOSE k \in hits : \A h \in hits : k <= h

\* CComboBox::FindString(1, s): the search starts behind the second entry and
\* goes round; an entry matches when it begins with s.
FindString(s) ==
  LET hits   == {k \in DOMAIN slItems : IsPrefix(s, slItems[k])}
      behind == {k \in hits : k > 2}
  IN  IF hits = {} THEN 0 ELSE Foremost(IF behind # {} THEN behind ELSE hits)

\* Mutant: only the number is looked for.
FindByNumber ==
  /\ slState = "find" /\ slState' = "selected"
  /\ slSel' = IF slFound = 0 THEN 0 ELSE FindString(slRows[slFound].sid)
  /\ UNCHANGED <<slRows, slFound, slI, slJ, slBuf, slItems, slUser>>

Find ==
  /\ slState = "find" /\ slState' = "selected"
  /\ slSel' = IF slFound = 0 THEN 0 ELSE FindString(Wanted)
  /\ UNCHANGED <<slRows, slFound, slI, slJ, slBuf, slItems, slUser>>

\* Everything behind the first dot of the selected entry.
Cut(entry) ==
  LET dots == {k \in DOMAIN entry : entry[k] = Dot}
  IN  IF dots = {} THEN <<>> ELSE SubSeq(entry, Foremost(dots) + 1, Len(entry))

\* Install_process; without a selection GetLBText fails (see Registration).
ReadUser ==
  /\ slState = "selected" /\ slSel # 0 /\ slState' = "read"
  /\ slUser' = Cut(slItems[slSel])
  /\ UNCHANGED <<slRows, slFound, slI, slJ, slBuf, slItems, slSel>>

SlNext == ScanEnd \/ ScanOn \/ Find \/ ReadUser
SlSpec == SlInit /\ [][SlNext]_slVars

AllNamed == \A k \in DOMAIN slRows : slRows[k].name # <<>>

(***************************************************************************)
(* If no student's name is empty, the list shows every student once, in    *)
(* the order of the table, as "sid.name": the scan never runs ahead of the *)
(* rows and never falls behind.  (An empty name ends its row one character *)
(* early, and the entries after it begin with a dot.)                      *)
(***************************************************************************)
ListExact ==
  AllNamed =>
    /\ Len(slItems) <= Len(slRows)
    /\ \A k \in DOMAIN slItems : slItems[k] = Entry(slRows[k])
    /\ slState # "scan" => Len(slItems) = Len(slRows)

(***************************************************************************)
(* The student that was found is the one selected, although the search is  *)
(* for a prefix and starts in the middle, and the worker gets back his     *)
(* name as it is in MySQL, dots included.                                  *)
(***************************************************************************)
SelectionRight ==
  AllNamed =>
    /\ slState \in {"selected", "read"} => slSel = slFound
    /\ slState = "read" => slUser = slRows[slFound].name
=============================================================================
