------------------------- MODULE ExecDosCmd_proofs -------------------------
(***************************************************************************)
(* Theorems about ExecDosCmd, for any commands, threads and handle values: *)
(* every way a pipe, a process or another thread may go wrong, and calls   *)
(* that overlap.                                                           *)
(***************************************************************************)
EXTENDS ExecDosCmd, SequenceTheorems, WellFoundedInduction, TLAPS

Owning == {"read", "write", "process"}

\* The parts of TypeOK.  Handles of pipes and processes belong to a caller, and
\* a caller that is not idle has a command.
GlobalsType ==
  /\ hRead \in Handles \cup {0} /\ hWrite \in Handles \cup {0} /\ hProcess \in Handles \cup {0}
  /\ command \in Commands \cup {NONE}
  /\ buf \in Seq(Word) /\ Len(buf) <= ReadMax

TableType ==
  /\ table \in [Handles -> Entry]
  /\ \A h \in Handles : table[h].kind \in Owning => table[h].of \in Callers

PipeType == pipe \in [Callers -> Seq(Word)] /\ \A t \in Callers : Len(pipe[t]) <= Capacity

ChildType == child \in [Callers -> [out : Seq(Word), to : Callers \cup {NONE}]]

CallerType ==
  /\ pc \in [Callers -> {"idle", "pipe", "command", "process", "wait", "read",
                         "classify", "close", "exit"}]
  /\ cmd \in [Callers -> Commands \cup {NONE}]
  /\ result \in [Callers -> {0, 1, 2, 3, 4, 5, 6, 65535}]
  /\ \A t \in Callers : pc[t] # "idle" => cmd[t] \in Commands
  /\ \A t \in Callers : pc[t] \notin {"idle", "pipe", "command"} => command \in Commands

HistoryType == odd \subseteq Fault /\ harmed \in BOOLEAN

Typed == GlobalsType /\ TableType /\ PipeType /\ ChildType /\ CallerType /\ HistoryType

\* Has its pipe; has tried to create its process.
Started(t) == pc[t] \in {"wait", "read", "classify", "close"}
Piped(t) == pc[t] \in {"command", "process"} \/ Started(t)

Alone == \A t, u \in Callers : pc[t] # "idle" /\ pc[u] # "idle" => t = u

Refers(h, k, t) == h \in Handles /\ table[h] = [kind |-> k, of |-> t]

\* The globals refer to what the call at hand has opened, and nothing else is
\* open, except what hProcess refers to.
EndsOK ==
  \A t \in Callers : Piped(t) => Refers(hRead, "read", t) /\ Refers(hWrite, "write", t)

OpenOK ==
  \A h \in Handles : table[h].kind \in Owning =>
    \E t \in Callers : \/ Piped(t) /\ h \in {hRead, hWrite}
                       \/ Started(t) /\ h = hProcess

HandlesOK == EndsOK /\ OpenOK

\* No other process writes to the pipe of a call.
Private(t) == \A u \in Callers \ {t} : child[u].to # t

Answered(t) ==
  \/ result[t] = Code(Prefix(cmd[t].out))
  \/ result[t] = 0 /\ "spawn" \in odd

\* Where the output of the command of caller t is.
OutputAt(t) ==
  /\ pc[t] \in {"command", "process"} => pipe[t] = <<>> /\ Private(t) /\ child[t].to # t
  /\ pc[t] = "process" => command = cmd[t]
  /\ pc[t] = "wait" /\ cmd[t].wait =>
       /\ Refers(hProcess, "process", t)
       /\ Private(t) /\ child[t].to = t
       /\ pipe[t] \o child[t].out = cmd[t].out
  /\ pc[t] = "read" =>
       cmd[t].wait /\ Private(t) /\ child[t].out = <<>> /\ pipe[t] = cmd[t].out
  /\ pc[t] = "classify" => buf = Prefix(cmd[t].out)
  /\ pc[t] \in {"close", "exit"} /\ cmd[t].wait => Answered(t)

OutputOK == \A t \in Callers : OutputAt(t)

SerialInv == "overlap" \notin odd => Alone /\ HandlesOK /\ OutputOK

\* Neither a process that could not be created nor another thread.
ProcessOK == \A t \in Callers : Started(t) => Refers(hProcess, "process", t)
ExitOK == \A t \in Callers : pc[t] = "exit" => Object(hWrite).kind # "other"
QuietInv == odd \subseteq {"pipe"} => ~harmed /\ ProcessOK /\ ExitOK

IInv == Typed /\ SerialInv /\ QuietInv

-----------------------------------------------------------------------------
(* Facts about the operators. *)

(***************************************************************************)
(* A set of numbers that is not empty has a lowest one: that is the handle *)
(* value given out next, and the place of the word strstr finds first.     *)
(***************************************************************************)
LEMMA LowestIn ==
  ASSUME NEW S, S \subseteq Nat, S # {}
  PROVE  Lowest(S) \in S
<1> DEFINE R == OpToRel(<, Nat)
<1>1. \A x, y \in Nat : <<x, y>> \in R <=> x < y
  BY DEF OpToRel
<1>2. IsWellFoundedOn(R, Nat)
  BY NatLessThanWellFounded
<1> HIDE DEF R
<1>3. PICK x \in S : \A y \in S : <<y, x>> \notin R
  BY <1>2, WFMin, Zenon
<1>4. ASSUME NEW k \in S PROVE x <= k
  <2>1. x \in Nat /\ k \in Nat /\ <<k, x>> \notin R
    BY <1>3
  <2>2. ~(k < x)
    BY <1>1, <2>1
  <2> QED
    BY <2>1, <2>2
<1> QED
  BY <1>3, <1>4 DEF Lowest

(***************************************************************************)
(* What a handle value newly given out is: one that was closed.            *)
(***************************************************************************)
LEMMA LowestFree ==
  ASSUME NEW S, S \subseteq Free, S # {}
  PROVE  Lowest(S) \in S /\ Lowest(S) \in Handles /\ table[Lowest(S)] = Closed
<1>1. S \subseteq Nat
  BY CommandAssumption DEF Free
<1> QED
  BY <1>1, LowestIn DEF Free

(***************************************************************************)
(* The cascade of strstr answers with one of its codes, whatever the text. *)
(***************************************************************************)
LEMMA CodeType == ASSUME NEW text PROVE Code(text) \in {0, 1, 2, 3, 4, 5, 6, 65535}
<1>1. DOMAIN Looked = 1 .. 7 /\ \A k \in 1 .. 7 : Looked[k].code \in {1, 2, 4, 5, 6, 65535}
  BY DEF Looked
<1>2. CASE Hits(text) = {}
  BY <1>2 DEF Code
<1>3. CASE Hits(text) # {}
  <2>1. Lowest(Hits(text)) \in 1 .. 7
    BY <1>1, <1>3, LowestIn DEF Hits
  <2> QED
    BY <1>1, <1>3, <2>1 DEF Code
<1> QED
  BY <1>2, <1>3

(***************************************************************************)
(* What one ReadFile takes of a text, and what it leaves.                  *)
(***************************************************************************)
LEMMA Taken ==
  ASSUME NEW p \in Seq(Word), NEW n \in Nat, n <= Len(p)
  PROVE  /\ SubSeq(p, 1, n) \in Seq(Word) /\ Len(SubSeq(p, 1, n)) = n
         /\ SubSeq(p, n + 1, Len(p)) \in Seq(Word)
         /\ Len(SubSeq(p, n + 1, Len(p))) <= Len(p)
  OBVIOUS

(***************************************************************************)
(* The process writes a word: what was written and what is yet to come     *)
(* are together the same.                                                  *)
(***************************************************************************)
LEMMA Moved ==
  ASSUME NEW p \in Seq(Word), NEW o \in Seq(Word), o # <<>>
  PROVE  /\ Tail(o) \in Seq(Word) /\ Append(p, Head(o)) \in Seq(Word)
         /\ Len(Append(p, Head(o))) = Len(p) + 1
         /\ Append(p, Head(o)) \o Tail(o) = p \o o
  OBVIOUS
-----------------------------------------------------------------------------
(* The types. *)

(***************************************************************************)
(* Closing handles keeps the table and the pipes in their types.           *)
(***************************************************************************)
LEMMA CloseType ==
  ASSUME TableType, PipeType, NEW hs, CloseHandles(hs)
  PROVE  TableType' /\ PipeType'
<1>1. /\ table' = [h \in Handles |-> IF h \in hs THEN Closed ELSE table[h]]
      /\ pipe' = [t \in Callers |-> IF \E h \in Handles : table'[h].of = t THEN pipe[t] ELSE <<>>]
  BY DEF CloseHandles
<1>2. Closed \in Entry /\ Closed.kind \notin Owning
  BY DEF Closed, Entry, Owning
<1>3. TableType'
  BY <1>1, <1>2 DEF TableType
<1>4. <<>> \in Seq(Word) /\ Len(<<>>) <= Capacity
  BY CommandAssumption
<1>5. PipeType'
  <2> DEFINE open(t) == \E h \in Handles : table'[h].of = t
  <2>1. pipe' = [t \in Callers |-> IF open(t) THEN pipe[t] ELSE <<>>]
    BY <1>1
  <2> HIDE DEF open
  <2> QED
    BY <1>4, <2>1 DEF PipeType
<1> QED
  BY <1>3, <1>5

(***************************************************************************)
(* A word appended to a pipe that has room.                                *)
(***************************************************************************)
LEMMA AppendType ==
  ASSUME PipeType, NEW t \in Callers, NEW w \in Word, Len(pipe[t]) < Capacity,
         pipe' = [pipe EXCEPT ![t] = Append(@, w)]
  PROVE  PipeType'
<1>1. pipe[t] \in Seq(Word) /\ Capacity \in Nat
  BY CommandAssumption DEF PipeType
<1>2. Append(pipe[t], w) \in Seq(Word) /\ Len(Append(pipe[t], w)) <= Capacity
  BY <1>1
<1> QED
  BY <1>2 DEF PipeType

(***************************************************************************)
(* Every step keeps the types, and what they need: a call has its command, *)
(* an open handle its owner.                                               *)
(***************************************************************************)
LEMMA TypedInductive == Typed /\ [Next]_vars => Typed'
<1> SUFFICES ASSUME Typed, [Next]_vars PROVE Typed'
  OBVIOUS
<1> USE DEF Typed
<1>0. /\ \A c \in Commands : c.wait \in BOOLEAN /\ c.out \in Seq(Word)
      /\ Capacity \in Nat \ {0} /\ ReadMax \in Nat \ {0} /\ <<>> \in Seq(Word) /\ Len(<<>>) = 0
  BY CommandAssumption
<1>1. ASSUME NEW t \in Callers, Call(t) PROVE Typed'
  <2>1. GlobalsType' /\ TableType' /\ PipeType' /\ ChildType'
    BY <1>1 DEF Call, globals, kernel, GlobalsType, TableType, PipeType, ChildType
  <2>2. CallerType' /\ HistoryType'
    BY <1>1 DEF Call, Goto, Happens, globals, CallerType, HistoryType, Fault
  <2> QED
    BY <2>1, <2>2
<1>2. ASSUME NEW t \in Callers, PipeMade(t) PROVE Typed'
  <2> DEFINE r == Lowest(Free)  w == Lowest(Free \ {r})
  <2>1. /\ Goto(t, "pipe", "command")
        /\ \E h \in Free : Free \ {h} # {}
        /\ hRead' = r /\ hWrite' = w
        /\ table' = [table EXCEPT ![r] = [kind |-> "read", of |-> t],
                                  ![w] = [kind |-> "write", of |-> t]]
        /\ pipe' = [pipe EXCEPT ![t] = <<>>]
        /\ child' = [u \in Callers |-> IF child[u].to = t THEN [child[u] EXCEPT !.to = NONE]
                                       ELSE child[u]]
        /\ UNCHANGED <<hProcess, command, buf, cmd, result, odd, harmed>>
    BY <1>2 DEF PipeMade
  <2>2. r \in Handles /\ w \in Handles
    BY <2>1, LowestFree
  <2> HIDE DEF r, w
  <2>3. GlobalsType'
    BY <2>1, <2>2 DEF GlobalsType
  <2>4. TableType'
    BY <2>1, <2>2 DEF TableType, Entry, Owning
  <2>5. PipeType'
    BY <1>0, <2>1 DEF PipeType
  <2>6. ChildType'
    BY <2>1 DEF ChildType
  <2>7. CallerType' /\ HistoryType'
    BY <2>1 DEF Goto, CallerType, HistoryType
  <2> QED
    BY <2>3, <2>4, <2>5, <2>6, <2>7
<1>3. ASSUME NEW t \in Callers, PipeFails(t) PROVE Typed'
  <2>1. GlobalsType' /\ TableType' /\ PipeType' /\ ChildType'
    BY <1>3 DEF PipeFails, globals, kernel, GlobalsType, TableType, PipeType, ChildType
  <2>2. CallerType' /\ HistoryType'
    BY <1>3 DEF PipeFails, Goto, Forget, Happens, globals, CallerType, HistoryType, Fault
  <2> QED
    BY <2>1, <2>2
<1>4. ASSUME NEW t \in Callers, CopyCommand(t) PROVE Typed'
  <2>1. cmd[t] \in Commands
    BY <1>4 DEF CopyCommand, Goto, CallerType
  <2>2. GlobalsType' /\ TableType' /\ PipeType' /\ ChildType'
    BY <1>4, <2>1 DEF CopyCommand, kernel, GlobalsType, TableType, PipeType, ChildType
  <2>3. CallerType' /\ HistoryType'
    BY <1>4, <2>1 DEF CopyCommand, Goto, CallerType, HistoryType
  <2> QED
    BY <2>2, <2>3
<1>5. ASSUME NEW t \in Callers, ProcessMade(t) PROVE Typed'
  <2> DEFINE h == Lowest(Free)
  <2>1. /\ Goto(t, "process", "wait")
        /\ Free # {}
        /\ hProcess' = h
        /\ table' = [table EXCEPT ![h] = [kind |-> "process", of |-> t]]
        /\ child' = [child EXCEPT ![t] = [out |-> command.out, to |-> Target]]
        /\ result' = [result EXCEPT ![t] = 1]
        /\ UNCHANGED <<hRead, hWrite, command, buf, pipe, cmd, odd, harmed>>
    BY <1>5 DEF ProcessMade
  <2>2. h \in Handles
    BY <2>1, LowestFree
  <2> HIDE DEF h
  <2>3. GlobalsType' /\ PipeType'
    BY <2>1, <2>2 DEF GlobalsType, PipeType
  <2>4. TableType'
    BY <2>1, <2>2 DEF TableType, Entry, Owning
  <2>5. command.out \in Seq(Word)
    BY <1>0, <2>1 DEF Goto, CallerType
  <2>6. Target \in Callers \cup {NONE}
    BY DEF Target, Object, TableType, Owning, Closed
  <2>7. ChildType'
    BY <2>1, <2>5, <2>6 DEF ChildType
  <2>8. CallerType' /\ HistoryType'
    BY <2>1 DEF Goto, CallerType, HistoryType
  <2> QED
    BY <2>3, <2>4, <2>7, <2>8
<1>6. ASSUME NEW t \in Callers, ProcessFails(t) PROVE Typed'
  <2>1. GlobalsType' /\ TableType' /\ PipeType' /\ ChildType'
    BY <1>6 DEF ProcessFails, globals, kernel, GlobalsType, TableType, PipeType, ChildType
  <2>2. CallerType' /\ HistoryType'
    BY <1>6 DEF ProcessFails, Goto, Happens, globals, CallerType, HistoryType, Fault
  <2> QED
    BY <2>1, <2>2
<1>7. ASSUME NEW t \in Callers, Wait(t) PROVE Typed'
  <2>1. buf' \in {buf, <<>>} /\ UNCHANGED <<hRead, hWrite, hProcess, command, kernel>>
    BY <1>7 DEF Wait
  <2>2. GlobalsType'
    <3>1. buf' \in Seq(Word) /\ Len(buf') <= ReadMax
      <4>1. CASE buf' = buf
        BY <4>1 DEF GlobalsType
      <4>2. CASE buf' = <<>>
        BY <1>0, <4>2
      <4> QED
        BY <2>1, <4>1, <4>2
    <3> QED
      BY <2>1, <3>1 DEF GlobalsType
  <2>3. TableType' /\ PipeType' /\ ChildType'
    BY <2>1 DEF kernel, TableType, PipeType, ChildType
  <2>4. /\ Goto(t, "wait", "read") \/ Goto(t, "wait", "close")
        /\ UNCHANGED <<command, cmd, result, odd, harmed>>
    BY <1>7 DEF Wait
  <2>5. CallerType' /\ HistoryType'
    BY <2>4 DEF Goto, CallerType, HistoryType
  <2> QED
    BY <2>2, <2>3, <2>5
<1>8. ASSUME NEW t \in Callers, ReadOnce(t) PROVE Typed'
  <2> DEFINE u == Object(hRead).of  n == Least(ReadMax, Len(pipe[u]))
  <2>1. /\ Goto(t, "read", "classify")
        /\ Object(hRead).kind = "read"
        /\ buf' = SubSeq(pipe[u], 1, n)
        /\ pipe' = [pipe EXCEPT ![u] = SubSeq(pipe[u], n + 1, Len(pipe[u]))]
        /\ UNCHANGED <<hRead, hWrite, hProcess, command, table, child, cmd, result, odd, harmed>>
    BY <1>8 DEF ReadOnce, Take
  <2>2. u \in Callers
    BY <2>1 DEF Object, Closed, TableType, Owning
  <2>3. pipe[u] \in Seq(Word) /\ Len(pipe[u]) <= Capacity
    BY <2>2 DEF PipeType
  <2>4. n \in Nat /\ n <= Len(pipe[u]) /\ n <= ReadMax
    BY <1>0, <2>3 DEF Least
  <2> HIDE DEF u, n
  <2>5. GlobalsType'
    <3>1. buf' \in Seq(Word) /\ Len(buf') <= ReadMax
      BY <2>1, <2>3, <2>4, Taken
    <3> QED
      BY <2>1, <3>1 DEF GlobalsType
  <2>6. PipeType'
    <3>1. /\ SubSeq(pipe[u], n + 1, Len(pipe[u])) \in Seq(Word)
          /\ Len(SubSeq(pipe[u], n + 1, Len(pipe[u]))) <= Capacity
      BY <1>0, <2>3, <2>4, Taken
    <3> QED
      BY <2>1, <2>2, <3>1 DEF PipeType
  <2>7. TableType' /\ ChildType'
    BY <2>1 DEF TableType, ChildType
  <2>8. CallerType' /\ HistoryType'
    BY <2>1 DEF Goto, CallerType, HistoryType
  <2> QED
    BY <2>5, <2>6, <2>7, <2>8
<1>9. ASSUME NEW t \in Callers, ReadFails(t) PROVE Typed'
  <2>1. GlobalsType' /\ TableType' /\ PipeType' /\ ChildType'
    BY <1>9 DEF ReadFails, globals, kernel, GlobalsType, TableType, PipeType, ChildType
  <2>2. CallerType' /\ HistoryType'
    BY <1>9 DEF ReadFails, Goto, globals, CallerType, HistoryType
  <2> QED
    BY <2>1, <2>2
<1>10. ASSUME NEW t \in Callers, Classify(t) PROVE Typed'
  <2>1. GlobalsType' /\ TableType' /\ PipeType' /\ ChildType'
    BY <1>10 DEF Classify, globals, kernel, GlobalsType, TableType, PipeType, ChildType
  <2>2. Code(buf) \in {0, 1, 2, 3, 4, 5, 6, 65535}
    BY CodeType
  <2>3. CallerType' /\ HistoryType'
    BY <1>10, <2>2 DEF Classify, Goto, globals, CallerType, HistoryType
  <2> QED
    BY <2>1, <2>3
<1>11. ASSUME NEW t \in Callers, CloseAll(t) PROVE Typed'
  <2>1. /\ Goto(t, "close", "exit") /\ CloseHandles({hProcess, hWrite, hRead})
        /\ UNCHANGED <<globals, child, cmd, result, odd>>
    BY <1>11 DEF CloseAll
  <2>2. TableType' /\ PipeType'
    BY <2>1, CloseType
  <2>3. GlobalsType' /\ ChildType'
    BY <2>1 DEF globals, GlobalsType, ChildType
  <2>4. harmed' \in BOOLEAN
    BY <2>1 DEF CloseHandles
  <2>5. CallerType' /\ HistoryType'
    BY <2>1, <2>4 DEF Goto, globals, CallerType, HistoryType
  <2> QED
    BY <2>2, <2>3, <2>5
<1>12. ASSUME NEW t \in Callers, WriteExit(t) PROVE Typed'
  <2>1. PipeType'
    <3>1. CASE UNCHANGED pipe
      BY <3>1 DEF PipeType
    <3>2. CASE ~UNCHANGED pipe
      <4> DEFINE e == Object(hWrite)
      <4>1. /\ e.kind = "write" /\ Len(pipe[e.of]) < Capacity
            /\ pipe' = [pipe EXCEPT ![e.of] = Append(@, "text")]
        BY <1>12, <3>2 DEF WriteExit
      <4>2. e.of \in Callers
        BY <4>1 DEF Object, Closed, TableType, Owning
      <4> HIDE DEF e
      <4> QED
        BY <4>1, <4>2, AppendType DEF Word
    <3> QED
      BY <3>1, <3>2
  <2>2. GlobalsType' /\ TableType' /\ ChildType'
    BY <1>12 DEF WriteExit, globals, GlobalsType, TableType, ChildType
  <2>3. Goto(t, "exit", "idle") /\ Forget(t) /\ harmed' \in BOOLEAN /\ UNCHANGED <<command, odd>>
    BY <1>12 DEF WriteExit, globals
  <2>4. CallerType' /\ HistoryType'
    BY <2>3 DEF Goto, Forget, CallerType, HistoryType
  <2> QED
    BY <2>1, <2>2, <2>4
<1>13. ASSUME NEW t \in Callers, Output(t) PROVE Typed'
  <2>1. /\ child[t].out \in Seq(Word) /\ child[t].out # <<>> /\ child[t].to \in Callers \cup {NONE}
        /\ child' = [child EXCEPT ![t].out = Tail(child[t].out)]
        /\ UNCHANGED <<globals, table, callers, odd, harmed>>
    BY <1>13 DEF Output, ChildType
  <2>2. Head(child[t].out) \in Word /\ Tail(child[t].out) \in Seq(Word)
    BY <2>1
  <2>3. ChildType'
    BY <2>1, <2>2 DEF ChildType
  <2>4. PipeType'
    <3>1. CASE UNCHANGED pipe
      BY <3>1 DEF PipeType
    <3>2. CASE ~UNCHANGED pipe
      <4> DEFINE u == child[t].to  w == Head(child[t].out)
      <4>1. u # NONE /\ Len(pipe[u]) < Capacity /\ pipe' = [pipe EXCEPT ![u] = Append(@, w)]
        BY <1>13, <3>2 DEF Output
      <4>2. u \in Callers /\ w \in Word
        BY <2>1, <2>2, <4>1
      <4> HIDE DEF u, w
      <4> QED
        BY <4>1, <4>2, AppendType
    <3> QED
      BY <3>1, <3>2
  <2>5. GlobalsType' /\ TableType'
    BY <2>1 DEF globals, GlobalsType, TableType
  <2>6. CallerType' /\ HistoryType'
    BY <2>1 DEF globals, callers, CallerType, HistoryType
  <2> QED
    BY <2>3, <2>4, <2>5, <2>6
<1>14. CASE OtherOpen
  <2> DEFINE h == Lowest(Free)
  <2>1. h \in Handles /\ table' = [table EXCEPT ![h] = [kind |-> "other", of |-> NONE]]
    BY <1>14, LowestFree DEF OtherOpen
  <2> HIDE DEF h
  <2>2. TableType'
    BY <2>1 DEF TableType, Entry, Owning
  <2>3. GlobalsType' /\ PipeType' /\ ChildType'
    BY <1>14 DEF OtherOpen, globals, GlobalsType, PipeType, ChildType
  <2>4. CallerType' /\ HistoryType'
    BY <1>14 DEF OtherOpen, Happens, globals, callers, CallerType, HistoryType, Fault
  <2> QED
    BY <2>2, <2>3, <2>4
<1>15. CASE OtherClose
  <2>1. PICK h \in Handles : table' = [table EXCEPT ![h] = Closed]
    BY <1>15 DEF OtherClose
  <2>2. TableType'
    BY <2>1 DEF TableType, Entry, Closed, Owning
  <2>3. GlobalsType' /\ PipeType' /\ ChildType'
    BY <1>15 DEF OtherClose, globals, GlobalsType, PipeType, ChildType
  <2>4. CallerType' /\ HistoryType'
    BY <1>15 DEF OtherClose, globals, callers, CallerType, HistoryType
  <2> QED
    BY <2>2, <2>3, <2>4
<1>16. CASE Restart
  <2>1. GlobalsType'
    BY <1>0, <1>16 DEF Restart, GlobalsType
  <2>2. TableType'
    BY <1>16 DEF Restart, TableType, Entry, Closed, Owning
  <2>3. PipeType' /\ ChildType'
    BY <1>0, <1>16 DEF Restart, PipeType, ChildType
  <2>4. CallerType'
    BY <1>16 DEF Restart, CallerType
  <2>5. HistoryType'
    BY <1>16, Zenon DEF Restart, HistoryType
  <2> QED
    BY <2>1, <2>2, <2>3, <2>4, <2>5
<1>17. CASE UNCHANGED vars
  BY <1>17 DEF vars, globals, kernel, callers, GlobalsType, TableType, PipeType, ChildType,
               CallerType, HistoryType
<1> QED
  BY <1>1, <1>2, <1>3, <1>4, <1>5, <1>6, <1>7, <1>8, <1>9, <1>10, <1>11, <1>12, <1>13,
     <1>14, <1>15, <1>16, <1>17 DEF Next, Run, CreateProcess

(***************************************************************************)
(* At the start.                                                           *)
(***************************************************************************)
LEMMA TypedInit == Init => Typed
<1> SUFFICES ASSUME Init PROVE Typed
  OBVIOUS
<1>0. Capacity \in Nat /\ ReadMax \in Nat /\ <<>> \in Seq(Word) /\ Len(<<>>) = 0
  BY CommandAssumption
<1>1. GlobalsType
  BY <1>0 DEF Init, GlobalsType
<1>2. TableType
  BY DEF Init, TableType, Entry, Closed, Owning
<1>3. PipeType /\ ChildType
  BY <1>0 DEF Init, PipeType, ChildType
<1>4. CallerType
  BY DEF Init, CallerType
<1>5. HistoryType
  BY Zenon DEF Init, HistoryType
<1> QED
  BY <1>1, <1>2, <1>3, <1>4, <1>5 DEF Typed

(***************************************************************************)
(* Handles, pipes, buffers and results keep their types: what is read fits *)
(* the buffer, what is written the pipe, also when calls overlap.          *)
(***************************************************************************)
THEOREM TypeCorrect == Spec => []TypeOK
<1>1. Typed => TypeOK
  BY DEF Typed, TypeOK, GlobalsType, TableType, PipeType, ChildType, CallerType, HistoryType
<1> QED
  BY <1>1, TypedInit, TypedInductive, PTL DEF Spec
-----------------------------------------------------------------------------
(* One call at a time: its handles. *)

(***************************************************************************)
(* A caller on its way is the only one; it moves and the others stay idle. *)
(***************************************************************************)
LEMMA Moves ==
  ASSUME Typed, Alone, NEW t \in Callers, NEW from, NEW to, Goto(t, from, to), from # "idle"
  PROVE  /\ pc[t] = from /\ pc'[t] = to
         /\ \A u \in Callers : u # t => pc[u] = "idle" /\ pc'[u] = "idle"
         /\ Alone'
<1>1. pc[t] = from /\ pc' = [pc EXCEPT ![t] = to]
  BY DEF Goto
<1>2. \A u \in Callers : u # t => pc[u] = "idle" /\ pc'[u] = pc[u]
  BY <1>1 DEF Alone, Typed, CallerType
<1>3. pc'[t] = to
  BY <1>1 DEF Typed, CallerType
<1> QED
  BY <1>1, <1>2, <1>3 DEF Alone

(***************************************************************************)
(* Without an overlap a call begins when no other is going on.             *)
(***************************************************************************)
LEMMA Begins ==
  ASSUME Typed, NEW t \in Callers, Call(t), "overlap" \notin odd'
  PROVE  /\ Idle /\ pc'[t] = "pipe" /\ \A u \in Callers : u # t => pc'[u] = "idle"
         /\ Alone'
<1>1. Idle
  BY DEF Call, Happens
<1>2. pc' = [pc EXCEPT ![t] = "pipe"]
  BY DEF Call, Goto
<1> QED
  BY <1>1, <1>2 DEF Idle, Alone, Typed, CallerType

(***************************************************************************)
(* Alone: without an overlap no step makes a second call begin.            *)
(***************************************************************************)
LEMMA AloneStep ==
  ASSUME Typed, Alone, [Next]_vars, "overlap" \notin odd'
  PROVE  Alone'
<1>1. ASSUME NEW t \in Callers, Call(t) PROVE Alone'
  BY <1>1, Begins
<1>2. ASSUME NEW t \in Callers, Run(t) PROVE Alone'
  <2>1. \E from, to : Goto(t, from, to) /\ from # "idle"
    <3>1. CASE PipeMade(t) BY <3>1 DEF PipeMade
    <3>2. CASE PipeFails(t) BY <3>2 DEF PipeFails
    <3>3. CASE CopyCommand(t) BY <3>3 DEF CopyCommand
    <3>4. CASE ProcessMade(t) BY <3>4 DEF ProcessMade
    <3>5. CASE ProcessFails(t) BY <3>5 DEF ProcessFails
    <3>6. CASE Wait(t) BY <3>6 DEF Wait
    <3>7. CASE ReadOnce(t) BY <3>7 DEF ReadOnce
    <3>8. CASE ReadFails(t) BY <3>8 DEF ReadFails
    <3>9. CASE Classify(t) BY <3>9 DEF Classify
    <3>10. CASE CloseAll(t) BY <3>10 DEF CloseAll
    <3>11. CASE WriteExit(t) BY <3>11 DEF WriteExit
    <3> QED
      BY <1>2, <3>1, <3>2, <3>3, <3>4, <3>5, <3>6, <3>7, <3>8, <3>9, <3>10, <3>11
         DEF Run, CreateProcess
  <2> QED
    BY <2>1, Moves
<1>3. CASE Restart
  BY <1>3 DEF Restart, Alone
<1>4. CASE UNCHANGED pc
  BY <1>4 DEF Alone
<1> QED
  BY <1>1, <1>2, <1>3, <1>4 DEF Next, Output, OtherOpen, OtherClose, vars, callers

(***************************************************************************)
(* Between its steps a call holds exactly the handles the globals refer    *)
(* to; another thread can neither close them nor be given their values.    *)
(***************************************************************************)
LEMMA HandlesStep ==
  ASSUME Typed, Alone, HandlesOK, [Next]_vars, "overlap" \notin odd'
  PROVE  HandlesOK'
<1> USE DEF HandlesOK
<1>0. table \in [Handles -> Entry]
  BY DEF Typed, TableType
<1>1. ASSUME NEW t \in Callers, Call(t) PROVE HandlesOK'
  <2>1. \A u \in Callers : ~Piped(u) /\ ~Piped(u)' /\ ~Started(u)
    BY <1>1, Begins DEF Idle, Piped, Started
  <2>2. UNCHANGED table
    BY <1>1 DEF Call, kernel
  <2> QED
    BY <2>1, <2>2 DEF EndsOK, OpenOK
<1>2. ASSUME NEW t \in Callers, PipeMade(t) PROVE HandlesOK'
  <2> DEFINE r == Lowest(Free)  w == Lowest(Free \ {r})
  <2>1. /\ Goto(t, "pipe", "command")
        /\ \E h \in Free : Free \ {h} # {}
        /\ hRead' = r /\ hWrite' = w
        /\ table' = [table EXCEPT ![r] = [kind |-> "read", of |-> t],
                                  ![w] = [kind |-> "write", of |-> t]]
    BY <1>2 DEF PipeMade
  <2>2. r \in Handles /\ w \in Handles /\ r # w
    BY <2>1, LowestFree
  <2>3. /\ pc[t] = "pipe" /\ pc'[t] = "command"
        /\ \A u \in Callers : u # t => pc[u] = "idle" /\ pc'[u] = "idle"
    BY <2>1, Moves
  <2>4. \A h \in Handles : table[h].kind \notin Owning
    BY <2>3 DEF OpenOK, Piped, Started
  <2> HIDE DEF r, w
  <2>5. table'[r] = [kind |-> "read", of |-> t] /\ table'[w] = [kind |-> "write", of |-> t]
    BY <1>0, <2>1, <2>2
  <2>6. \A h \in Handles : h # r /\ h # w => table'[h] = table[h]
    BY <1>0, <2>1, <2>2
  <2>7. EndsOK'
    BY <2>1, <2>2, <2>3, <2>5 DEF EndsOK, Piped, Started, Refers
  <2>8. OpenOK'
    BY <2>1, <2>3, <2>4, <2>6 DEF OpenOK, Piped
  <2> QED
    BY <2>7, <2>8
<1>3. ASSUME NEW t \in Callers, PipeFails(t) PROVE HandlesOK'
  <2>1. /\ pc[t] = "pipe" /\ pc'[t] = "idle"
        /\ \A u \in Callers : u # t => pc[u] = "idle" /\ pc'[u] = "idle"
    BY <1>3, Moves DEF PipeFails
  <2>2. \A u \in Callers : ~Piped(u) /\ ~Piped(u)' /\ ~Started(u)
    BY <2>1 DEF Piped, Started
  <2>3. UNCHANGED table
    BY <1>3 DEF PipeFails, kernel
  <2> QED
    BY <2>2, <2>3 DEF EndsOK, OpenOK
<1>4. ASSUME NEW t \in Callers, NEW from, NEW to, Goto(t, from, to), from # "idle",
             Piped(t), Piped(t)', Started(t) => Started(t)',
             UNCHANGED <<hRead, hWrite, hProcess, table>>
      PROVE  HandlesOK'
  <2>1. \A u \in Callers : u # t => pc[u] = "idle" /\ pc'[u] = "idle"
    BY <1>4, Moves
  <2>2. EndsOK'
    BY <1>4, <2>1 DEF EndsOK, Piped, Started, Refers
  <2>3. OpenOK'
    BY <1>4, <2>1 DEF OpenOK, Piped, Started
  <2> QED
    BY <2>2, <2>3
<1>5. ASSUME NEW t \in Callers,
             CopyCommand(t) \/ ProcessFails(t) \/ Wait(t) \/ ReadOnce(t) \/ ReadFails(t)
             \/ Classify(t)
      PROVE  HandlesOK'
  <2>1. UNCHANGED <<hRead, hWrite, hProcess, table>>
    BY <1>5 DEF CopyCommand, ProcessFails, Wait, ReadOnce, ReadFails, Classify, globals, kernel
  <2>2. \E from, to :
          /\ Goto(t, from, to)
          /\ \/ from = "command" /\ to = "process"
             \/ from = "process" /\ to \in {"close", "wait"}
             \/ from = "wait" /\ to \in {"read", "close"}
             \/ from = "read" /\ to \in {"classify", "close"}
             \/ from = "classify" /\ to = "close"
    BY <1>5 DEF CopyCommand, ProcessFails, Wait, ReadOnce, ReadFails, Classify
  <2>3. PICK from, to :
          /\ Goto(t, from, to)
          /\ from \in {"command", "process", "wait", "read", "classify"}
          /\ to \in {"process", "wait", "read", "classify", "close"}
          /\ from \in {"wait", "read", "classify"} => to \in {"read", "classify", "close"}
    BY <2>2
  <2>4. pc[t] = from /\ pc'[t] = to
    BY <2>3, Moves
  <2>5. Piped(t) /\ Piped(t)' /\ (Started(t) => Started(t)')
    BY <2>3, <2>4 DEF Piped, Started
  <2> QED
    BY <1>4, <2>1, <2>3, <2>5
<1>6. ASSUME NEW t \in Callers, ProcessMade(t) PROVE HandlesOK'
  <2> DEFINE k == Lowest(Free)
  <2>1. /\ Goto(t, "process", "wait") /\ Free # {}
        /\ hProcess' = k /\ UNCHANGED <<hRead, hWrite>>
        /\ table' = [table EXCEPT ![k] = [kind |-> "process", of |-> t]]
    BY <1>6 DEF ProcessMade
  <2>2. k \in Handles /\ table[k] = Closed
    BY <2>1, LowestFree
  <2>3. /\ pc[t] = "process" /\ pc'[t] = "wait"
        /\ \A u \in Callers : u # t => pc[u] = "idle" /\ pc'[u] = "idle"
    BY <2>1, Moves
  <2> HIDE DEF k
  <2>4. Refers(hRead, "read", t) /\ Refers(hWrite, "write", t)
    BY <2>3 DEF EndsOK, Piped
  <2>5. hRead # k /\ hWrite # k
    BY <2>2, <2>4 DEF Refers, Closed
  <2>6. Refers(hRead, "read", t)' /\ Refers(hWrite, "write", t)'
    BY <1>0, <2>1, <2>2, <2>4, <2>5 DEF Refers
  <2>7. EndsOK'
    BY <2>3, <2>6 DEF EndsOK, Piped, Started
  <2>8. OpenOK'
    BY <1>0, <2>1, <2>2, <2>3 DEF OpenOK, Piped, Started
  <2> QED
    BY <2>7, <2>8
<1>7. ASSUME NEW t \in Callers, CloseAll(t) PROVE HandlesOK'
  <2>1. /\ Goto(t, "close", "exit")
        /\ table' = [h \in Handles |-> IF h \in {hProcess, hWrite, hRead} THEN Closed
                                       ELSE table[h]]
    BY <1>7 DEF CloseAll, CloseHandles
  <2>2. /\ pc[t] = "close" /\ pc'[t] = "exit"
        /\ \A u \in Callers : u # t => pc[u] = "idle" /\ pc'[u] = "idle"
    BY <2>1, Moves
  <2>3. \A u \in Callers : ~Piped(u)'
    BY <2>2 DEF Piped, Started
  <2>4. ASSUME NEW h \in Handles PROVE table'[h].kind \notin Owning
    <3>1. CASE h \in {hProcess, hWrite, hRead}
      BY <2>1, <3>1 DEF Closed, Owning
    <3>2. CASE h \notin {hProcess, hWrite, hRead}
      BY <2>1, <3>2 DEF OpenOK
    <3> QED
      BY <3>1, <3>2
  <2> QED
    BY <2>3, <2>4 DEF EndsOK, OpenOK
<1>8. ASSUME NEW t \in Callers, WriteExit(t) PROVE HandlesOK'
  <2>1. /\ pc[t] = "exit" /\ pc'[t] = "idle"
        /\ \A u \in Callers : u # t => pc[u] = "idle" /\ pc'[u] = "idle"
    BY <1>8, Moves DEF WriteExit
  <2>2. \A u \in Callers : ~Piped(u) /\ ~Piped(u)' /\ ~Started(u)
    BY <2>1 DEF Piped, Started
  <2>3. UNCHANGED table
    BY <1>8 DEF WriteExit
  <2> QED
    BY <2>2, <2>3 DEF EndsOK, OpenOK
<1>9. CASE OtherOpen
  <2> DEFINE k == Lowest(Free)
  <2>1. /\ k \in Handles /\ table[k] = Closed
        /\ table' = [table EXCEPT ![k] = [kind |-> "other", of |-> NONE]]
        /\ UNCHANGED <<hRead, hWrite, hProcess, pc>>
    BY <1>9, LowestFree DEF OtherOpen, globals, callers
  <2> HIDE DEF k
  <2>2. EndsOK'
    BY <1>0, <2>1 DEF EndsOK, Piped, Started, Refers, Closed
  <2>3. OpenOK'
    BY <1>0, <2>1 DEF OpenOK, Piped, Started, Owning
  <2> QED
    BY <2>2, <2>3
<1>10. CASE OtherClose
  <2>1. PICK k \in Handles : table[k].kind = "other" /\ table' = [table EXCEPT ![k] = Closed]
    BY <1>10 DEF OtherClose
  <2>2. UNCHANGED <<hRead, hWrite, hProcess, pc>>
    BY <1>10 DEF OtherClose, globals, callers
  <2>3. EndsOK'
    BY <1>0, <2>1, <2>2 DEF EndsOK, Piped, Started, Refers
  <2>4. OpenOK'
    BY <1>0, <2>1, <2>2 DEF OpenOK, Piped, Started, Owning, Closed
  <2> QED
    BY <2>3, <2>4
<1>11. CASE Restart
  BY <1>11 DEF Restart, EndsOK, OpenOK, Piped, Started, Closed, Owning
<1>12. CASE UNCHANGED <<hRead, hWrite, hProcess, table, pc>>
  <2>1. EndsOK'
    BY <1>12 DEF EndsOK, Piped, Started, Refers
  <2>2. OpenOK'
    BY <1>12 DEF OpenOK, Piped, Started
  <2> QED
    BY <2>1, <2>2
<1>13. ASSUME NEW t \in Callers, Output(t) PROVE HandlesOK'
  BY <1>12, <1>13 DEF Output, globals, callers
<1>14. CASE UNCHANGED vars
  BY <1>12, <1>14 DEF vars, globals, kernel, callers
<1> QED
  BY <1>1, <1>2, <1>3, <1>5, <1>6, <1>7, <1>8, <1>9, <1>10, <1>11, <1>13, <1>14
     DEF Next, Run, CreateProcess
-----------------------------------------------------------------------------
(* One call at a time: its answer. *)

(***************************************************************************)
(* A handle that refers to the caller's own pipe is the pipe it reads.     *)
(***************************************************************************)
LEMMA OwnPipe ==
  ASSUME Typed, HandlesOK, NEW t \in Callers, Piped(t)
  PROVE  /\ Object(hRead) = [kind |-> "read", of |-> t]
         /\ Target = t
         /\ ~Broken(Object(hRead))
<1>1. Refers(hRead, "read", t) /\ Refers(hWrite, "write", t)
  BY DEF HandlesOK, EndsOK
<1>2. Object(hRead) = [kind |-> "read", of |-> t] /\ Target = t
  BY <1>1 DEF Refers, Object, Target
<1>3. ~Broken(Object(hRead))
  BY <1>1, <1>2 DEF Refers, Broken
<1> QED
  BY <1>2, <1>3

(***************************************************************************)
(* A step that leaves a caller's pipe, buffer and result alone, and lets   *)
(* no process turn to it, leaves its output where it was.                  *)
(***************************************************************************)
LEMMA OutputKept ==
  ASSUME NEW t \in Callers, OutputAt(t),
         pc'[t] = pc[t] \/ pc'[t] \in {"idle", "pipe"},
         UNCHANGED <<command, buf>>,
         Refers(hProcess, "process", t) => Refers(hProcess, "process", t)',
         cmd'[t] = cmd[t], result'[t] = result[t], odd \subseteq odd',
         pipe'[t] = pipe[t],
         \A u \in Callers : child'[u].to = child[u].to,
         child'[t].out = child[t].out
  PROVE  OutputAt(t)'
<1>1. CASE pc'[t] \in {"idle", "pipe"}
  BY <1>1 DEF OutputAt
<1>2. CASE pc'[t] = pc[t]
  <2>1. Private(t) => Private(t)'
    BY DEF Private
  <2>2. Answered(t) => Answered(t)'
    BY DEF Answered
  <2> QED
    BY <1>2, <2>1, <2>2 DEF OutputAt
<1> QED
  BY <1>1, <1>2
(***************************************************************************)
(* The only caller on its way decides what becomes of OutputOK.            *)
(***************************************************************************)
LEMMA OutputOfOne ==
  ASSUME NEW t \in Callers, \A u \in Callers : u # t => pc'[u] \in {"idle", "pipe"},
         pc'[t] \notin {"idle", "pipe"} => OutputAt(t)'
  PROVE  OutputOK'
<1>1. \A u \in Callers : pc'[u] \in {"idle", "pipe"} => OutputAt(u)'
  BY DEF OutputAt
<1> QED
  BY <1>1 DEF OutputOK

(***************************************************************************)
(* A process writes: that of the call at hand to its own pipe, any other   *)
(* not to that pipe.                                                       *)
(***************************************************************************)
LEMMA OutputWritten ==
  ASSUME Typed, OutputOK, NEW w \in Callers, Output(w), NEW t \in Callers
  PROVE  OutputAt(t)'
<1> DEFINE c == child[w]
<1>1. /\ c.out \in Seq(Word) /\ c.out # <<>> /\ pipe \in [Callers -> Seq(Word)]
      /\ child \in [Callers -> [out : Seq(Word), to : Callers \cup {NONE}]]
  BY DEF Output, Typed, ChildType, PipeType
<1>2. /\ child' = [child EXCEPT ![w].out = Tail(c.out)]
      /\ UNCHANGED <<globals, table, callers, odd, harmed>>
  BY DEF Output
<1>3. \/ UNCHANGED pipe /\ c.to = NONE
      \/ c.to \in Callers /\ pipe' = [pipe EXCEPT ![c.to] = Append(@, Head(c.out))]
  BY <1>1 DEF Output
<1>4. OutputAt(t)
  BY DEF OutputOK
<1>5. /\ \A u \in Callers : child'[u].to = child[u].to
      /\ \A u \in Callers : u # w => child'[u].out = child[u].out
      /\ child'[w].out = Tail(c.out)
  BY <1>1, <1>2
<1>6. NONE # t
  BY CommandAssumption
<1>7. UNCHANGED <<command, buf, hProcess, table, cmd, pc, result, odd>>
  BY <1>2 DEF globals, callers
<1> HIDE DEF c
<1>8. CASE c.to = t
  <2>1. pipe'[t] = Append(pipe[t], Head(c.out))
    BY <1>1, <1>3, <1>6, <1>8
  <2>2. CASE pc[t] \in {"command", "process", "read"}
    <3>1. Private(t) /\ (child[t].to # t \/ child[t].out = <<>>)
      BY <1>4, <2>2 DEF OutputAt
    <3> QED
      BY <1>1, <1>8, <3>1 DEF Private, c
  <2>3. CASE pc[t] = "wait" /\ cmd[t].wait
    <3>1. /\ Refers(hProcess, "process", t) /\ Private(t) /\ child[t].to = t
          /\ pipe[t] \o child[t].out = cmd[t].out
      BY <1>4, <2>3 DEF OutputAt
    <3>2. w = t
      BY <1>8, <3>1 DEF Private, c
    <3>3. pipe'[t] \o child'[t].out = cmd[t].out
      <4> DEFINE p == pipe[t]  o == child[t].out
      <4>1. p \in Seq(Word) /\ o \in Seq(Word) /\ o # <<>>
        BY <1>1, <3>2 DEF c
      <4>2. pipe'[t] = Append(p, Head(o)) /\ child'[t].out = Tail(o)
        BY <1>5, <2>1, <3>2 DEF c
      <4>3. p \o o = cmd[t].out
        BY <3>1
      <4> HIDE DEF p, o
      <4> QED
        BY <4>1, <4>2, <4>3, Moved
    <3>4. Refers(hProcess, "process", t)' /\ Private(t)' /\ child'[t].to = t
      BY <1>5, <1>7, <3>1 DEF Refers, Private
    <3> QED
      BY <1>7, <2>3, <3>3, <3>4 DEF OutputAt
  <2>4. CASE pc[t] \notin {"command", "process", "read"} /\ ~(pc[t] = "wait" /\ cmd[t].wait)
    <3>1. Answered(t) => Answered(t)'
      BY <1>7 DEF Answered
    <3> QED
      BY <1>4, <1>7, <2>4, <3>1 DEF OutputAt
  <2> QED
    BY <2>2, <2>3, <2>4
<1>9. CASE c.to # t
  <2>1. pipe'[t] = pipe[t]
    BY <1>1, <1>3, <1>9
  <2>2. Refers(hProcess, "process", t) => Refers(hProcess, "process", t)'
    BY <1>7 DEF Refers
  <2>3. CASE w # t
    BY <1>4, <1>5, <1>7, <2>1, <2>2, <2>3, OutputKept
  <2>4. CASE w = t
    <3>1. ~(pc[t] = "wait" /\ cmd[t].wait) /\ pc[t] # "read"
      BY <1>1, <1>4, <1>9, <2>4 DEF OutputAt, c
    <3>2. Answered(t) => Answered(t)'
      BY <1>7 DEF Answered
    <3>3. Private(t) => Private(t)'
      BY <1>5 DEF Private
    <3> QED
      BY <1>4, <1>5, <1>7, <2>1, <3>1, <3>2, <3>3 DEF OutputAt
  <2> QED
    BY <2>3, <2>4
<1> QED
  BY <1>8, <1>9

(***************************************************************************)
(* From the new pipe to the result each step hands the output of the       *)
(* caller's own command on, and nothing else.                              *)
(***************************************************************************)
LEMMA OutputStep ==
  ASSUME Typed, Alone, HandlesOK, OutputOK, [Next]_vars, "overlap" \notin odd'
  PROVE  OutputOK'
<1>0. /\ pipe \in [Callers -> Seq(Word)] /\ table \in [Handles -> Entry]
      /\ child \in [Callers -> [out : Seq(Word), to : Callers \cup {NONE}]]
      /\ result \in [Callers -> {0, 1, 2, 3, 4, 5, 6, 65535}]
      /\ \A c \in Commands : c.out \in Seq(Word)
      /\ NONE \notin Callers
      /\ ReadMax \in Nat
  BY CommandAssumption DEF Typed, TableType, PipeType, ChildType, CallerType
<1>1. ASSUME NEW t \in Callers, Call(t) PROVE OutputOK'
  BY <1>1, Begins, OutputOfOne
<1>2. ASSUME NEW t \in Callers, PipeMade(t) PROVE OutputOK'
  <2>1. /\ Goto(t, "pipe", "command")
        /\ pipe' = [pipe EXCEPT ![t] = <<>>]
        /\ child' = [u \in Callers |-> IF child[u].to = t THEN [child[u] EXCEPT !.to = NONE]
                                       ELSE child[u]]
    BY <1>2 DEF PipeMade
  <2>2. pc'[t] = "command" /\ \A u \in Callers : u # t => pc'[u] = "idle"
    BY <2>1, Moves
  <2>3. pipe'[t] = <<>>
    BY <1>0, <2>1
  <2>4. \A u \in Callers : child'[u].to # t
    BY <1>0, <2>1
  <2>5. OutputAt(t)'
    BY <2>2, <2>3, <2>4 DEF OutputAt, Private
  <2> QED
    BY <2>2, <2>5, OutputOfOne
<1>3. ASSUME NEW t \in Callers, PipeFails(t) PROVE OutputOK'
  BY <1>3, Moves, OutputOfOne DEF PipeFails
<1>4. ASSUME NEW t \in Callers, CopyCommand(t) PROVE OutputOK'
  <2>1. Goto(t, "command", "process") /\ command' = cmd[t] /\ UNCHANGED <<pipe, child, cmd>>
    BY <1>4 DEF CopyCommand, kernel
  <2>2. /\ pc[t] = "command" /\ pc'[t] = "process"
        /\ \A u \in Callers : u # t => pc'[u] = "idle"
    BY <2>1, Moves
  <2>3. pipe[t] = <<>> /\ Private(t) /\ child[t].to # t
    BY <2>2 DEF OutputOK, OutputAt
  <2>4. OutputAt(t)'
    BY <2>1, <2>2, <2>3 DEF OutputAt, Private
  <2> QED
    BY <2>2, <2>4, OutputOfOne
<1>5. ASSUME NEW t \in Callers, ProcessMade(t) PROVE OutputOK'
  <2> DEFINE k == Lowest(Free)
  <2>1. /\ Goto(t, "process", "wait") /\ Free # {}
        /\ hProcess' = k
        /\ table' = [table EXCEPT ![k] = [kind |-> "process", of |-> t]]
        /\ child' = [child EXCEPT ![t] = [out |-> command.out, to |-> Target]]
        /\ UNCHANGED <<pipe, cmd>>
    BY <1>5 DEF ProcessMade
  <2>2. /\ pc[t] = "process" /\ pc'[t] = "wait"
        /\ \A u \in Callers : u # t => pc'[u] = "idle"
    BY <2>1, Moves
  <2>3. pipe[t] = <<>> /\ Private(t) /\ command = cmd[t]
    BY <2>2 DEF OutputOK, OutputAt
  <2>4. Target = t
    BY <2>2, OwnPipe DEF Piped
  <2>5. k \in Handles
    BY <2>1, LowestFree
  <2> HIDE DEF k
  <2>6. Refers(hProcess, "process", t)'
    BY <1>0, <2>1, <2>5 DEF Refers
  <2>7. Private(t)' /\ child'[t].to = t /\ child'[t].out = cmd[t].out
    BY <1>0, <2>1, <2>3, <2>4 DEF Private
  <2>8. cmd[t].out \in Seq(Word)
    BY <1>0, <2>2 DEF Typed, CallerType
  <2>9. pipe'[t] \o child'[t].out = cmd'[t].out
    BY <2>1, <2>3, <2>7, <2>8, ConcatEmptySeq
  <2>10. OutputAt(t)'
    BY <2>2, <2>6, <2>7, <2>9 DEF OutputAt
  <2> QED
    BY <2>2, <2>10, OutputOfOne
<1>6. ASSUME NEW t \in Callers, ProcessFails(t) PROVE OutputOK'
  <2>1. /\ Goto(t, "process", IF cmd[t].wait THEN "close" ELSE "wait")
        /\ result' = [result EXCEPT ![t] = 0] /\ "spawn" \in odd' /\ UNCHANGED cmd
    BY <1>6 DEF ProcessFails, Happens
  <2>2. /\ pc'[t] = IF cmd[t].wait THEN "close" ELSE "wait"
        /\ \A u \in Callers : u # t => pc'[u] = "idle"
    BY <2>1, Moves
  <2>3. result'[t] = 0
    BY <1>0, <2>1
  <2>4. OutputAt(t)'
    BY <2>1, <2>2, <2>3 DEF OutputAt, Answered
  <2> QED
    BY <2>2, <2>4, OutputOfOne
<1>7. ASSUME NEW t \in Callers, Wait(t) PROVE OutputOK'
  <2>1. UNCHANGED <<pipe, child, cmd>>
    BY <1>7 DEF Wait, kernel
  <2>2. CASE Goto(t, "wait", "read") /\ cmd[t].wait
    <3>1. /\ pc[t] = "wait" /\ pc'[t] = "read"
          /\ \A u \in Callers : u # t => pc'[u] = "idle"
      BY <2>2, Moves
    <3>2. Object(hProcess).kind = "process" => child[Object(hProcess).of].out = <<>>
      BY <1>7, <2>2 DEF Wait
    <3>3. /\ Refers(hProcess, "process", t) /\ Private(t)
          /\ pipe[t] \o child[t].out = cmd[t].out
      BY <2>2, <3>1 DEF OutputOK, OutputAt
    <3>4. child[t].out = <<>>
      BY <3>2, <3>3 DEF Refers, Object
    <3>5. pipe[t] = cmd[t].out
      BY <1>0, <3>3, <3>4, ConcatEmptySeq
    <3>6. OutputAt(t)'
      BY <2>1, <2>2, <3>1, <3>3, <3>4, <3>5 DEF OutputAt, Private
    <3> QED
      BY <3>1, <3>6, OutputOfOne
  <2>3. CASE Goto(t, "wait", "close") /\ ~cmd[t].wait
    <3>1. pc'[t] = "close" /\ \A u \in Callers : u # t => pc'[u] = "idle"
      BY <2>3, Moves
    <3>2. OutputAt(t)'
      BY <2>1, <2>3, <3>1 DEF OutputAt
    <3> QED
      BY <3>1, <3>2, OutputOfOne
  <2> QED
    BY <1>7, <2>2, <2>3 DEF Wait
<1>8. ASSUME NEW t \in Callers, ReadOnce(t) PROVE OutputOK'
  <2>1. Goto(t, "read", "classify") /\ UNCHANGED cmd
    BY <1>8 DEF ReadOnce
  <2>2. /\ pc[t] = "read" /\ pc'[t] = "classify"
        /\ \A u \in Callers : u # t => pc'[u] = "idle"
    BY <2>1, Moves
  <2>3. Object(hRead).of = t
    BY <2>2, OwnPipe DEF Piped, Started
  <2>4. buf' = SubSeq(pipe[t], 1, Least(ReadMax, Len(pipe[t])))
    BY <1>8, <2>3 DEF ReadOnce, Take
  <2>5. pipe[t] = cmd[t].out
    BY <2>2 DEF OutputOK, OutputAt
  <2>6. OutputAt(t)'
    BY <2>1, <2>2, <2>4, <2>5 DEF OutputAt, Prefix
  <2> QED
    BY <2>2, <2>6, OutputOfOne
<1>9. ASSUME NEW t \in Callers, ReadFails(t) PROVE OutputOK'
  <2>1. pc[t] = "read" /\ Broken(Object(hRead))
    BY <1>9 DEF ReadFails, Goto
  <2> QED
    BY <2>1, OwnPipe DEF Piped, Started
<1>10. ASSUME NEW t \in Callers, Classify(t) PROVE OutputOK'
  <2>1. Goto(t, "classify", "close") /\ result' = [result EXCEPT ![t] = Code(buf)] /\ UNCHANGED cmd
    BY <1>10 DEF Classify
  <2>2. /\ pc[t] = "classify" /\ pc'[t] = "close"
        /\ \A u \in Callers : u # t => pc'[u] = "idle"
    BY <2>1, Moves
  <2>3. buf = Prefix(cmd[t].out)
    BY <2>2 DEF OutputOK, OutputAt
  <2>4. result'[t] = Code(Prefix(cmd'[t].out))
    BY <1>0, <2>1, <2>3
  <2>5. OutputAt(t)'
    BY <2>2, <2>4 DEF OutputAt, Answered
  <2> QED
    BY <2>2, <2>5, OutputOfOne
<1>11. ASSUME NEW t \in Callers, CloseAll(t) PROVE OutputOK'
  <2>1. Goto(t, "close", "exit") /\ UNCHANGED <<cmd, result, odd>>
    BY <1>11 DEF CloseAll
  <2>2. /\ pc[t] = "close" /\ pc'[t] = "exit"
        /\ \A u \in Callers : u # t => pc'[u] = "idle"
    BY <2>1, Moves
  <2>3. cmd[t].wait => Answered(t)
    BY <2>2 DEF OutputOK, OutputAt
  <2>4. OutputAt(t)'
    BY <2>1, <2>2, <2>3 DEF OutputAt, Answered
  <2> QED
    BY <2>2, <2>4, OutputOfOne
<1>12. ASSUME NEW t \in Callers, WriteExit(t) PROVE OutputOK'
  BY <1>12, Moves, OutputOfOne DEF WriteExit
<1>13. ASSUME NEW t \in Callers, Output(t) PROVE OutputOK'
  BY <1>13, OutputWritten DEF OutputOK
<1>14. ASSUME UNCHANGED <<globals, pipe, child, callers>>, odd \subseteq odd',
              \A t \in Callers : Refers(hProcess, "process", t) => Refers(hProcess, "process", t)'
       PROVE  OutputOK'
  BY <1>14, OutputKept DEF OutputOK, globals, callers
<1>15. CASE OtherOpen
  <2> DEFINE k == Lowest(Free)
  <2>1. /\ k \in Handles /\ table[k] = Closed
        /\ table' = [table EXCEPT ![k] = [kind |-> "other", of |-> NONE]]
    BY <1>15, LowestFree DEF OtherOpen
  <2>2. UNCHANGED <<globals, pipe, child, callers>> /\ odd \subseteq odd'
    BY <1>15 DEF OtherOpen, Happens
  <2> HIDE DEF k
  <2>3. \A t \in Callers : Refers(hProcess, "process", t) => Refers(hProcess, "process", t)'
    BY <1>0, <2>1, <2>2 DEF Refers, Closed, globals
  <2> QED
    BY <1>14, <2>2, <2>3
<1>16. CASE OtherClose
  <2>1. PICK k \in Handles : table[k].kind = "other" /\ table' = [table EXCEPT ![k] = Closed]
    BY <1>16 DEF OtherClose
  <2>2. UNCHANGED <<globals, pipe, child, callers, odd>>
    BY <1>16 DEF OtherClose
  <2>3. \A t \in Callers : Refers(hProcess, "process", t) => Refers(hProcess, "process", t)'
    BY <1>0, <2>1, <2>2 DEF Refers, globals
  <2> QED
    BY <1>14, <2>2, <2>3
<1>17. CASE Restart
  BY <1>17 DEF Restart, OutputOK, OutputAt
<1>18. CASE UNCHANGED vars
  <2>1. \A t \in Callers : Refers(hProcess, "process", t) => Refers(hProcess, "process", t)'
    BY <1>18 DEF vars, globals, kernel, Refers
  <2> QED
    BY <1>14, <1>18, <2>1 DEF vars, kernel
<1> QED
  BY <1>1, <1>2, <1>3, <1>4, <1>5, <1>6, <1>7, <1>8, <1>9, <1>10, <1>11, <1>12, <1>13,
     <1>15, <1>16, <1>17, <1>18 DEF Next, Run, CreateProcess
(***************************************************************************)
(* The faults that have happened are remembered until the next start.      *)
(***************************************************************************)
LEMMA OddGrows == [Next]_vars => Restart \/ odd \subseteq odd'
<1> SUFFICES ASSUME [Next]_vars, ~Restart PROVE odd \subseteq odd'
  OBVIOUS
<1>1. ASSUME NEW t \in Callers, Run(t) PROVE odd \subseteq odd'
  BY <1>1 DEF Run, PipeMade, PipeFails, CopyCommand, CreateProcess, ProcessMade, ProcessFails,
              Wait, ReadOnce, ReadFails, Classify, CloseAll, WriteExit, Happens
<1>2. ASSUME NEW t \in Callers, Call(t) \/ Output(t) PROVE odd \subseteq odd'
  BY <1>2 DEF Call, Output, Happens
<1>3. CASE OtherOpen \/ OtherClose \/ UNCHANGED vars
  BY <1>3 DEF OtherOpen, OtherClose, Happens, vars
<1> QED
  BY <1>1, <1>2, <1>3 DEF Next

(***************************************************************************)
(* SerialInv is inductive.                                                 *)
(***************************************************************************)
LEMMA SerialStep == Typed /\ SerialInv /\ [Next]_vars => SerialInv'
<1> SUFFICES ASSUME Typed, SerialInv, [Next]_vars, "overlap" \notin odd'
             PROVE  Alone' /\ HandlesOK' /\ OutputOK'
  BY DEF SerialInv
<1>1. CASE Restart
  <2>1. Alone'
    BY <1>1 DEF Restart, Alone
  <2>2. HandlesOK'
    BY <1>1 DEF Restart, HandlesOK, EndsOK, OpenOK, Piped, Started, Closed, Owning
  <2>3. OutputOK'
    BY <1>1 DEF Restart, OutputOK, OutputAt
  <2> QED
    BY <2>1, <2>2, <2>3
<1>2. CASE ~Restart
  <2>1. Alone /\ HandlesOK /\ OutputOK
    BY <1>2, OddGrows DEF SerialInv
  <2> QED
    BY <2>1, AloneStep, HandlesStep, OutputStep
<1> QED
  BY <1>1, <1>2

-----------------------------------------------------------------------------
(* Handles of other code. *)

(***************************************************************************)
(* While every process could be created and only this thread opens         *)
(* handles, what a call closes is its own, and what it writes to after     *)
(* closing it refers to nothing.                                           *)
(***************************************************************************)
LEMMA QuietStep == Typed /\ SerialInv /\ QuietInv /\ [Next]_vars => QuietInv'
<1> SUFFICES ASSUME Typed, SerialInv, QuietInv, [Next]_vars, odd' \subseteq {"pipe"}
             PROVE  ~harmed' /\ ProcessOK' /\ ExitOK'
  BY DEF QuietInv
<1>0. table \in [Handles -> Entry]
  BY DEF Typed, TableType
<1>1. CASE Restart
  BY <1>1 DEF Restart, ProcessOK, ExitOK, Started
<1> SUFFICES ASSUME ~Restart PROVE ~harmed' /\ ProcessOK' /\ ExitOK'
  BY <1>1
<1>2. /\ odd \subseteq {"pipe"} /\ "overlap" \notin odd'
      /\ ~harmed /\ ProcessOK /\ ExitOK
      /\ Alone /\ HandlesOK
  BY OddGrows DEF QuietInv, SerialInv
<1>3. ASSUME NEW t \in Callers, \A u \in Callers : u # t => pc'[u] = "idle",
             Started(t)' => Refers(hProcess, "process", t)',
             pc'[t] = "exit" => Object(hWrite)'.kind # "other"
      PROVE  ProcessOK' /\ ExitOK'
  BY <1>3 DEF ProcessOK, ExitOK, Started
<1>4. ASSUME NEW t \in Callers, Call(t) PROVE ~harmed' /\ ProcessOK' /\ ExitOK'
  <2>1. pc'[t] = "pipe" /\ \A u \in Callers : u # t => pc'[u] = "idle"
    BY <1>2, <1>4, Begins
  <2> QED
    BY <1>2, <1>3, <1>4, <2>1 DEF Call, Started
<1>5. ASSUME NEW t \in Callers, PipeMade(t) \/ PipeFails(t) \/ CopyCommand(t)
      PROVE  ~harmed' /\ ProcessOK' /\ ExitOK'
  <2>1. \E from, to : /\ Goto(t, from, to) /\ from # "idle"
                      /\ to \in {"command", "idle", "process"}
    BY <1>5 DEF PipeMade, PipeFails, CopyCommand
  <2>2. /\ pc'[t] \in {"command", "idle", "process"}
        /\ \A u \in Callers : u # t => pc'[u] = "idle"
    BY <1>2, <2>1, Moves
  <2>3. UNCHANGED harmed
    BY <1>5 DEF PipeMade, PipeFails, CopyCommand
  <2> QED
    BY <1>2, <1>3, <2>2, <2>3 DEF Started
<1>6. ASSUME NEW t \in Callers, ProcessMade(t) PROVE ~harmed' /\ ProcessOK' /\ ExitOK'
  <2> DEFINE k == Lowest(Free)
  <2>1. /\ Goto(t, "process", "wait") /\ Free # {}
        /\ hProcess' = k
        /\ table' = [table EXCEPT ![k] = [kind |-> "process", of |-> t]]
        /\ UNCHANGED harmed
    BY <1>6 DEF ProcessMade
  <2>2. k \in Handles
    BY <2>1, LowestFree
  <2> HIDE DEF k
  <2>3. Refers(hProcess, "process", t)'
    BY <1>0, <2>1, <2>2 DEF Refers
  <2>4. pc'[t] = "wait" /\ \A u \in Callers : u # t => pc'[u] = "idle"
    BY <1>2, <2>1, Moves
  <2> QED
    BY <1>2, <1>3, <2>1, <2>3, <2>4
<1>7. ASSUME NEW t \in Callers, ProcessFails(t) PROVE FALSE
  BY <1>7 DEF ProcessFails, Happens
<1>8. ASSUME NEW t \in Callers, Wait(t) \/ ReadOnce(t) \/ ReadFails(t) \/ Classify(t)
      PROVE  ~harmed' /\ ProcessOK' /\ ExitOK'
  <2>1. \E from, to : /\ Goto(t, from, to)
                      /\ from \in {"wait", "read", "classify"}
                      /\ to \in {"read", "classify", "close"}
    BY <1>8 DEF Wait, ReadOnce, ReadFails, Classify
  <2>2. /\ pc[t] \in {"wait", "read", "classify"} /\ pc'[t] \in {"read", "classify", "close"}
        /\ \A u \in Callers : u # t => pc'[u] = "idle"
    BY <1>2, <2>1, Moves
  <2>3. UNCHANGED <<hProcess, table, harmed>>
    BY <1>8 DEF Wait, ReadOnce, ReadFails, Classify, globals, kernel
  <2>4. Refers(hProcess, "process", t)'
    BY <1>2, <2>2, <2>3 DEF ProcessOK, Started, Refers
  <2> QED
    BY <1>2, <1>3, <2>2, <2>3, <2>4
<1>9. ASSUME NEW t \in Callers, CloseAll(t) PROVE ~harmed' /\ ProcessOK' /\ ExitOK'
  <2>1. /\ Goto(t, "close", "exit") /\ UNCHANGED hWrite
        /\ table' = [h \in Handles |-> IF h \in {hProcess, hWrite, hRead} THEN Closed
                                       ELSE table[h]]
        /\ harmed' = (harmed \/ \E h \in {hProcess, hWrite, hRead} : Object(h).kind = "other")
    BY <1>9 DEF CloseAll, CloseHandles, globals
  <2>2. /\ pc[t] = "close" /\ pc'[t] = "exit"
        /\ \A u \in Callers : u # t => pc'[u] = "idle"
    BY <1>2, <2>1, Moves
  <2>3. /\ Refers(hProcess, "process", t) /\ Refers(hRead, "read", t)
        /\ Refers(hWrite, "write", t)
    BY <1>2, <2>2 DEF ProcessOK, HandlesOK, EndsOK, Piped, Started
  <2>4. \A h \in {hProcess, hWrite, hRead} : Object(h).kind # "other"
    BY <2>3 DEF Refers, Object
  <2>5. ~harmed'
    BY <1>2, <2>1, <2>4
  <2>6. Object(hWrite)'.kind # "other"
    BY <2>1, <2>3 DEF Refers, Object, Closed
  <2> QED
    BY <1>3, <2>2, <2>5, <2>6 DEF Started
<1>10. ASSUME NEW t \in Callers, WriteExit(t) PROVE ~harmed' /\ ProcessOK' /\ ExitOK'
  <2>1. Goto(t, "exit", "idle") /\ harmed' = (harmed \/ Object(hWrite).kind = "other")
    BY <1>10 DEF WriteExit
  <2>2. /\ pc[t] = "exit" /\ pc'[t] = "idle"
        /\ \A u \in Callers : u # t => pc'[u] = "idle"
    BY <1>2, <2>1, Moves
  <2>3. ~harmed'
    BY <1>2, <2>1, <2>2 DEF ExitOK
  <2> QED
    BY <1>3, <2>2, <2>3 DEF Started
<1>11. CASE OtherOpen
  <2>1. UNCHANGED <<globals, pc, harmed>> /\ Idle
    BY <1>11 DEF OtherOpen, callers, Happens
  <2> QED
    BY <1>2, <2>1 DEF Idle, ProcessOK, ExitOK, Started
<1>12. CASE OtherClose
  <2>1. PICK k \in Handles : table[k].kind = "other" /\ table' = [table EXCEPT ![k] = Closed]
    BY <1>12 DEF OtherClose
  <2>2. UNCHANGED <<hProcess, hWrite, pc, harmed>>
    BY <1>12 DEF OtherClose, globals, callers
  <2>3. ProcessOK'
    BY <1>0, <1>2, <2>1, <2>2 DEF ProcessOK, Started, Refers
  <2>4. ExitOK'
    BY <1>0, <1>2, <2>1, <2>2 DEF ExitOK, Object, Closed
  <2> QED
    BY <1>2, <2>2, <2>3, <2>4
<1>13. CASE UNCHANGED <<hProcess, hWrite, table, pc, harmed>>
  BY <1>2, <1>13 DEF ProcessOK, ExitOK, Started, Refers, Object
<1>14. ASSUME NEW t \in Callers, Output(t) PROVE ~harmed' /\ ProcessOK' /\ ExitOK'
  BY <1>13, <1>14 DEF Output, globals, callers
<1>15. CASE UNCHANGED vars
  BY <1>13, <1>15 DEF vars, globals, kernel, callers
<1> QED
  BY <1>4, <1>5, <1>6, <1>7, <1>8, <1>9, <1>10, <1>11, <1>12, <1>14, <1>15
     DEF Next, Run, CreateProcess

-----------------------------------------------------------------------------
(* The theorems. *)

(***************************************************************************)
(* IInv always holds.                                                      *)
(***************************************************************************)
LEMMA Inductive == Spec => []IInv
<1>1. Init => IInv
  <2> SUFFICES ASSUME Init PROVE IInv
    OBVIOUS
  <2>1. Alone /\ OutputOK
    BY DEF Init, Alone, OutputOK, OutputAt
  <2>2. HandlesOK
    BY DEF Init, HandlesOK, EndsOK, OpenOK, Piped, Started, Closed, Owning
  <2>3. ~harmed /\ ProcessOK /\ ExitOK
    BY DEF Init, ProcessOK, ExitOK, Started
  <2> QED
    BY <2>1, <2>2, <2>3, TypedInit DEF IInv, SerialInv, QuietInv
<1>2. IInv /\ [Next]_vars => IInv'
  BY TypedInductive, SerialStep, QuietStep DEF IInv
<1> QED
  BY <1>1, <1>2, PTL DEF Spec

(***************************************************************************)
(* ExecDosCmd returns the code of the output of its own command, as far as *)
(* one ReadFile goes, or 0 after a failed CreateProcess, whatever earlier  *)
(* commands still write, if calls do not overlap.                          *)
(***************************************************************************)
THEOREM AnswerIsOwn == Spec => []OwnAnswer
<1>1. IInv => OwnAnswer
  BY DEF IInv, SerialInv, OutputOK, OutputAt, Answered, OwnAnswer
<1> QED
  BY <1>1, Inductive, PTL

(***************************************************************************)
(* Whichever way a call returns, its pipe and its process handle are       *)
(* closed.                                                                 *)
(***************************************************************************)
THEOREM NothingLeaks == Spec => []NoLeak
<1>1. ASSUME IInv PROVE NoLeak
  <2> SUFFICES ASSUME "overlap" \notin odd, Idle, NEW h \in Handles
               PROVE  table[h].kind \in {"none", "other"}
    BY DEF NoLeak
  <2>1. OpenOK /\ table[h] \in Entry
    BY <1>1 DEF IInv, SerialInv, HandlesOK, Typed, TableType
  <2>2. table[h].kind \notin Owning
    BY <2>1 DEF Idle, OpenOK, Piped, Started
  <2> QED
    BY <2>1, <2>2 DEF Entry, Owning
<1> QED
  BY <1>1, Inductive, PTL

(***************************************************************************)
(* No handle of other code is closed or written to, unless a process could *)
(* not be created, another thread opened a handle during a call, or calls  *)
(* overlapped.                                                             *)
(***************************************************************************)
THEOREM OthersKept == Spec => []OthersUntouched
<1>1. IInv => OthersUntouched
  BY DEF IInv, QuietInv, OthersUntouched
<1> QED
  BY <1>1, Inductive, PTL
=============================================================================
