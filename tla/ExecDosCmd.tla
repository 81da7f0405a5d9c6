----------------------------- MODULE ExecDosCmd -----------------------------
(***************************************************************************)
(* Running adb: ExecDosCmd and ExecDosCmd_noWait start a command with its  *)
(* output in a pipe, wait for it, read the pipe once, classify what was    *)
(* read and close the handles.  The handles, the command line and the      *)
(* buffer are globals, which the timer's thread and the workers share.     *)
(***************************************************************************)
EXTENDS Integers, Sequences, FiniteSets

CONSTANTS
  Callers,    \* threads
  Commands,   \* records [wait, out]: which function runs it, what it prints
  Capacity,   \* of a pipe, in words (4096 bytes)
  ReadMax,    \* what one ReadFile takes, in words (1000 bytes)
  Handles,    \* the handle values of the process, positive numbers
  Faults,     \* what may go wrong, a subset of Fault
  MaxKinds,
  NONE

Fault == {"pipe",     \* CreatePipe fails
          "spawn",    \* CreateProcess fails
          "overlap",  \* a call begins while another is going on
          "threads"}  \* another thread opens a handle during a call

\* What a stretch of output contains, of what is looked for in it.
Word == {"connected", "TTL", "unable", "tablet", "MAC", "Success", "KB/s", "text"}

ASSUME CommandAssumption ==
  /\ \A c \in Commands : c.wait \in BOOLEAN /\ c.out \in Seq(Word)
  /\ NONE \notin Callers \cup Commands
  /\ Capacity \in Nat \ {0} /\ ReadMax \in Nat \ {0}
  /\ Handles \subseteq Nat \ {0}
  /\ Faults \subseteq Fault /\ MaxKinds \in Nat

VARIABLES
  hRead, hWrite, hProcess,   \* the globals; hProcess stands for pi's two handles
  command, buf,              \* command, bufferx1
  table,       \* table[h]: what handle h refers to
  pipe,        \* pipe[t]: the content of the pipe t created last
  child,       \* child[t]: the process t created last: what it has yet to write, and where
  pc, cmd, result,           \* of each caller
  odd,         \* history: the faults so far
  harmed       \* history: a handle of other code was closed or written to

globals == <<hRead, hWrite, hProcess, command, buf>>
kernel  == <<table, pipe, child>>
callers == <<pc, cmd, result>>
vars    == <<globals, kernel, callers, odd, harmed>>

Entry == [kind : {"none", "read", "write", "process", "other"}, of : Callers \cup {NONE}]
Closed == [kind |-> "none", of |-> NONE]

TypeOK ==
  /\ {hRead, hWrite, hProcess} \subseteq Handles \cup {0}
  /\ command \in Commands \cup {NONE}
  /\ buf \in Seq(Word) /\ Len(buf) <= ReadMax
  /\ table \in [Handles -> Entry]
  /\ pipe \in [Callers -> Seq(Word)] /\ \A t \in Callers : Len(pipe[t]) <= Capacity
  /\ child \in [Callers -> [out : Seq(Word), to : Callers \cup {NONE}]]
  /\ pc \in [Callers -> {"idle", "pipe", "command", "process", "wait", "read",
                         "classify", "close", "exit"}]
  /\ cmd \in [Callers -> Commands \cup {NONE}]
  /\ result \in [Callers -> {0, 1, 2, 3, 4, 5, 6, 65535}]
  /\ odd \subseteq Fault /\ harmed \in BOOLEAN

Init ==
  /\ hRead = 0 /\ hWrite = 0 /\ hProcess = 0 /\ command = NONE /\ buf = <<>>
  /\ table = [h \in Handles |-> Closed]
  /\ pipe = [t \in Callers |-> <<>>]
  /\ child = [t \in Callers |-> [out |-> <<>>, to |-> NONE]]
  /\ pc = [t \in Callers |-> "idle"] /\ cmd = [t \in Callers |-> NONE]
  /\ result = [t \in Callers |-> 0]
  /\ odd = {} /\ harmed = FALSE

Idle == \A t \in Callers : pc[t] = "idle"

Goto(t, from, to) == pc[t] = from /\ pc' = [pc EXCEPT ![t] = to]

\* Bound: MaxKinds kinds of fault between two starts of the program.
Happens(what) ==
  /\ what \subseteq Faults
  /\ odd' = odd \cup what /\ Cardinality(odd') <= MaxKinds

-----------------------------------------------------------------------------
(* Handles.  A value that was closed is given out again; *)
(* a pipe without handles is gone.                                       *)

Free == {h \in Handles : table[h] = Closed}
Lowest(S) == CHOOSE h \in S : \A k \in S : h <= k

Object(h) == IF h \in Handles THEN table[h] ELSE Closed

CloseHandles(hs) ==
  /\ table' = [h \in Handles |-> IF h \in hs THEN Closed ELSE table[h]]
  /\ pipe' = [t \in Callers |-> IF \E h \in Handles : table'[h].of = t THEN pipe[t] ELSE <<>>]
  /\ harmed' = (harmed \/ \E h \in hs : Object(h).kind = "other")

\* MySQL connections, SQLite and temp files of the rest of the program.
OtherOpen ==
  /\ Free # {} /\ \A h \in Handles : table[h].kind # "other"
  /\ table' = [table EXCEPT ![Lowest(Free)] = [kind |-> "other", of |-> NONE]]
  /\ Happens(IF Idle THEN {} ELSE {"threads"})
  /\ UNCHANGED <<globals, pipe, child, callers, harmed>>

OtherClose ==
  /\ \E h \in Handles :
       table[h].kind = "other" /\ table' = [table EXCEPT ![h] = Closed]
  /\ UNCHANGED <<globals, pipe, child, callers, odd, harmed>>

-----------------------------------------------------------------------------
(* The two functions. *)

\* Bound: once calls have overlapped, only those in progress go on.
Call(t) ==
  /\ Goto(t, "idle", "pipe")
  /\ "overlap" \notin odd
  /\ \E c \in Commands : cmd' = [cmd EXCEPT ![t] = c]
  /\ Happens(IF Idle THEN {} ELSE {"overlap"})
  /\ UNCHANGED <<globals, kernel, result, harmed>>

\* The caller has the result and goes on.
Forget(t) == cmd' = [cmd EXCEPT ![t] = NONE] /\ result' = [result EXCEPT ![t] = 0]

\* The two ends, a new pipe.  A process that an earlier call left running goes
\* on writing to the old one.
PipeMade(t) ==
  LET r == Lowest(Free)
      w == Lowest(Free \ {r})
  IN  /\ Goto(t, "pipe", "command")
      /\ \E h \in Free : Free \ {h} # {}
      /\ hRead' = r /\ hWrite' = w
      /\ table' = [table EXCEPT ![r] = [kind |-> "read", of |-> t],
                                ![w] = [kind |-> "write", of |-> t]]
      /\ pipe' = [pipe EXCEPT ![t] = <<>>]
      /\ child' = [u \in Callers |-> IF child[u].to = t THEN [child[u] EXCEPT !.to = NONE]
                                     ELSE child[u]]
      /\ UNCHANGED <<hProcess, command, buf, cmd, result, odd, harmed>>

\* Mutant: the handles are closed on this path as well.
PipeFailsClosing(t) ==
  /\ Goto(t, "pipe", "idle")
  /\ Forget(t)
  /\ Happens({"pipe"})
  /\ CloseHandles({hRead, hWrite})
  /\ UNCHANGED <<globals, child>>

\* return 0
PipeFails(t) ==
  /\ Goto(t, "pipe", "idle")
  /\ Forget(t)
  /\ Happens({"pipe"})
  /\ UNCHANGED <<globals, kernel, harmed>>

CopyCommand(t) ==
  /\ Goto(t, "command", "process")
  /\ command' = cmd[t]
  /\ UNCHANGED <<hRead, hWrite, hProcess, buf, kernel, cmd, result, odd, harmed>>

\* Where the new process writes to, if hWrite still is a pipe.
Target == IF Object(hWrite).kind = "write" THEN Object(hWrite).of ELSE NONE

ProcessMade(t) ==
  /\ Goto(t, "process", "wait")
  /\ Free # {}
  /\ hProcess' = Lowest(Free)
  /\ table' = [table EXCEPT ![hProcess'] = [kind |-> "process", of |-> t]]
  /\ child' = [child EXCEPT ![t] = [out |-> command.out, to |-> Target]]
  /\ result' = [result EXCEPT ![t] = 1]   \* res
  /\ UNCHANGED <<hRead, hWrite, command, buf, pipe, cmd, odd, harmed>>

\* hProcess is still the one of an earlier call.
ProcessFails(t) ==
  /\ Goto(t, "process", IF cmd[t].wait THEN "close" ELSE "wait")
  /\ result' = [result EXCEPT ![t] = 0]
  /\ Happens({"spawn"})
  /\ UNCHANGED <<globals, kernel, cmd, harmed>>

CreateProcess(t) == ProcessMade(t) \/ ProcessFails(t)

\* The process writes; it ends after its last word.  It has inherited both
\* ends of the pipe: a write never fails, but it waits when the pipe is full.
Output(t) ==
  LET c == child[t]
  IN  /\ c.out # <<>>
      /\ child' = [child EXCEPT ![t].out = Tail(c.out)]
      /\ \/ c.to = NONE /\ UNCHANGED pipe
         \/ /\ c.to # NONE /\ Len(pipe[c.to]) < Capacity
            /\ pipe' = [pipe EXCEPT ![c.to] = Append(@, Head(c.out))]
      /\ UNCHANGED <<globals, table, callers, odd, harmed>>

\* Mutant: two seconds instead of INFINITE.
WaitBriefly(t) ==
  /\ Goto(t, "wait", IF cmd[t].wait THEN "read" ELSE "close")
  /\ buf' = IF cmd[t].wait THEN <<>> ELSE buf
  /\ UNCHANGED <<hRead, hWrite, hProcess, command, kernel, cmd, result, odd, harmed>>

\* WaitForSingleObject, without a limit or for 300 ms.  ZeroMemory follows.
Wait(t) ==
  LET e == Object(hProcess)
  IN  /\ \/ /\ Goto(t, "wait", "read") /\ cmd[t].wait
            /\ e.kind = "process" => child[e.of].out = <<>>
            /\ buf' = <<>>
         \/ Goto(t, "wait", "close") /\ ~cmd[t].wait /\ UNCHANGED buf
      /\ UNCHANGED <<hRead, hWrite, hProcess, command, kernel, cmd, result, odd, harmed>>

\* One ReadFile; an empty pipe makes it wait, as this process itself holds
\* the writing end, unless another thread has closed a handle of it.
Broken(e) ==
  \/ e.kind # "read"
  \/ /\ e.kind = "read" /\ pipe[e.of] = <<>> /\ \A t \in Callers : child[t].out = <<>>
     /\ \A h \in Handles : table[h] # [kind |-> "write", of |-> e.of]

Least(j, k) == IF j < k THEN j ELSE k

\* n words of pipe p; the buffer has room for ReadMax.
Take(p, n) ==
  /\ buf' = SubSeq(pipe[p], 1, n)
  /\ pipe' = [pipe EXCEPT ![p] = SubSeq(@, n + 1, Len(@))]

\* Mutants: the loop goes on to the end of the output; the whole output is taken.
ReadOn(t) ==
  LET e == Object(hRead)
      n == Least(ReadMax, Len(pipe[e.of]))
  IN  /\ e.kind = "read" /\ pipe[e.of] # <<>>
      /\ Goto(t, "read", IF n = ReadMax THEN "read" ELSE "classify")
      /\ Take(e.of, n)
      /\ UNCHANGED <<hRead, hWrite, hProcess, command, table, child, cmd, result, odd, harmed>>

ReadWhole(t) ==
  LET e == Object(hRead)
  IN  /\ Goto(t, "read", "classify")
      /\ e.kind = "read" /\ pipe[e.of] # <<>>
      /\ Take(e.of, Len(pipe[e.of]))
      /\ UNCHANGED <<hRead, hWrite, hProcess, command, table, child, cmd, result, odd, harmed>>

ReadOnce(t) ==
  LET e == Object(hRead)
  IN  /\ Goto(t, "read", "classify")
      /\ e.kind = "read" /\ pipe[e.of] # <<>>
      /\ Take(e.of, Least(ReadMax, Len(pipe[e.of])))
      /\ UNCHANGED <<hRead, hWrite, hProcess, command, table, child, cmd, result, odd, harmed>>

ReadFails(t) ==
  /\ Goto(t, "read", "close")
  /\ Broken(Object(hRead))
  /\ result' = [result EXCEPT ![t] = 0]
  /\ UNCHANGED <<globals, kernel, cmd, odd, harmed>>

\* The cascade of strstr, in its order.
Looked ==
  << [for |-> "connected", code |-> 1], [for |-> "TTL", code |-> 1],
     [for |-> "unable", code |-> 65535], [for |-> "tablet", code |-> 2],
     [for |-> "MAC", code |-> 4], [for |-> "Success", code |-> 5],
     [for |-> "KB/s", code |-> 6] >>

Found(text, w) == {k \in DOMAIN text : text[k] = w}
Hits(text) == {k \in DOMAIN Looked : Found(text, Looked[k].for) # {}}
Several(S) == \E j, k \in S : j # k

Code(text) ==
  IF Hits(text) = {} THEN 0
  ELSE LET hit == Looked[Lowest(Hits(text))]
       IN  IF hit.for = "tablet" /\ Several(Found(text, "tablet")) THEN 3 ELSE hit.code

\* ("MAC: " also sets this_MAC_address, see Registration.)
Classify(t) ==
  /\ Goto(t, "classify", "close")
  /\ result' = [result EXCEPT ![t] = Code(buf)]
  /\ UNCHANGED <<globals, kernel, cmd, odd, harmed>>

\* Mutant: hRead is forgotten.
CloseAllButRead(t) ==
  /\ Goto(t, "close", "exit")
  /\ CloseHandles({hProcess, hWrite})
  /\ UNCHANGED <<globals, child, cmd, result, odd>>

CloseAll(t) ==
  /\ Goto(t, "close", "exit")
  /\ CloseHandles({hProcess, hWrite, hRead})
  /\ UNCHANGED <<globals, child, cmd, result, odd>>

\* WriteFile(hWrite, "exit\r\n"), after hWrite was closed.
WriteExit(t) ==
  LET e == Object(hWrite)
  IN  /\ Goto(t, "exit", "idle")
      /\ harmed' = (harmed \/ e.kind = "other")
      /\ \/ e.kind # "write" /\ UNCHANGED pipe
         \/ /\ e.kind = "write" /\ Len(pipe[e.of]) < Capacity
            /\ pipe' = [pipe EXCEPT ![e.of] = Append(@, "text")]
      /\ Forget(t)
      /\ UNCHANGED <<globals, table, child, odd>>

-----------------------------------------------------------------------------
Run(t) ==
  \/ PipeMade(t) \/ PipeFails(t) \/ CopyCommand(t) \/ CreateProcess(t) \/ Wait(t) \/ ReadOnce(t)
  \/ ReadFails(t) \/ Classify(t) \/ CloseAll(t) \/ WriteExit(t)

\* The operator ends the program and starts it again.
Restart ==
  /\ hRead' = 0 /\ hWrite' = 0 /\ hProcess' = 0 /\ command' = NONE /\ buf' = <<>>
  /\ table' = [h \in Handles |-> Closed]
  /\ pipe' = [t \in Callers |-> <<>>]
  /\ child' = [t \in Callers |-> [out |-> <<>>, to |-> NONE]]
  /\ pc' = [t \in Callers |-> "idle"] /\ cmd' = [t \in Callers |-> NONE]
  /\ result' = [t \in Callers |-> 0]
  /\ odd' = {} /\ harmed' = FALSE

Next ==
  \/ \E t \in Callers : Call(t) \/ Run(t) \/ Output(t)
  \/ OtherOpen \/ OtherClose \/ Restart

\* Threads and processes run.
Fairness == \A t \in Callers : WF_vars(Run(t)) /\ WF_vars(Output(t))

Spec == Init /\ [][Next]_vars /\ Fairness

-----------------------------------------------------------------------------
(***************************************************************************)
(* A caller that waited gets the code of its own command's output, all of  *)
(* it up to the size of one read, or 0 if the process could not be         *)
(* created: never a code of an earlier command, nor of half the output.    *)
(* Provided calls do not overlap (Dialog!Serial).                          *)
(***************************************************************************)
Prefix(text) == SubSeq(text, 1, Least(ReadMax, Len(text)))

OwnAnswer ==
  "overlap" \notin odd =>
    \A t \in Callers : pc[t] = "exit" /\ cmd[t].wait =>
      \/ result[t] = Code(Prefix(cmd[t].out))
      \/ result[t] = 0 /\ "spawn" \in odd

(***************************************************************************)
(* Between calls no handle of a pipe or a process is open, on whatever     *)
(* path the calls have returned.                                           *)
(***************************************************************************)
NoLeak ==
  "overlap" \notin odd /\ Idle => \A h \in Handles : table[h].kind \in {"none", "other"}

(***************************************************************************)
(* Closing the process handles of an earlier call (when CreateProcess      *)
(* fails) and writing to the closed hWrite hits a handle of other code     *)
(* only then, if that code runs on another thread during a call, or if     *)
(* calls overlap.                                                          *)
(***************************************************************************)
OthersUntouched == odd \subseteq {"pipe"} => ~harmed

(***************************************************************************)
(* A call returns if its command prints something that fits into the pipe, *)
(* or is not waited for.                                                   *)
(***************************************************************************)
Ordinary(c) == c.wait => Len(c.out) \in 1 .. Capacity

CallsEnd ==
  \A t \in Callers :
    pc[t] # "idle" /\ Ordinary(cmd[t]) ~> pc[t] = "idle" \/ "overlap" \in odd
=============================================================================
