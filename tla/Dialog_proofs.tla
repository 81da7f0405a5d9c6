---------------------------- MODULE Dialog_proofs ----------------------------
(***************************************************************************)
(* The safety properties of Dialog for any number of workers, any bound on *)
(* nested message boxes and any set of lapses.  Liveness is left to TLC.   *)
(***************************************************************************)
EXTENDS Dialog, TLAPS

\* A tick is begun only below the bound on boxes: it may add one.
Room == ui = "tick" => boxes < MaxBoxes

TypeInv == TypeOK /\ Room

(***************************************************************************)
(* The inductive invariant behind Serial.  A worker starts from a tick, a  *)
(* message box or a click; as long as nothing lapsed each of them finds no *)
(* worker alive, and the button that could start another is gone by the    *)
(* time the worker has disabled it.                                        *)
(***************************************************************************)
Quiet == lapsed \subseteq {"dll"}

OneAlive == \A v, w \in Alive : v = w
AlivePumps == Alive # {} => ui = "loop" /\ boxes = 0 /\ ~next
OneBox == boxes \in {0, 1} /\ (ui = "tick" => boxes = 0)
NextIdle == next => ~install /\ ~timer /\ ui = "loop" /\ boxes = 0
Disabled == \A w \in Workers : worker[w] \notin {"none", "start"} => ~install
Stopped == \A w \in Workers : worker[w] \notin {"none", "start", "kill"} => ~timer

QuietInv == OneAlive /\ AlivePumps /\ OneBox /\ NextIdle /\ Disabled /\ Stopped

SerialInv == Quiet => QuietInv

-----------------------------------------------------------------------------
(* What starting a worker and one step of a worker do to the set of those  *)
(* alive.                                                                  *)

\* A worker that starts is a worker.
LEMMA StartTyped ==
  ASSUME TypeOK, StartWorker
  PROVE  worker' \in [Workers -> Busy \cup {"none"}]
BY DEF TypeOK, StartWorker, Alive, Busy

\* The first worker: nobody else is alive.
LEMMA StartFirst ==
  ASSUME TypeOK, StartWorker, Alive = {}
  PROVE  /\ \A v, w \in Alive' : v = w
         /\ \A w \in Workers : worker'[w] \in {"none", "start"}
BY DialogAssumption DEF TypeOK, StartWorker, Alive

\* A worker that goes on is one.
LEMMA StepTyped ==
  ASSUME TypeOK, NEW w \in Workers, NEW from, NEW to \in Busy \cup {"none"},
         Step(w, from, to)
  PROVE  worker' \in [Workers -> Busy \cup {"none"}]
BY DEF TypeOK, Step

\* A step of the one worker alive leaves at most that one alive.
LEMMA StepAlone ==
  ASSUME TypeOK, OneAlive, NEW w \in Workers, NEW from, NEW to,
         from # "none", Step(w, from, to)
  PROVE  /\ Alive = {w}
         /\ \A u, v \in Alive' : u = v
         /\ Alive' # {} => to # "none"
         /\ \A v \in Workers : worker'[v] = IF v = w THEN to ELSE "none"
BY DEF TypeOK, OneAlive, Alive, Step

-----------------------------------------------------------------------------
(* Type correctness. *)

\* Initially, and whenever the program starts over.
LEMMA StartedTyped == Started => TypeInv'
<1> SUFFICES ASSUME Started PROVE TypeInv'
  OBVIOUS
<1>1. worker' \in [Workers -> Busy \cup {"none"}]
  BY DEF Started
<1>2. boxes' \in 0 .. MaxBoxes /\ Room'
  BY DialogAssumption DEF Started, Room
<1> QED BY <1>1, <1>2 DEF Started, TypeInv, TypeOK

\* The program starts with everything of its type.
LEMMA InitTyped == Init => TypeInv
<1> SUFFICES ASSUME Init PROVE TypeInv
  OBVIOUS
<1>1. worker \in [Workers -> Busy \cup {"none"}]
  BY DEF Init
<1>2. boxes \in 0 .. MaxBoxes /\ Room
  BY DialogAssumption DEF Init, Room
<1> QED BY <1>1, <1>2 DEF Init, TypeInv, TypeOK

\* Every step keeps the types and the room for one more box.
LEMMA TypeStep == TypeInv /\ [Next]_vars => TypeInv'
<1> SUFFICES ASSUME TypeInv, [Next]_vars PROVE TypeInv'
  OBVIOUS
<1> USE DialogAssumption
<1>0. TypeOK
  BY DEF TypeInv
<1>1. CASE TickBegin
  BY <1>1 DEF TickBegin, Lapsing, TypeInv, TypeOK, Room, buttons
<1>2. CASE Tick
  <2>1. CASE TickNothing
    BY <2>1 DEF TickNothing, TypeInv, TypeOK, Room
  <2>2. CASE TickReady
    <3>1. worker' \in [Workers -> Busy \cup {"none"}]
      BY <1>0, <2>2, StartTyped DEF TickReady, Ready, TypeOK
    <3> QED BY <2>2, <3>1 DEF TickReady, Ready, TypeInv, TypeOK, Room
  <2>3. CASE TickNoSql
    BY <2>3 DEF TickNoSql, TypeInv, TypeOK, Room, buttons
  <2> QED BY <1>2, <2>1, <2>2, <2>3 DEF Tick
<1>3. CASE CloseBox
  <2>1. worker' \in [Workers -> Busy \cup {"none"}]
    BY <1>0, <1>3, StartTyped DEF CloseBox, Ready, TypeOK
  <2>2. boxes' \in 0 .. MaxBoxes /\ ui' = "loop"
    BY <1>0, <1>3 DEF CloseBox, TypeOK
  <2>3. install' \in BOOLEAN
    BY <1>0, <1>3 DEF CloseBox, Ready, TypeOK
  <2> QED BY <1>0, <1>3, <2>1, <2>2, <2>3 DEF CloseBox, Ready, TypeInv, TypeOK, Room
<1>4. CASE ClickInstall
  <2>1. worker' \in [Workers -> Busy \cup {"none"}]
    BY <1>0, <1>4, StartTyped DEF ClickInstall
  <2> QED BY <1>4, <2>1 DEF ClickInstall, Lapsing, TypeInv, TypeOK, Room, buttons
<1>5. CASE ClickForce
  <2>1. worker' \in [Workers -> Busy \cup {"none"}]
    BY <1>0, <1>5, StartTyped DEF ClickForce
  <2> QED BY <1>5, <2>1 DEF ClickForce, Lapsing, TypeInv, TypeOK, Room
<1>6. CASE ClickNext
  BY <1>6 DEF ClickNext, WatchAgain, TypeInv, TypeOK, Room
<1>7. CASE Check
  BY <1>7 DEF Check, TypeInv, TypeOK, Room, buttons
<1>8. CASE Restart
  BY <1>8, StartedTyped DEF Restart
<1>9. ASSUME NEW w \in Workers, Work(w) PROVE TypeInv'
  <2>1. CASE Crash(w)
    BY <2>1, StartedTyped DEF Crash
  <2>2. CASE ~Crash(w)
    <3>1. worker' \in [Workers -> Busy \cup {"none"}]
      BY <1>0, <1>9, <2>2, StepTyped
      DEF Work, Disable, KillTimer, OpenSql, CloseSqlBox, InitUnzip, Latest,
          InstallAll, FinalizeUnzip, EndRun, Busy
    <3>2. lapsed' \subseteq Lapses
      BY <1>0, <1>9, <2>2
      DEF Work, Disable, KillTimer, OpenSql, CloseSqlBox, InitUnzip, Latest,
          InstallAll, FinalizeUnzip, EndRun, Lapsing, TypeOK
    <3>3. /\ UNCHANGED <<ui, boxes, auto>>
          /\ timer' \in BOOLEAN /\ force' \in BOOLEAN /\ dll' \in BOOLEAN
          /\ install' \in BOOLEAN /\ next' \in BOOLEAN /\ forceShown' \in BOOLEAN
      BY <1>0, <1>9, <2>2
      DEF Work, Disable, KillTimer, OpenSql, CloseSqlBox, InitUnzip, Latest,
          InstallAll, FinalizeUnzip, EndRun, WatchAgain, TypeOK, buttons
    <3> QED BY <3>1, <3>2, <3>3 DEF TypeInv, TypeOK, Room
  <2> QED BY <2>1, <2>2
<1>10. CASE UNCHANGED vars
  BY <1>10 DEF vars, buttons, TypeInv, TypeOK, Room
<1> QED BY <1>1, <1>2, <1>3, <1>4, <1>5, <1>6, <1>7, <1>8, <1>9, <1>10 DEF Next

\* The type invariant with its strengthening.
LEMMA Typed == Spec => []TypeInv
BY InitTyped, TypeStep, PTL DEF Spec

(***************************************************************************)
(* Timer, buttons, message boxes and workers keep their types: in          *)
(* particular ticks never open more boxes than they were begun for.        *)
(***************************************************************************)
THEOREM TypeCorrect == Spec => []TypeOK
<1>1. TypeInv => TypeOK
  BY DEF TypeInv
<1> QED BY <1>1, Typed, PTL

-----------------------------------------------------------------------------
(* One worker at a time. *)

\* Nothing runs after the program has started over.
LEMMA StartedQuiet == Started => QuietInv'
BY DialogAssumption
DEF Started, QuietInv, OneAlive, AlivePumps, OneBox, NextIdle, Disabled, Stopped, Alive

\* A tick, or the end of a message box, that finds no worker.
LEMMA ReadyQuiet ==
  ASSUME TypeOK, QuietInv, Ready, Alive = {}, ~next,
         ui' = "loop", boxes' = 0
  PROVE  QuietInv'
<1>1. CASE ~auto
  BY <1>1 DEF Ready, QuietInv, OneAlive, AlivePumps, OneBox, NextIdle, Disabled,
          Stopped, Alive
<1>2. CASE auto
  <2>1. /\ \A v, w \in Alive' : v = w
        /\ \A w \in Workers : worker'[w] \in {"none", "start"}
    BY <1>2, StartFirst DEF Ready
  <2>2. ~next'
    BY DEF Ready
  <2> QED BY <2>1, <2>2
          DEF QuietInv, OneAlive, AlivePumps, OneBox, NextIdle, Disabled, Stopped
<1> QED BY <1>1, <1>2

\* Every step without a new lapse keeps the workers serial.
LEMMA SerialStep == TypeInv /\ SerialInv /\ [Next]_vars => SerialInv'
<1> SUFFICES ASSUME TypeInv, SerialInv, [Next]_vars, Quiet' PROVE QuietInv'
  BY DEF SerialInv
<1> USE DialogAssumption
<1>0. TypeOK
  BY DEF TypeInv
<1>1. CASE Started
  BY <1>1, StartedQuiet
<1>2. CASE ~Started
  <2>1. Quiet /\ lapsed' \subseteq {"dll"}
    BY <1>0, <1>2
    DEF Quiet, Next, TickBegin, Tick, TickNothing, TickReady, TickNoSql, Ready, CloseBox,
        ClickInstall, ClickForce, ClickNext, WatchAgain, Check, Restart, Work, Disable,
        KillTimer, OpenSql, CloseSqlBox, InitUnzip, Latest, InstallAll, FinalizeUnzip,
        EndRun, Crash, Lapsing, vars
  <2>2. QuietInv
    BY <2>1 DEF SerialInv
  <2>3. CASE TickBegin
    <3>1. ~Starting /\ boxes = 0
      BY <1>0, <2>1, <2>3 DEF TickBegin, Lapsing, TypeOK
    <3>2. Alive = {}
      BY <3>1, <2>2, <2>3 DEF TickBegin, Starting, Alive, QuietInv, Stopped
    <3> QED BY <2>2, <2>3, <3>1, <3>2
            DEF TickBegin, QuietInv, OneAlive, AlivePumps, OneBox, NextIdle, Disabled,
                Stopped, Alive, buttons
  <2>4. CASE Tick
    <3>1. ui = "tick" /\ boxes = 0 /\ Alive = {} /\ ~next
      BY <2>2, <2>4 DEF Tick, TickNothing, TickReady, TickNoSql, QuietInv, AlivePumps,
                        OneBox, NextIdle
    <3>2. CASE TickNothing
      BY <2>2, <3>1, <3>2
      DEF TickNothing, QuietInv, OneAlive, AlivePumps, OneBox, NextIdle, Disabled,
          Stopped, Alive
    <3>3. CASE TickReady
      BY <1>0, <2>2, <3>1, <3>3, ReadyQuiet DEF TickReady
    <3>4. CASE TickNoSql
      BY <2>2, <3>1, <3>4
      DEF TickNoSql, QuietInv, OneAlive, AlivePumps, OneBox, NextIdle, Disabled,
          Stopped, Alive, buttons
    <3> QED BY <2>4, <3>2, <3>3, <3>4 DEF Tick
  <2>5. CASE CloseBox
    <3>1. boxes = 1 /\ Alive = {} /\ ~next
      BY <2>2, <2>5 DEF CloseBox, QuietInv, AlivePumps, OneBox, NextIdle
    <3>2. boxes' = 0 /\ ui' = "loop" /\ Ready
      BY <2>5, <3>1 DEF CloseBox
    <3> QED BY <1>0, <2>2, <3>1, <3>2, ReadyQuiet
  <2>6. CASE ClickInstall
    <3>1. ~Starting
      BY <1>0, <2>1, <2>6 DEF ClickInstall, Lapsing, TypeOK
    <3>2. Alive = {}
      BY <3>1, <2>2, <2>6 DEF ClickInstall, Starting, Alive, QuietInv, Disabled
    <3>3. /\ \A v, w \in Alive' : v = w
          /\ \A w \in Workers : worker'[w] \in {"none", "start"}
      BY <1>0, <2>6, <3>2, StartFirst DEF ClickInstall
    <3> QED BY <2>2, <2>6, <3>3
            DEF ClickInstall, Clickable, QuietInv, OneAlive, AlivePumps, OneBox, NextIdle,
                Disabled, Stopped, buttons
  <2>7. CASE ClickForce
    <3>1. Alive = {}
      BY <1>0, <2>1, <2>7 DEF ClickForce, Lapsing, TypeOK
    <3>2. /\ \A v, w \in Alive' : v = w
          /\ \A w \in Workers : worker'[w] \in {"none", "start"}
      BY <1>0, <2>7, <3>1, StartFirst DEF ClickForce
    <3> QED BY <2>2, <2>7, <3>2
            DEF ClickForce, Clickable, QuietInv, OneAlive, AlivePumps, OneBox, NextIdle,
                Disabled, Stopped
  <2>8. CASE ClickNext
    <3>1. Alive = {}
      BY <2>2, <2>8 DEF ClickNext, QuietInv, AlivePumps
    <3> QED BY <2>2, <2>8, <3>1
            DEF ClickNext, WatchAgain, QuietInv, OneAlive, AlivePumps, OneBox, NextIdle,
                Disabled, Stopped, Alive
  <2>9. CASE Check
    BY <2>2, <2>9
    DEF Check, QuietInv, OneAlive, AlivePumps, OneBox, NextIdle, Disabled, Stopped,
        Alive, buttons
  <2>10. CASE Restart
    BY <1>2, <2>10 DEF Restart
  <2>11. ASSUME NEW w \in Workers, Work(w) PROVE QuietInv'
    <3> USE DEF QuietInv, AlivePumps, OneBox, NextIdle, Disabled, Stopped
    <3>1. worker[w] # "none" /\ OneAlive /\ w \in Alive
      BY <2>2, <2>11, <1>2
      DEF Work, Disable, KillTimer, OpenSql, CloseSqlBox, InitUnzip, Latest, InstallAll,
          FinalizeUnzip, EndRun, Crash, Step, Alive
    <3>2. ui = "loop" /\ boxes = 0 /\ ~next
      BY <2>2, <3>1
    <3>3. ASSUME NEW from \in Busy, NEW to \in Busy \cup {"none"}, Step(w, from, to),
                 UNCHANGED <<ui, boxes>>,
                 to # "none" => UNCHANGED next,
                 next' => ~install' /\ ~timer',
                 to \notin {"none", "start"} => ~install',
                 to \notin {"none", "start", "kill"} => ~timer'
          PROVE  QuietInv'
      <4>1. /\ \A u, v \in Alive' : u = v
            /\ Alive' # {} => to # "none"
            /\ \A v \in Workers : worker'[v] = IF v = w THEN to ELSE "none"
        BY <1>0, <3>1, <3>3, StepAlone DEF Busy
      <4> QED BY <3>2, <3>3, <4>1 DEF OneAlive
    <3>4. CASE Disable(w)
      BY <2>2, <3>2, <3>3, <3>4 DEF Disable, Step, Busy
    <3>5. CASE KillTimer(w)
      BY <2>2, <3>2, <3>3, <3>5 DEF KillTimer, Step, Busy, buttons
    <3>6. CASE OpenSql(w)
      BY <2>2, <3>2, <3>3, <3>6 DEF OpenSql, Step, Busy, buttons
    <3>7. CASE CloseSqlBox(w)
      BY <2>2, <3>2, <3>3, <3>7 DEF CloseSqlBox, Step, Busy, buttons
    <3>8. CASE InitUnzip(w)
      BY <2>2, <3>2, <3>3, <3>8 DEF InitUnzip, Step, Busy, buttons
    <3>9. CASE Latest(w)
      BY <2>2, <3>2, <3>3, <3>9 DEF Latest, Step, Busy
    <3>10. CASE InstallAll(w)
      BY <2>2, <3>2, <3>3, <3>10 DEF InstallAll, Step, Busy, buttons
    <3>11. CASE FinalizeUnzip(w)
      BY <2>2, <3>2, <3>3, <3>11 DEF FinalizeUnzip, Step, Busy, buttons
    <3>12. CASE EndRun(w)
      <4>1. ~install /\ ~timer
        BY <2>2, <3>12 DEF EndRun, Step
      <4> QED BY <3>2, <3>3, <3>12, <4>1 DEF EndRun, WatchAgain, Step, Busy
    <3> QED BY <1>2, <2>11, <3>4, <3>5, <3>6, <3>7, <3>8, <3>9, <3>10, <3>11, <3>12
            DEF Work, Crash
  <2>12. CASE UNCHANGED vars
    BY <2>2, <2>12
    DEF vars, buttons, QuietInv, OneAlive, AlivePumps, OneBox, NextIdle, Disabled,
        Stopped, Alive
  <2> QED BY <2>3, <2>4, <2>5, <2>6, <2>7, <2>8, <2>9, <2>10, <2>11, <2>12 DEF Next
<1> QED BY <1>1, <1>2

(***************************************************************************)
(* One worker runs at a time and, once it has stopped the timer, alone:    *)
(* the button disabled and the timer stopped by the worker itself are      *)
(* enough against everything but the lapses named in Lapse, for any number *)
(* of clicks, ticks, boxes, crashes and restarts.                          *)
(***************************************************************************)
THEOREM OneRunAtATime == Spec => []Serial
<1>1. Init => SerialInv
  BY DialogAssumption
  DEF Init, SerialInv, QuietInv, OneAlive, AlivePumps, OneBox, NextIdle, Disabled,
      Stopped, Alive
<1>2. SerialInv => Serial
  BY DEF SerialInv, Quiet, QuietInv, OneAlive, AlivePumps, Disabled, Stopped, Serial,
         Alive, Busy
<1> QED BY <1>1, <1>2, SerialStep, Typed, PTL DEF Spec

-----------------------------------------------------------------------------
(* The window stays usable. *)

\* A worker ends only by re-arming the timer or showing Next, or for want of the DLL.
LEMMA UsableStep == TypeInv /\ Usable /\ [Next]_vars => Usable'
<1> SUFFICES ASSUME TypeInv, Usable, [Next]_vars, Alive' = {}, "dll" \notin lapsed'
             PROVE  timer' \/ next'
  BY DEF Usable
<1> USE DialogAssumption DEF TypeInv, TypeOK
<1>1. CASE Started
  BY <1>1 DEF Started
<1>2. CASE UNCHANGED <<timer, next, worker, lapsed>>
  BY <1>2 DEF Usable, Alive
<1>3. CASE TickBegin
  BY <1>3 DEF TickBegin, Lapsing, Usable, Alive, buttons
<1>4. CASE Ready \/ ClickInstall \/ ClickForce
  <2>1. CASE StartWorker
    BY <2>1 DEF StartWorker, Alive
  <2>2. CASE ~StartWorker
    BY <1>2, <1>4, <2>2 DEF Ready, ClickInstall, ClickForce
  <2> QED BY <2>1, <2>2
<1>5. CASE ClickNext
  BY <1>5 DEF ClickNext, WatchAgain
<1>6. ASSUME NEW w \in Workers, Work(w), ~Started PROVE timer' \/ next'
  <2>1. CASE EndRun(w)
    BY <2>1 DEF EndRun, WatchAgain
  <2>2. CASE InitUnzip(w)
    BY <2>2 DEF InitUnzip, Lapsing, Step, Alive
  <2>3. CASE ~EndRun(w) /\ ~InitUnzip(w)
    BY <1>6, <2>3
    DEF Work, Disable, KillTimer, OpenSql, CloseSqlBox, Latest, InstallAll,
        FinalizeUnzip, Crash, Step, Alive
  <2> QED BY <2>1, <2>2, <2>3
<1> QED
  BY <1>1, <1>2, <1>3, <1>4, <1>5, <1>6
  DEF Next, Tick, TickNothing, TickReady, TickNoSql, CloseBox, Check, Restart, vars, buttons

(***************************************************************************)
(* When the last worker has ended the program watches for tablets or shows *)
(* Next, even after overlapping workers, a crash and a restart.            *)
(***************************************************************************)
THEOREM WindowUsable == Spec => []Usable
<1>1. Init => Usable
  BY DEF Init, Usable
<1> QED BY <1>1, UsableStep, Typed, PTL DEF Spec
=============================================================================
