------------------------------- MODULE Dialog -------------------------------
(***************************************************************************)
(* Who runs when: the UI thread with the timer, its message boxes and the  *)
(* buttons, and the worker threads.  A worker calls window functions of    *)
(* the UI thread, which answers only while it pumps messages; the UI       *)
(* thread does not pump while TimerProc1 waits for adb.                    *)
(*                                                                         *)
(* What a run does to tablets and tables is in InstallRun and Registration;*)
(* both assume one worker at a time and no tick meanwhile.                 *)
(***************************************************************************)
EXTENDS Naturals, FiniteSets

CONSTANTS
  Workers,    \* a bound on the workers alive at once
  MaxBoxes,   \* a bound on the message boxes of nested ticks
  Lapses      \* what may go wrong, a subset of Lapse

VARIABLES
  timer,      \* ID_TIMER is set
  ui,         \* "loop": the UI thread pumps messages; "tick": it waits for adb
  boxes,      \* message boxes of ticks that could not reach MySQL
  auto,       \* IDC_CHECK1: install without a click
  install,    \* the Install button is enabled
  next, forceShown,   \* the Next and Force buttons are visible
  force,      \* force_install_flag
  dll,        \* UNZDLL.DLL is loaded
  worker,     \* worker[w]: how far the worker is
  lapsed      \* history: what went wrong

buttons == <<install, next, forceShown>>
vars == <<timer, ui, boxes, auto, buttons, force, dll, worker, lapsed>>

Lapse ==
  {"rush",     \* a click or a tick between the start of a worker and KillTimer
   "early",    \* Force clicked before the worker that offers it has ended
   "nested",   \* a tick while a message box of an earlier one is open
   "dll"}      \* UNZDLL.DLL is not usable

ASSUME DialogAssumption ==
  /\ Lapses \subseteq Lapse
  /\ Workers # {}
  /\ MaxBoxes \in Nat

\* From the start of the thread to its end; Open_SchoolSQL may show a box.
Busy == {"start", "kill", "sql", "sqlBox", "init", "work", "tail", "end"}

TypeOK ==
  /\ ui \in {"loop", "tick"} /\ boxes \in 0 .. MaxBoxes
  /\ timer \in BOOLEAN /\ auto \in BOOLEAN /\ force \in BOOLEAN /\ dll \in BOOLEAN
  /\ install \in BOOLEAN /\ next \in BOOLEAN /\ forceShown \in BOOLEAN
  /\ worker \in [Workers -> Busy \cup {"none"}]
  /\ lapsed \subseteq Lapses

Alive == {w \in Workers : worker[w] # "none"}

Init ==
  /\ timer = TRUE /\ ui = "loop" /\ boxes = 0 /\ auto \in BOOLEAN
  /\ install = FALSE /\ next = FALSE /\ forceShown = FALSE /\ force = FALSE
  /\ dll = FALSE /\ worker = [w \in Workers |-> "none"] /\ lapsed = {}

Lapsing(what) == lapsed' = lapsed \cup what /\ lapsed' \subseteq Lapses

\* AfxBeginThread.  Bound: one worker more than Workers is left out.
StartWorker ==
  \/ \E w \in Workers \ Alive : worker' = [worker EXCEPT ![w] = "start"]
  \/ Alive = Workers /\ UNCHANGED worker

Starting == \E w \in Workers : worker[w] \in {"start", "kill"}

-----------------------------------------------------------------------------
(* TimerProc1, on the UI thread. *)

\* Every 5 seconds; in the loop of a message box as well.
TickBegin ==
  /\ timer /\ ui = "loop" /\ boxes < MaxBoxes
  /\ ui' = "tick"
  /\ Lapsing((IF Starting THEN {"rush"} ELSE {}) \cup (IF boxes > 0 THEN {"nested"} ELSE {}))
  /\ UNCHANGED <<timer, boxes, auto, buttons, force, dll, worker>>

\* No tablet, several, or no MAC address; other answers change nothing.
TickNothing ==
  /\ ui = "tick" /\ ui' = "loop"
  /\ install' \in {install, FALSE}
  /\ UNCHANGED <<timer, boxes, auto, next, forceShown, force, dll, worker, lapsed>>

\* A tablet is ready: enable Install, or install.
Ready ==
  /\ \/ ~auto /\ install' = TRUE /\ UNCHANGED worker
     \/ auto /\ StartWorker /\ UNCHANGED install
  /\ UNCHANGED <<timer, auto, next, forceShown, force, dll, lapsed>>

TickReady == ui = "tick" /\ ui' = "loop" /\ Ready /\ UNCHANGED boxes

\* Mutant: a box each for the server, the database and the character set.
TickNoSqlThrice ==
  /\ ui = "tick" /\ ui' = "loop"
  /\ boxes' = boxes + 3
  /\ UNCHANGED <<timer, auto, buttons, force, dll, worker, lapsed>>

\* "連接 MySQL Server 失敗": a modal loop inside TimerProc1.
TickNoSql ==
  /\ ui = "tick" /\ ui' = "loop"
  /\ boxes' = boxes + 1
  /\ UNCHANGED <<timer, auto, buttons, force, dll, worker, lapsed>>

\* The innermost box is closed and its tick goes on.
CloseBox == ui = "loop" /\ boxes > 0 /\ boxes' = boxes - 1 /\ Ready /\ UNCHANGED ui

-----------------------------------------------------------------------------
(* The operator.  A message box disables the dialog behind it. *)

Clickable == ui = "loop" /\ boxes = 0 /\ \A w \in Workers : worker[w] # "sqlBox"

ClickInstall ==
  /\ Clickable /\ install
  /\ StartWorker
  /\ Lapsing(IF Starting THEN {"rush"} ELSE {})
  /\ UNCHANGED <<timer, ui, boxes, auto, buttons, force, dll>>

\* OnBnClickedButtonForce
ClickForce ==
  /\ Clickable /\ forceShown
  /\ install' = FALSE /\ next' = FALSE /\ forceShown' = FALSE
  /\ force' = TRUE
  /\ StartWorker
  /\ Lapsing(IF Alive # {} THEN {"early"} ELSE {})
  /\ UNCHANGED <<timer, ui, boxes, auto, dll>>

\* OnBnClickedButton2, by the operator or the automatic mode.
WatchAgain ==
  /\ next' = FALSE /\ forceShown' = FALSE
  /\ timer' = TRUE

ClickNext ==
  /\ Clickable /\ next
  /\ WatchAgain
  /\ UNCHANGED <<ui, boxes, auto, install, force, dll, worker, lapsed>>

Check ==
  /\ Clickable
  /\ auto' = ~auto
  /\ UNCHANGED <<timer, ui, boxes, buttons, force, dll, worker, lapsed>>

-----------------------------------------------------------------------------
(* Install_process. *)

Pumping == ui = "loop"

Step(w, from, to) == worker[w] = from /\ worker' = [worker EXCEPT ![w] = to]

Disable(w) ==
  /\ Step(w, "start", "kill") /\ Pumping
  /\ install' = FALSE
  /\ UNCHANGED <<timer, ui, boxes, auto, next, forceShown, force, dll, lapsed>>

\* Mutant: the timer goes on during the run.
KillTimerNot(w) ==
  /\ Step(w, "kill", "sql")
  /\ UNCHANGED <<timer, ui, boxes, auto, buttons, force, dll, lapsed>>

KillTimer(w) ==
  /\ Step(w, "kill", "sql")
  /\ timer' = FALSE
  /\ UNCHANGED <<ui, boxes, auto, buttons, force, dll, lapsed>>

OpenSql(w) ==
  /\ Pumping
  /\ Step(w, "sql", "init") \/ Step(w, "sql", "sqlBox")
  /\ UNCHANGED <<timer, ui, boxes, auto, buttons, force, dll, lapsed>>

\* Mutant: the worker tries MySQL again.
CloseSqlBoxRetry(w) ==
  /\ Step(w, "sqlBox", "sql")
  /\ UNCHANGED <<timer, ui, boxes, auto, buttons, force, dll, lapsed>>

CloseSqlBox(w) ==
  /\ Step(w, "sqlBox", "init")
  /\ UNCHANGED <<timer, ui, boxes, auto, buttons, force, dll, lapsed>>

\* If it fails the worker returns, with neither the timer nor Next.
InitUnzip(w) ==
  /\ \/ Step(w, "init", "work") /\ dll' = TRUE /\ UNCHANGED lapsed
     \/ Step(w, "init", "none") /\ Lapsing({"dll"}) /\ UNCHANGED dll
  /\ UNCHANGED <<timer, ui, boxes, auto, buttons, force>>

\* "Already the latest": Force is offered.
Latest(w) ==
  /\ Step(w, "work", "tail") /\ dll /\ Pumping
  /\ ~force /\ forceShown' = TRUE
  /\ UNCHANGED <<timer, ui, boxes, auto, install, next, force, dll, lapsed>>

InstallAll(w) ==
  /\ Step(w, "work", "tail") /\ dll /\ Pumping
  /\ force' = FALSE
  /\ UNCHANGED <<timer, ui, boxes, auto, buttons, dll, lapsed>>

FinalizeUnzip(w) ==
  /\ Step(w, "tail", "end")
  /\ dll' = FALSE
  /\ UNCHANGED <<timer, ui, boxes, auto, buttons, force, lapsed>>

\* Mutant: the automatic mode is not looked at.
EndRunManually(w) ==
  /\ Step(w, "end", "none") /\ Pumping
  /\ next' = TRUE
  /\ UNCHANGED <<timer, ui, boxes, auto, install, forceShown, force, dll, lapsed>>

\* Mutant: Next appears only if an installation took place.
EndRunQuietly(w) ==
  /\ Step(w, "end", "none") /\ Pumping
  /\ \/ auto /\ WatchAgain
     \/ ~auto /\ next' = ~forceShown /\ UNCHANGED <<timer, forceShown>>
  /\ UNCHANGED <<ui, boxes, auto, install, force, dll, lapsed>>

\* Sleep(5000) if nothing was installed, in the automatic mode.
EndRun(w) ==
  /\ Step(w, "end", "none") /\ Pumping
  /\ \/ auto /\ WatchAgain
     \/ ~auto /\ next' = TRUE /\ UNCHANGED <<timer, forceShown>>
  /\ UNCHANGED <<ui, boxes, auto, install, force, dll, lapsed>>

\* The program starts over.
Started ==
  /\ timer' = TRUE /\ ui' = "loop" /\ boxes' = 0 /\ auto' \in BOOLEAN
  /\ install' = FALSE /\ next' = FALSE /\ forceShown' = FALSE /\ force' = FALSE
  /\ dll' = FALSE /\ worker' = [w \in Workers |-> "none"] /\ lapsed' = {}

\* ExtractFiles calls through a null pointer when another worker has unloaded
\* the DLL: the program dies, and is started again.
Crash(w) == worker[w] = "work" /\ ~dll /\ Started

\* The operator closes the program.
Restart == Clickable /\ Started

Work(w) ==
  \/ Disable(w) \/ KillTimer(w) \/ OpenSql(w) \/ CloseSqlBox(w) \/ InitUnzip(w)
  \/ Latest(w) \/ InstallAll(w) \/ FinalizeUnzip(w) \/ EndRun(w) \/ Crash(w)

Tick == TickNothing \/ TickReady \/ TickNoSql

Next ==
  \/ TickBegin \/ Tick \/ CloseBox
  \/ ClickInstall \/ ClickForce \/ ClickNext \/ Check \/ Restart
  \/ \E w \in Workers : Work(w)

(***************************************************************************)
(* adb commands end; the operator closes a message box some time; a call   *)
(* from a worker to the window is answered when the UI thread pumps, sent  *)
(* messages before timers: strong fairness, as ticks come in between.      *)
(***************************************************************************)
Fairness ==
  /\ WF_vars(Tick) /\ SF_vars(CloseBox)
  /\ \A w \in Workers : SF_vars(Work(w))

Spec == Init /\ [][Next]_vars /\ Fairness

-----------------------------------------------------------------------------
(***************************************************************************)
(* One worker runs at a time, and from its KillTimer to its end no tick    *)
(* runs and no button but Force can be pressed, in any order of clicks,    *)
(* ticks and message boxes, if no lapse happened: the only holes are the   *)
(* moment before KillTimer, an early Force and the nested message boxes.   *)
(***************************************************************************)
Serial ==
  lapsed \subseteq {"dll"} =>
    /\ \A v, w \in Alive : v = w
    /\ \A w \in Workers : worker[w] \in Busy \ {"start", "kill"} =>
         ~timer /\ ui = "loop" /\ ~install /\ ~next

(***************************************************************************)
(* Whatever overlaps, and also after a worker crashed another: when no     *)
(* worker is left, either the timer runs or Next is there to press.        *)
(* (Unless UNZDLL.DLL failed: then the window has neither.)                *)
(***************************************************************************)
Usable == Alive = {} /\ "dll" \notin lapsed => timer \/ next

(***************************************************************************)
(* A worker that has started ends, however ticks and boxes come between.   *)
(***************************************************************************)
RunEnds == \A w \in Workers : worker[w] # "none" ~> worker[w] = "none"

(***************************************************************************)
(* "免按鍵, 自動安裝": while the box stays checked the program watches for   *)
(* tablets again and again without Next being pressed.                     *)
(***************************************************************************)
Unattended == [](auto /\ "dll" \notin lapsed) => []<>timer
=============================================================================
