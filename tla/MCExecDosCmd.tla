---------------------------- MODULE MCExecDosCmd ----------------------------
(***************************************************************************)
(* Two threads, a pipe of three words of which one read takes two, and     *)
(* the kinds of command the program runs: "adb devices" with two tablets,   *)
(* an installation that reports speed and success, dumpsys    *)
(* with more than the pipe holds, a command that is not waited for and     *)
(* prints something late, and a silent one that is waited for.             *)
(***************************************************************************)
EXTENDS ExecDosCmd

CONSTANTS ui, worker

MCCommands ==
  { [wait |-> TRUE, out |-> <<"tablet", "tablet">>],
    [wait |-> TRUE, out |-> <<"KB/s", "Success", "text">>],
    [wait |-> TRUE, out |-> <<"text", "text", "MAC", "text">>],
    [wait |-> FALSE, out |-> <<"unable">>],
    [wait |-> TRUE, out |-> <<>>] }

MCHandles == 1 .. 5
=============================================================================
