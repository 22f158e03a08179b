------------------------------- MODULE CmdRsp -------------------------------
(***************************************************************************)
(* What the test program needs of the link to the device under test        *)
(* (command_response and its callers, main.c): one command at a time, each *)
(* executed by the device at most once and in order, and answered with the *)
(* response to that very command, or else the test fails.                  *)
(***************************************************************************)
EXTENDS Naturals

CONSTANT MaxCmds   \* bound: the number of commands a test issues

VARIABLES
  phase,     \* "idle", "busy" (a command is outstanding) or "failed"
  issued,    \* the number of the last command issued
  executed,  \* the number of the last command the device executed
  answered   \* the command whose response the test program accepted last

absVars == <<phase, issued, executed, answered>>

Init == phase = "idle" /\ issued = 0 /\ executed = 0 /\ answered = 0

Issue ==
  /\ phase = "idle" /\ issued < MaxCmds
  /\ phase' = "busy"
  /\ issued' = issued + 1
  /\ UNCHANGED <<executed, answered>>

\* The device may do so even after the test program has given up.
Execute ==
  /\ executed + 1 = issued
  /\ executed' = issued
  /\ UNCHANGED <<phase, issued, answered>>

Answer ==
  /\ phase = "busy" /\ executed = issued
  /\ phase' = "idle"
  /\ answered' = issued
  /\ UNCHANGED <<issued, executed>>

Fail ==
  /\ phase = "busy"
  /\ phase' = "failed"
  /\ UNCHANGED <<issued, executed, answered>>

Next == Issue \/ Execute \/ Answer \/ Fail

SafeSpec == Init /\ [][Next]_absVars

\* A command is never left outstanding.
Resolves == phase = "busy" ~> phase # "busy"
=============================================================================
