---------------------------- MODULE MCEm8Devices ----------------------------
(***************************************************************************)
(* The devices of the em8 board, under one of three guests: the echo       *)
(* program, a guest that works the UART's registers in any order, and one  *)
(* that works the timer's.  A guest leaves the device it does not work as  *)
(* it is after reset: a timer that nobody has enabled does not count.      *)
(***************************************************************************)
EXTENDS Em8Echo, MCEm8Timer

VARIABLE guest

DevicesInit ==
  /\ Init /\ StartedInit
  /\ guest \in {"echo", "uart", "timer"}

DevicesNext ==
  /\ \/ guest = "echo" /\ Next /\ UNCHANGED timerVars
     \/ guest = "uart" /\ UartNext /\ UNCHANGED <<echoVars, timerVars>>
     \/ guest = "timer" /\ TimerNext /\ UNCHANGED vars
  /\ UNCHANGED guest

\* The worker that runs the echo program keeps running, and a user who has set
\* breakpoints resumes it; nobody need type or reset, and no other guest need run.
EchoRuns == guest = "echo" /\ Guest /\ UNCHANGED <<timerVars, guest>>

DevicesSpec ==
  /\ DevicesInit /\ [][DevicesNext]_<<vars, timerVars, guest>>
  /\ WF_<<vars, timerVars, guest>>(EchoRuns)
-----------------------------------------------------------------------------
\* Every character queued for the echo program is read: no interrupt is lost,
\* whenever the character was typed.
InputIsConsumed == (guest = "echo" /\ rxCount > 0) ~> (rxCount = 0)
=============================================================================
