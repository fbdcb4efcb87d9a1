--------------------------- MODULE EmfeLifecycle ---------------------------
(***************************************************************************)
(* What the emfe API promises about execution state, whatever the plugin:  *)
(* EmfeState as api/emfe_plugin.h lists it, and who may change the CPU.    *)
(* The CPU is lent: to the host for the length of one emfe_step, to the    *)
(* worker from the moment it starts until it has decided to stop.  RUNNING *)
(* is published before the worker starts and withdrawn by the worker only. *)
(***************************************************************************)
CONSTANT Cpus

VARIABLES state, driver, cpu

lifeVars == <<state, driver, cpu>>

Resting == {"STOPPED", "HALTED"}
Drivers == {"nobody", "host", "launching", "worker", "reporting"}

Init == state = "STOPPED" /\ driver = "nobody" /\ cpu \in Cpus

AtRest == state \in Resting /\ driver = "nobody"

HostBorrows ==
  /\ AtRest
  /\ state' = "STEPPING" /\ driver' = "host" /\ UNCHANGED cpu

HostReturns ==
  /\ driver = "host"
  /\ state' \in Resting /\ driver' = "nobody" /\ cpu' \in Cpus

\* emfe_reset, emfe_set_registers, or the instruction emfe_run executes itself.
HostEdits ==
  /\ AtRest
  /\ state' \in Resting /\ cpu' \in Cpus /\ UNCHANGED driver

Launch ==
  /\ AtRest
  /\ state' = "RUNNING" /\ driver' = "launching" /\ UNCHANGED cpu

WorkerTakes ==
  /\ driver = "launching"
  /\ driver' = "worker" /\ UNCHANGED <<state, cpu>>

WorkerRuns ==
  /\ driver = "worker"
  /\ driver' \in {"worker", "reporting"} /\ cpu' \in Cpus /\ UNCHANGED state

WorkerReports ==
  /\ driver = "reporting"
  /\ state' \in Resting /\ driver' = "nobody" /\ UNCHANGED cpu

Next == \/ HostBorrows \/ HostReturns \/ HostEdits
        \/ Launch \/ WorkerTakes \/ WorkerRuns \/ WorkerReports

Spec == Init /\ [][Next]_lifeVars
=============================================================================
