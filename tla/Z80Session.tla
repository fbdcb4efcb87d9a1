----------------------------- MODULE Z80Session -----------------------------
(***************************************************************************)
(* Execution control, breakpoints, watchpoints, disk and settings of one   *)
(* z80 plugin instance (z80/src/plugin_z80.cpp) around the core of Z80Cpu. *)
(*                                                                         *)
(* The frontend makes its calls from one thread; emfe_step_over and        *)
(* emfe_step_out run the guest on it, emfe_run on a worker.  An            *)
(* instruction is one step.  The calls that do not test the state may come *)
(* between any two instructions of the worker.                             *)
(***************************************************************************)
EXTENDS Z80Cpu, Integers, FiniteSets

CONSTANTS
  BpAddr,        \* addresses at which the user edits breakpoints
  Watchpoints,   \* the watchpoints the user adds
  StepLimit,     \* k_stepOverLimit
  MaxPoints,     \* bound on the points of both kinds at a time
  Mounts,        \* images the host mounts by emfe_z80_mount_disk_image
  Edits          \* settings that the user makes

Watchpoint == [addr : Addr, size : {1, 2, 4}, kind : {"read", "write", "both"},
               enabled : BOOLEAN]

ASSUME Z80SessionAssumption ==
  /\ BpAddr \subseteq Addr
  /\ Watchpoints \subseteq {w \in Watchpoint : w.enabled}
  /\ StepLimit \in Nat \ {0} /\ MaxPoints \in Nat
  /\ Mounts \subseteq [image : Seq(Content), protect : BOOLEAN]
  /\ Edits \subseteq Settings

VARIABLES
  state, stopRequested,
  worker,              \* runThread: launched, in the loop, behind it, or without work
  host,                \* the call the frontend is in
  target, startSp, budget,   \* locals of emfe_step_over and emfe_step_out
  machine,
  enabledBreakpoints, disabledBreakpoints,
  watchpoints,
  staged               \* stagedSettings

runVars == <<state, stopRequested, worker>>
callVars == <<host, target, startSp, budget>>
bpVars == <<enabledBreakpoints, disabledBreakpoints>>
vars == <<runVars, callVars, machine, bpVars, watchpoints, staged>>

\* Where CPU and memory are after emfe_create or emfe_reset.
ResetCpu(g) ==
  [g EXCEPT !.pc = 0, !.sp = 0, !.stack = [k \in DOMAIN @ |-> 0], !.halted = FALSE, !.ok = FALSE,
     !.answer = "none", !.ram = [a \in Area |-> Zero], !.did = "disturbed"]

Init ==
  /\ state = "STOPPED" /\ stopRequested = FALSE /\ worker = "none"
  /\ host = "idle" /\ target = 0 /\ startSp = 0 /\ budget = 0
  /\ \E r \in Requests :
       machine = ResetCpu([pc |-> 0, sp |-> 0, stack |-> [k \in 0 .. (Slots - 1) |-> 0],
                           halted |-> FALSE, inStepMode |-> FALSE, ok |-> FALSE,
                           answer |-> "none", want |-> r, ram |-> <<>>,
                           disk |-> NewDevice, hit |-> FALSE, did |-> "nothing"])
  /\ enabledBreakpoints = {} /\ disabledBreakpoints = {} /\ watchpoints = {}
  /\ staged = Defaults
-----------------------------------------------------------------------------
(***************************************************************************)
(* One instruction.                                                        *)
(***************************************************************************)
\* The byte accesses of the instruction at a; PUSH, POP, CALL and RET go
\* through WriteWord and ReadWord, which test no watchpoint.
Reads(a, op) == {Ahead(a, k) : k \in 0 .. (Length(op) - 1)}
Writes(op) == IF op = "ask" THEN {CurSec} ELSE {}

Covers(w) == {a \in Addr : a >= w.addr /\ a < w.addr + w.size}

\* Mutant: a watchpoint covers its first byte only.
CheckWatchpointFirst(reads, writes) ==
  \E w \in watchpoints :
    /\ w.enabled
    /\ \/ w.kind # "write" /\ w.addr \in reads
       \/ w.kind # "read" /\ w.addr \in writes

CheckWatchpoint(reads, writes) ==
  \E w \in watchpoints :
    /\ w.enabled
    /\ \/ w.kind # "write" /\ Covers(w) \cap reads # {}
       \/ w.kind # "read" /\ Covers(w) \cap writes # {}

\* An instruction the core does not know fetches its opcode and rolls PC back.
Executed(g, i) ==
  LET hit == g.hit \/ CheckWatchpoint(Reads(g.pc, i.op), Writes(i.op))
      h == [g EXCEPT !.hit = hit]
  IN IF i.op = "trap" THEN {[ran |-> FALSE, after |-> h]}
     ELSE {[ran |-> TRUE, after |-> e] : e \in Effect([h EXCEPT !.pc = Ahead(@, Length(i.op))], i)}

\* Mutant: the flag outlives the instruction it is for.
ExecuteOneSticky(g) ==
  IF ~g.inStepMode /\ g.pc \in enabledBreakpoints THEN {[ran |-> FALSE, after |-> g]}
  ELSE IF g.halted THEN {[ran |-> TRUE, after |-> g]}
  ELSE UNION {Executed(g, i) : i \in Fetched(g)}

\* ran is FALSE when ExecuteOne returns 0 or -1.
ExecuteOne(g) ==
  LET h == [g EXCEPT !.inStepMode = FALSE] IN
  IF ~g.inStepMode /\ g.pc \in enabledBreakpoints THEN {[ran |-> FALSE, after |-> g]}
  ELSE IF h.halted THEN {[ran |-> TRUE, after |-> h]}
  ELSE UNION {Executed(h, i) : i \in Fetched(h)}

\* TakeWatchpointHit, which a loop that has broken off before does not reach.
Taken(o) == IF o.ran THEN [o.after EXCEPT !.hit = FALSE] ELSE o.after
-----------------------------------------------------------------------------
(***************************************************************************)
(* The calls that run the guest on the frontend's thread.                  *)
(***************************************************************************)
MayStep == host = "idle" /\ state # "RUNNING"

Step ==
  /\ MayStep
  /\ \E o \in ExecuteOne([machine EXCEPT !.inStepMode = TRUE]) :
       machine' = [o.after EXCEPT !.hit = FALSE]
  /\ UNCHANGED <<runVars, callVars, bpVars, watchpoints, staged>>

CallOpcodeLen(op) == IF op \in {"call", "callcc"} THEN 3 ELSE IF op = "rst" THEN 1 ELSE 0

\* The locals of a call: none outside it.
In(call, ret, sp, left) ==
  IF left = 0 THEN host' = "idle" /\ target' = 0 /\ startSp' = 0 /\ budget' = 0
  ELSE host' = call /\ target' = ret /\ startSp' = sp /\ budget' = left

\* The call itself; any other instruction is a step.
StepOver ==
  /\ MayStep
  /\ \E i \in Fetched(machine) :
       LET expectedRet == Ahead(machine.pc, CallOpcodeLen(i.op)) IN
       /\ CallOpcodeLen(i.op) # 0
       /\ \E o \in IF machine.halted THEN {[ran |-> TRUE, after |-> machine]}
                  ELSE Executed(machine, i) :
            /\ machine' = [o.after EXCEPT !.hit = FALSE]
            /\ In("over", expectedRet, machine.sp,
                  IF o.after.hit \/ o.after.pc = expectedRet THEN 0 ELSE StepLimit)
  /\ UNCHANGED <<runVars, bpVars, watchpoints, staged>>

StepOut ==
  /\ MayStep
  /\ In("out", 0, machine.sp, StepLimit)
  /\ machine' = [machine EXCEPT !.inStepMode = TRUE]
  /\ UNCHANGED <<runVars, bpVars, watchpoints, staged>>

\* The difference as a signed word.
SpRose(g) == (g.sp + Slots - startSp) % Slots \in 1 .. ((Slots - 1) \div 2)

Back(g) == IF host = "over" THEN g.pc = target ELSE SpRose(g)

\* Mutant: nothing bounds the loop.
DriveUnbounded ==
  /\ host \in {"over", "out"}
  /\ \E o \in ExecuteOne(machine) :
       /\ machine' = Taken(o)
       /\ In(host, target, startSp,
             IF ~o.ran \/ o.after.hit \/ Back(o.after) THEN 0 ELSE StepLimit)
  /\ UNCHANGED <<runVars, bpVars, watchpoints, staged>>

\* An iteration of the loop of emfe_step_over or emfe_step_out.
Drive ==
  /\ host \in {"over", "out"}
  /\ \E o \in ExecuteOne(machine) :
       /\ machine' = Taken(o)
       /\ In(host, target, startSp,
             IF ~o.ran \/ o.after.hit \/ Back(o.after) THEN 0 ELSE budget - 1)
  /\ UNCHANGED <<runVars, bpVars, watchpoints, staged>>
-----------------------------------------------------------------------------
(***************************************************************************)
(* The worker.                                                             *)
(***************************************************************************)
\* emfe_run waits for the last worker, which has nothing left to do.
Run ==
  /\ host = "idle" /\ state = "STOPPED"
  /\ state' = "RUNNING" /\ worker' = "start" /\ stopRequested' = FALSE
  /\ UNCHANGED <<callVars, machine, bpVars, watchpoints, staged>>

Looping == worker \in {"start", "run"}

\* Mutant: the loop asks only the guest.
WorkerExecuteDeaf ==
  /\ Looping
  /\ \E o \in ExecuteOne(machine) :
       /\ machine' = Taken(o)
       /\ worker' = IF ~o.ran \/ o.after.hit THEN "leave" ELSE "run"
  /\ UNCHANGED <<state, stopRequested, callVars, bpVars, watchpoints, staged>>

\* Mutant: the loop sets the flag of a step.
WorkerExecuteStepping ==
  /\ Looping
  /\ IF stopRequested
     THEN worker' = "leave" /\ UNCHANGED machine
     ELSE \E o \in ExecuteOne([machine EXCEPT !.inStepMode = TRUE]) :
            /\ machine' = Taken(o)
            /\ worker' = IF ~o.ran \/ o.after.hit THEN "leave" ELSE "run"
  /\ UNCHANGED <<state, stopRequested, callVars, bpVars, watchpoints, staged>>

\* A halted core goes on in the loop.
WorkerExecute ==
  /\ Looping
  /\ IF stopRequested
     THEN worker' = "leave" /\ UNCHANGED machine
     ELSE \E o \in ExecuteOne(machine) :
            /\ machine' = Taken(o)
            /\ worker' = IF ~o.ran \/ o.after.hit THEN "leave" ELSE "run"
  /\ UNCHANGED <<state, stopRequested, callVars, bpVars, watchpoints, staged>>

WorkerLeave ==
  /\ worker = "leave"
  /\ worker' = "none" /\ state' = "STOPPED"
  /\ UNCHANGED <<stopRequested, callVars, machine, bpVars, watchpoints, staged>>

\* emfe_stop up to the join, and emfe_destroy, after which nothing is called.
Stop ==
  /\ host = "idle"
  /\ stopRequested' = TRUE
  /\ host' = "stop"
  /\ UNCHANGED <<state, worker, target, startSp, budget, machine, bpVars, watchpoints,
                 staged>>

\* Mutant: the state is set without a join.
JoinedEarly ==
  /\ host = "stop"
  /\ host' = "idle"
  /\ state' = "STOPPED"
  /\ UNCHANGED <<stopRequested, worker, target, startSp, budget, machine, bpVars, watchpoints,
                 staged>>

Joined ==
  /\ host = "stop" /\ worker = "none"
  /\ host' = "idle"
  /\ state' = "STOPPED"
  /\ UNCHANGED <<stopRequested, worker, target, startSp, budget, machine, bpVars, watchpoints,
                 staged>>
-----------------------------------------------------------------------------
(***************************************************************************)
(* Calls that test no state.                                               *)
(***************************************************************************)
\* The settings are taken as they are staged, emfe_apply_settings or not.  Neither
\* the state nor WatchpointHit is looked at.
Reset ==
  /\ host = "idle"
  /\ LET g == ResetCpu(machine)
         disk == ApplyDiskImageOnReset(DeviceReset(g.disk), staged)
     IN machine' = [g EXCEPT !.disk = disk,
                             !.ram = ApplyBootFromDiskOnReset(disk, g.ram, staged)]
  /\ UNCHANGED <<runVars, callVars, bpVars, watchpoints, staged>>

SetSetting ==
  /\ host = "idle"
  /\ \E s \in Edits : staged' = s
  /\ UNCHANGED <<runVars, callVars, machine, bpVars, watchpoints>>

MountDiskImage ==
  /\ host = "idle"
  /\ \E x \in Mounts :
       machine' = [machine EXCEPT !.disk = SetImage(@, x.image, x.protect), !.did = "disturbed"]
  /\ UNCHANGED <<runVars, callVars, bpVars, watchpoints, staged>>

\* The host puts the program into RAM before it runs it.
PokeProgram ==
  /\ host = "idle"
  /\ machine' = [machine EXCEPT !.ram[0] = System]
  /\ UNCHANGED <<runVars, callVars, bpVars, watchpoints, staged>>

\* Mutant: a disabled breakpoint is enabled without leaving the other set.
EnableBreakpointKept(a, on) ==
  /\ a \in enabledBreakpoints \cup disabledBreakpoints
  /\ enabledBreakpoints' = IF on THEN enabledBreakpoints \cup {a} ELSE enabledBreakpoints
  /\ disabledBreakpoints' = IF on THEN disabledBreakpoints \ {a} ELSE disabledBreakpoints \cup {a}

EnableBreakpoint(a, on) ==
  /\ a \in enabledBreakpoints \cup disabledBreakpoints
  /\ enabledBreakpoints' = IF on THEN enabledBreakpoints \cup {a} ELSE enabledBreakpoints \ {a}
  /\ disabledBreakpoints' = IF on THEN disabledBreakpoints \ {a} ELSE disabledBreakpoints \cup {a}

\* The addresses with a point of either kind, and room for one at a.
Points == enabledBreakpoints \cup disabledBreakpoints \cup {w.addr : w \in watchpoints}
RoomFor(a) == Cardinality(Points \cup {a}) <= MaxPoints

EditBreakpoints ==
  /\ host = "idle"
  /\ \/ \E a \in BpAddr \ disabledBreakpoints :
          /\ RoomFor(a)
          /\ enabledBreakpoints' = enabledBreakpoints \cup {a}
          /\ UNCHANGED disabledBreakpoints
     \/ \E a \in BpAddr \cup {-1} :     \* emfe_remove_breakpoint, emfe_clear_breakpoints
          LET gone == IF a = -1 THEN BpAddr ELSE {a} IN
          /\ enabledBreakpoints' = enabledBreakpoints \ gone
          /\ disabledBreakpoints' = disabledBreakpoints \ gone
     \/ \E a \in BpAddr, on \in BOOLEAN : EnableBreakpoint(a, on)
  /\ UNCHANGED <<runVars, callVars, machine, watchpoints, staged>>

\* An address that has a watchpoint keeps it.
AddWatchpoint(w) ==
  watchpoints' = IF \E v \in watchpoints : v.addr = w.addr THEN watchpoints
                 ELSE watchpoints \cup {w}

EnableWatchpoint(w, on) == watchpoints' = (watchpoints \ {w}) \cup {[w EXCEPT !.enabled = on]}

EditWatchpoints ==
  /\ host = "idle"
  /\ \/ \E w \in Watchpoints : RoomFor(w.addr) /\ AddWatchpoint(w)
     \/ \E w \in watchpoints : watchpoints' = watchpoints \ {w}
     \/ \E w \in watchpoints, on \in BOOLEAN : EnableWatchpoint(w, on)
     \/ watchpoints' = {}
  /\ UNCHANGED <<runVars, callVars, machine, bpVars, staged>>

Next ==
  \/ Step \/ StepOver \/ StepOut \/ Drive
  \/ Run \/ WorkerExecute \/ WorkerLeave \/ Stop \/ Joined
  \/ Reset \/ SetSetting \/ MountDiskImage \/ PokeProgram \/ EditBreakpoints \/ EditWatchpoints

Spec == Init /\ [][Next]_vars

\* Both threads are scheduled; what the frontend calls next is its own affair.
FairSpec == Spec /\ WF_vars(WorkerExecute \/ WorkerLeave) /\ WF_vars(Drive \/ Joined)
-----------------------------------------------------------------------------
(***************************************************************************)
(* Properties.                                                             *)
(***************************************************************************)
\* Every variable keeps its type.
TypeOK ==
  /\ state \in {"STOPPED", "RUNNING"} /\ stopRequested \in BOOLEAN
  /\ worker \in {"none", "start", "run", "leave"}
  /\ host \in {"idle", "over", "out", "stop"}
  /\ target \in Addr /\ startSp \in 0 .. (Slots - 1) /\ budget \in 0 .. StepLimit
  /\ machine \in Machine
  /\ enabledBreakpoints \subseteq BpAddr /\ disabledBreakpoints \subseteq BpAddr
  /\ watchpoints \subseteq Watchpoint
  /\ staged \in Edits \cup {Defaults}

\* The state says RUNNING exactly while the worker may touch the machine; no
\* call drives the guest beside it.
OneDriver ==
  /\ state = "RUNNING" <=> worker # "none"
  /\ host \in {"over", "out"} => state = "STOPPED"

\* The flag that lets a step leave a breakpoint lasts for one instruction: it
\* is never left for a run, or for a later instruction of a step-out.
StepModeIsOneShot == machine.inStepMode => host = "out" /\ budget = StepLimit

\* The two sets and the vector are one table: no address is listed twice,
\* in whatever order points are added, disabled, enabled and removed.
OneEntryPerAddress ==
  /\ enabledBreakpoints \cap disabledBreakpoints = {}
  /\ \A v, w \in watchpoints : v.addr = w.addr => v = w

\* What holds of the instance between any two steps.
SessionInv == TypeOK /\ OneDriver /\ StepModeIsOneShot /\ OneEntryPerAddress

\* READ and WRITE of the CBIOS move the sector and the buffer that were asked
\* for, and return A = 0 only when they did, whenever the user stops, steps or
\* resets in between; a disk mounted in between resets the registers.
TransferIsTheOneAsked ==
  /\ machine.did # "astray"
  /\ machine.answer = "ok" => machine.did \in {"done", "disturbed"}

\* A = 1 means that the command failed: "A = 0 on success, A = 1 on hard error"
\* (cbios.asm:314).
ErrorIsTrue == machine.answer = "error" => machine.did \in {"failed", "disturbed"}

\* Unless the host mounts an image, or resets with a path among its settings, an
\* image changes only by the guest's WRITE, in the sector addressed, to what the
\* buffer holds, and never when it is protected.
ImageIsGuarded ==
  [][LET d == machine.disk  e == machine'.disk IN
     \/ e.image = d.image
     \/ MountDiskImage
     \/ Reset /\ staged.path # NoPath
     \/ /\ ~d.protected /\ Len(e.image) = Len(d.image)
        /\ e.image = [d.image EXCEPT ![Lba(d) + 1] = machine.ram[BufPtr(d)]]]_vars

\* Whatever runs the guest, worker or call, executes no instruction at an enabled
\* breakpoint after its first, with points edited at any moment.
BreakpointHonoured ==
  [][machine.pc \in enabledBreakpoints /\ machine'.pc # machine.pc
       => \/ host = "idle" /\ worker = "none"
          \/ worker = "start"
          \/ machine.inStepMode
          \/ Reset]_vars

\* A run executes its first instruction as a step would: "On resume, the frontend
\* calls `emfe_run` again, and the plugin must not immediately re-trigger the same
\* breakpoint" (plugin_developer_guide.md:346-348).
ResumeLeavesBreakpoint ==
  [][worker = "start" /\ worker' # "start" /\ ~stopRequested
       => \E o \in ExecuteOne([machine EXCEPT !.inStepMode = TRUE]) : machine' = Taken(o)]_vars

\* A step-over ends, unless a point, an unknown opcode or the limit ends it,
\* behind the call it started on with the stack as it was; a step-out ends
\* behind the call of the frame it started in.
Lands(g) == IF host = "over" THEN g.sp = startSp ELSE g.pc = machine.stack[startSp]
Ends == host \in {"over", "out"} /\ host' = "idle"

StepsLand == [][Ends /\ Back(machine') => Lands(machine')]_vars

\* The worker does not go on after an instruction that read or wrote a byte
\* that an enabled watchpoint covers.
WatchHonoured ==
  [][Looping /\ machine' # machine /\ ~machine.halted /\ host' = host
       /\ machine.ram[0] = System /\ machine.pc \in DOMAIN Code
       /\ (\E w \in watchpoints :
             /\ w.enabled
             /\ \/ w.kind # "write" /\ machine.pc \in Covers(w)
                \/ w.kind # "read" /\ Code[machine.pc].op = "ask" /\ CurSec \in Covers(w))
       => worker' = "leave" \/ Reset \/ MountDiskImage]_vars

\* Every call comes back: emfe_stop and emfe_destroy even from a halted guest
\* or an endless loop, emfe_step_over and emfe_step_out from a callee that
\* never returns.
CallsReturn == host # "idle" ~> host = "idle"
=============================================================================
