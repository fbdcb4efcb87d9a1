----------------------------- MODULE Em8Session -----------------------------
(***************************************************************************)
(* Execution control of one em8 plugin instance                            *)
(* (em8/src/plugin_em8.cpp): the frontend's UI thread, other threads that  *)
(* only call emfe_stop, and the worker thread that runs EmulationLoop.     *)
(*                                                                         *)
(* Variables carry the names of the EmfeInstanceData fields.  A thread's   *)
(* step is a stretch of code with at most one access to a field another    *)
(* thread may touch at that moment.                                        *)
(***************************************************************************)
EXTENDS Em8Guest, Integers

CONSTANTS
  Stoppers,      \* threads other than the UI's that call emfe_stop
  HostWaits,     \* what the frontend waits for before its next call, see HostReady
  DeviceLevels,  \* levels the devices' interrupt request can take
  BpAddr,        \* addresses at which the user edits breakpoints
  EntryPC        \* addresses the user writes into PC

ASSUME SessionAssumption ==
  /\ HostWaits \in {"state", "event", "stop"}
  /\ DeviceLevels \in {{FALSE}, BOOLEAN}
  /\ BpAddr \subseteq Addr
  /\ EntryPC \subseteq Addr

VARIABLES
  state,               \* EmfeState
  stopRequested,
  workerThread,        \* the std::thread: "empty" or "joinable"
  cpu,
  devIrq,              \* timer.HasPendingIrq() || uart.HasPendingIrq()
  breakpoints,         \* the user's table, one slot per address
  enabledBreakpoints,  \* the set the loop tests PC against
  stepOutTargetDepth,
  ui, call,            \* where the UI thread is, and inside which API call
  stopper,             \* where each other thread is in emfe_stop
  worker, job,         \* where the worker is, and the call that started it
  over,                \* what the step-over lambda captured
  notice,              \* the worker's pending (state, reason) notification
  seen,                \* the state the last callback reported
  fault                \* how the process died, if it did

hostVars  == <<ui, call>>
bpVars    == <<breakpoints, enabledBreakpoints>>
guestVars == <<cpu, devIrq>>
workerVars == <<worker, job, over, notice>>
vars == <<state, stopRequested, workerThread, cpu, devIrq, breakpoints,
          enabledBreakpoints, stepOutTargetDepth, ui, call, stopper, worker,
          job, over, notice, seen, fault>>

Resting == {"STOPPED", "HALTED"}
States  == Resting \cup {"RUNNING", "STEPPING"}
Launches == {"run", "over", "out"}     \* the calls that start a worker
Reasons == {"NONE", "USER", "BREAKPOINT", "STEP", "HALT"}

BpSlot == [present : BOOLEAN, enabled : BOOLEAN, conditional : BOOLEAN]
NoBreakpoint == [present |-> FALSE, enabled |-> FALSE, conditional |-> FALSE]
Notice == [state : Resting, reason : Reasons]
\* depth is not captured by the code: it remembers the frame of the call that
\* was stepped over, for StepOverReturns.
Over == [nextPC : Addr, hadBP : BOOLEAN, depth : Nat]
NoOver == [nextPC |-> ResetPC, hadBP |-> FALSE, depth |-> 0]
NoNotice == [state |-> "STOPPED", reason |-> "NONE"]

\* Worker phases inside the while loop of EmulationLoop, and after it.
Looping == {"test", "check", "execute", "unwind"}
Leaving == {"notify", "callback", "epilogue"}

Init ==
  /\ state = "STOPPED" /\ stopRequested = FALSE /\ workerThread = "empty"
  /\ cpu = ResetCpu /\ devIrq = FALSE
  /\ breakpoints = [a \in Addr |-> NoBreakpoint]
  /\ enabledBreakpoints = {} /\ stepOutTargetDepth = -1
  /\ ui = "idle" /\ call = "none"
  /\ stopper = [s \in Stoppers |-> "idle"]
  /\ worker = "none" /\ job = "none"
  /\ over = NoOver /\ notice = NoNotice
  /\ seen = "STOPPED" /\ fault = "none"
-----------------------------------------------------------------------------
(***************************************************************************)
(* One guest instruction: ExecuteOne, timer.Tick, UpdateIrqLine,           *)
(* CheckInterrupts.  The devices may raise or drop their request in it; a  *)
(* halted CPU executes nothing and ticks no cycle.                         *)
(***************************************************************************)
DeviceAfter == IF cpu.halted THEN {devIrq} ELSE DeviceLevels

Instruction ==
  \E c \in ExecuteOne(cpu), irq \in DeviceAfter :
    /\ devIrq' = irq
    /\ cpu' = CheckInterrupts([c EXCEPT !.irqLine = irq])

\* The instruction emfe_run executes by itself: it leaves IrqLine as it was.
InstructionBeforeRun ==
  \E c \in ExecuteOne(cpu), irq \in DeviceAfter :
    /\ devIrq' = irq
    /\ cpu' = CheckInterrupts(c)

\* NotifyStateChange on the UI thread: the store and the callback.
Notify(s) == state' = s /\ seen' = s
-----------------------------------------------------------------------------
(***************************************************************************)
(* What the frontend waits for.  "state": nothing but the plugin's own     *)
(* state check.  "event": the callback of the previous run, as the         *)
(* repository's tests do.  "stop": it calls emfe_stop after every run.     *)
(***************************************************************************)
HostReady ==
  /\ HostWaits = "event" => worker \notin Looping \cup {"notify", "callback"}
  /\ HostWaits = "stop" => workerThread = "empty"

HostFree == ui = "idle" /\ fault = "none"

\* Mutant: the call does not look at the state.
MayEnterAlways == HostFree /\ HostReady

MayEnter == HostFree /\ HostReady /\ state # "RUNNING"

Joining == {s \in Stoppers : stopper[s] = "joining"}
-----------------------------------------------------------------------------
(***************************************************************************)
(* Calls that finish on the UI thread.  A call made while RUNNING returns  *)
(* EMFE_ERR_STATE and changes nothing, so it is not an action.             *)
(***************************************************************************)
\* emfe_step, and emfe_step_over at an instruction that is not a JSR.
StepBegin ==
  /\ MayEnter
  /\ state' = "STEPPING" /\ ui' = "stepping"
  /\ UNCHANGED <<guestVars, bpVars, stopRequested, workerThread, call, stopper,
                 stepOutTargetDepth, workerVars, seen, fault>>

StepEnd ==
  /\ ui = "stepping" /\ fault = "none"
  /\ Instruction
  /\ Notify(IF cpu'.halted THEN "HALTED" ELSE "STOPPED")
  /\ ui' = "idle"
  /\ UNCHANGED <<bpVars, stopRequested, workerThread, call, stopper,
                 stepOutTargetDepth, workerVars, fault>>

\* Mutant: emfe_reset leaves the state as it was.
ResetKeepsState ==
  /\ MayEnter
  /\ cpu' = ResetCpu /\ devIrq' = FALSE
  /\ UNCHANGED <<hostVars, bpVars, state, seen, stopRequested, workerThread, stopper,
                 stepOutTargetDepth, workerVars, fault>>

\* cpu.Reset, uart.Reset and timer.Reset drop every request.
Reset ==
  /\ MayEnter
  /\ cpu' = ResetCpu /\ devIrq' = FALSE
  /\ Notify("STOPPED")
  /\ UNCHANGED <<hostVars, bpVars, stopRequested, workerThread, stopper,
                 stepOutTargetDepth, workerVars, fault>>

\* emfe_set_registers of PC and FL; A, X and Y are data, SP keeps its value.
WriteRegisters(allowed) ==
  /\ allowed
  /\ \E a \in EntryPC, i \in BOOLEAN : cpu' = [cpu EXCEPT !.pc = a, !.i = i]
  /\ UNCHANGED <<hostVars, bpVars, devIrq, state, stopRequested, workerThread,
                 stopper, stepOutTargetDepth, workerVars, seen, fault>>

\* Mutant: registers can be written whatever the state is.
SetRegistersUnchecked == WriteRegisters(HostFree)

SetRegisters == WriteRegisters(MayEnter)

\* emfe_send_char, or time passing in a device, raises the request.
InputArrives ==
  /\ fault = "none" /\ ui # "gone"
  /\ ~devIrq /\ devIrq' \in DeviceLevels \ {FALSE}
  /\ UNCHANGED <<hostVars, bpVars, cpu, state, stopRequested, workerThread, stopper,
                 stepOutTargetDepth, workerVars, seen, fault>>
-----------------------------------------------------------------------------
(***************************************************************************)
(* Breakpoint calls.  They have no state check; the developer guide keeps  *)
(* the frontend from making them while RUNNING.                            *)
(***************************************************************************)
EditBreakpoints(table, armed) ==
  /\ MayEnter
  /\ breakpoints' = table /\ enabledBreakpoints' = armed
  /\ UNCHANGED <<guestVars, hostVars, state, stopRequested, workerThread, stopper,
                 stepOutTargetDepth, workerVars, seen, fault>>

AddBreakpoint(a) ==
  EditBreakpoints([breakpoints EXCEPT ![a] = [present |-> TRUE, enabled |-> TRUE,
                                              conditional |-> FALSE]],
                  enabledBreakpoints \cup {a})

RemoveBreakpoint(a) ==
  EditBreakpoints([breakpoints EXCEPT ![a] = NoBreakpoint], enabledBreakpoints \ {a})

\* Mutant: enabling updates the table but not the armed set.
EnableBreakpointTableOnly(a, on) ==
  /\ breakpoints[a].present
  /\ EditBreakpoints([breakpoints EXCEPT ![a].enabled = on],
                     enabledBreakpoints \ (IF on THEN {} ELSE {a}))

EnableBreakpoint(a, on) ==
  /\ breakpoints[a].present
  /\ EditBreakpoints([breakpoints EXCEPT ![a].enabled = on],
                     IF on THEN enabledBreakpoints \cup {a}
                           ELSE enabledBreakpoints \ {a})

SetBreakpointCondition(a, has) ==
  /\ breakpoints[a].present
  /\ EditBreakpoints([breakpoints EXCEPT ![a].conditional = has], enabledBreakpoints)

ClearBreakpoints == EditBreakpoints([a \in Addr |-> NoBreakpoint], {})
-----------------------------------------------------------------------------
(***************************************************************************)
(* Calls that start or end a worker.  All of them first wait for the       *)
(* previous worker: "join" is the test of joinable(), "joining" the wait.  *)
(***************************************************************************)
Enter(c) == call' = c /\ ui' = "join"
Leave == call' = "none" /\ ui' = "idle"
Proceed(phase) == ui' = phase /\ UNCHANGED call

EnterLaunchAt(c, phase) ==
  /\ MayEnter /\ call' = c /\ ui' = phase
  /\ UNCHANGED <<guestVars, bpVars, state, stopRequested, workerThread, stopper,
                 stepOutTargetDepth, workerVars, seen, fault>>

EnterLaunch(c) == EnterLaunchAt(c, "join")

\* Mutant: emfe_run does not wait for the previous worker.
EnterRunNoJoin == EnterLaunchAt("run", "prepare")

EnterRun      == EnterLaunch("run")
EnterStepOver == Code[cpu.pc].op = "jsr" /\ EnterLaunch("over")
EnterStepOut  == cpu.shadow # <<>> /\ EnterLaunch("out")

EnterStop(c) ==
  /\ HostFree /\ Enter(c)
  /\ stopRequested' = TRUE
  /\ UNCHANGED <<guestVars, bpVars, state, workerThread, stopper,
                 stepOutTargetDepth, workerVars, seen, fault>>

\* Mutant: the instance is freed without joining.
DestroyNoJoin ==
  /\ HostFree /\ ui' = "gone"
  /\ stopRequested' = TRUE
  /\ UNCHANGED <<guestVars, bpVars, state, workerThread, call, stopper,
                 stepOutTargetDepth, workerVars, seen, fault>>

EnterDestroy == EnterStop("destroy")

AfterJoin == CASE call = "stop"      -> Leave
               [] call = "destroy"   -> Proceed("gone")
               [] call \in Launches  -> Proceed("prepare")

\* Mutant: joinable() is tested but join() is not called.
JoinTestNoWait ==
  /\ ui = "join" /\ fault = "none" /\ AfterJoin
  /\ UNCHANGED <<guestVars, bpVars, state, stopRequested, workerThread, stopper,
                 stepOutTargetDepth, workerVars, seen, fault>>

\* Two threads inside join() of one std::thread is undefined behaviour: the
\* second pthread_join fails and the exception leaves a C function.
JoinTest ==
  /\ ui = "join" /\ fault = "none"
  /\ \/ workerThread = "empty" /\ AfterJoin /\ UNCHANGED fault
     \/ workerThread = "joinable" /\ Joining = {} /\ Proceed("joining") /\ UNCHANGED fault
     \/ workerThread = "joinable" /\ Joining # {} /\ Proceed("join") /\ fault' = "doubleJoin"
  /\ UNCHANGED <<guestVars, bpVars, state, stopRequested, workerThread, stopper,
                 stepOutTargetDepth, workerVars, seen>>

JoinDone ==
  /\ ui = "joining" /\ worker = "exited" /\ fault = "none"
  /\ workerThread' = "empty" /\ worker' = "none" /\ AfterJoin
  /\ UNCHANGED <<guestVars, bpVars, state, stopRequested, stopper,
                 stepOutTargetDepth, job, over, notice, seen, fault>>

\* Mutant: the state changes but the frontend is not told.
HaltBeforeRunQuietly == state' = "HALTED" /\ Leave /\ UNCHANGED seen

HaltBeforeRun == Notify("HALTED") /\ Leave

\* emfe_run: with PC on a breakpoint, one instruction before the worker starts.
PrepareRun ==
  /\ ui = "prepare" /\ call = "run" /\ fault = "none"
  /\ IF cpu.pc \in enabledBreakpoints
     THEN /\ InstructionBeforeRun
          /\ IF cpu'.halted THEN HaltBeforeRun
                            ELSE UNCHANGED <<state, seen>> /\ Proceed("clear")
     ELSE UNCHANGED <<guestVars, state, seen>> /\ Proceed("clear")
  /\ UNCHANGED <<bpVars, stopRequested, workerThread, stopper,
                 stepOutTargetDepth, workerVars, fault>>

\* Mutant: a breakpoint the user already had there is taken for the temporary one.
HadBreakpointNever(a) == FALSE

HadBreakpoint(a) == a \in enabledBreakpoints

PrepareStepOver ==
  LET next == FallThrough(cpu.pc) IN
  /\ ui = "prepare" /\ call = "over" /\ fault = "none"
  /\ over' = [nextPC |-> next, hadBP |-> HadBreakpoint(next),
              depth |-> Len(cpu.shadow)]
  /\ enabledBreakpoints' = enabledBreakpoints \cup {next}
  /\ Proceed("clear")
  /\ UNCHANGED <<guestVars, breakpoints, state, stopRequested, workerThread, stopper,
                 stepOutTargetDepth, worker, job, notice, seen, fault>>

\* Mutant: one frame too far.
TargetDepthTooLow == Len(cpu.shadow) - 2

TargetDepth == Len(cpu.shadow) - 1

PrepareStepOut ==
  /\ ui = "prepare" /\ call = "out" /\ fault = "none"
  /\ stepOutTargetDepth' = TargetDepth
  /\ over' = [over EXCEPT !.nextPC = cpu.shadow[Len(cpu.shadow)]]
  /\ Proceed("clear")
  /\ UNCHANGED <<guestVars, bpVars, state, stopRequested, workerThread, stopper,
                 worker, job, notice, seen, fault>>

ClearStopRequest ==
  /\ ui = "clear" /\ fault = "none"
  /\ stopRequested' = FALSE /\ Proceed("mark")
  /\ UNCHANGED <<guestVars, bpVars, state, workerThread, stopper,
                 stepOutTargetDepth, workerVars, seen, fault>>

MarkRunning ==
  /\ ui = "mark" /\ fault = "none"
  /\ state' = "RUNNING" /\ Proceed("spawn")
  /\ UNCHANGED <<guestVars, bpVars, stopRequested, workerThread, stopper,
                 stepOutTargetDepth, workerVars, seen, fault>>

\* Assigning to a std::thread that is still joinable calls std::terminate.
Spawn ==
  /\ ui = "spawn" /\ fault = "none"
  /\ IF workerThread = "joinable"
     THEN fault' = "terminate" /\ UNCHANGED <<workerThread, worker, job, hostVars>>
     ELSE /\ workerThread' = "joinable" /\ worker' = "test" /\ job' = call
          /\ Leave /\ UNCHANGED fault
  /\ UNCHANGED <<guestVars, bpVars, state, stopRequested, stopper,
                 stepOutTargetDepth, over, notice, seen>>
-----------------------------------------------------------------------------
(***************************************************************************)
(* emfe_stop on a thread of its own.                                       *)
(***************************************************************************)
MoveStopper(s, from, to) ==
  /\ stopper[s] = from /\ fault = "none" /\ ui # "gone"
  /\ stopper' = [stopper EXCEPT ![s] = to]
  /\ UNCHANGED <<guestVars, bpVars, hostVars, state, stepOutTargetDepth, job, over,
                 notice, seen>>

StopperFlags(s) ==
  /\ MoveStopper(s, "idle", "join")
  /\ stopRequested' = TRUE
  /\ UNCHANGED <<workerThread, worker, fault>>

StopperTests(s) ==
  /\ \/ workerThread = "empty" /\ MoveStopper(s, "join", "idle") /\ UNCHANGED fault
     \/ /\ workerThread = "joinable" /\ Joining = {} /\ ui # "joining"
        /\ MoveStopper(s, "join", "joining") /\ UNCHANGED fault
     \/ /\ workerThread = "joinable" /\ (Joining # {} \/ ui = "joining")
        /\ MoveStopper(s, "join", "join") /\ fault' = "doubleJoin"
  /\ UNCHANGED <<workerThread, worker, stopRequested>>

StopperJoins(s) ==
  /\ worker = "exited" /\ MoveStopper(s, "joining", "idle")
  /\ workerThread' = "empty" /\ worker' = "none"
  /\ UNCHANGED <<stopRequested, fault>>
-----------------------------------------------------------------------------
(***************************************************************************)
(* EmulationLoop.                                                          *)
(***************************************************************************)
WorkerAt(phase) == worker = phase /\ fault = "none"

WorkerFrame == UNCHANGED <<hostVars, workerThread, stopRequested, stopper,
                           breakpoints, fault>>
LoopFrame == WorkerFrame /\ UNCHANGED <<enabledBreakpoints, state, job, over, seen>>

\* The loop decides to stop: the arguments of NotifyStateChange are evaluated.
Conclude(s, reason) == notice' = [state |-> s, reason |-> reason] /\ worker' = "notify"

Advance(phase) == worker' = phase /\ UNCHANGED notice

\* Mutant: the loop ends on a stop request without a notification.
LoopTestSilent ==
  /\ WorkerAt("test") /\ LoopFrame
  /\ Advance(IF stopRequested THEN "epilogue" ELSE "check")
  /\ UNCHANGED <<guestVars, stepOutTargetDepth>>

\* Mutant: the flag is read once, before the loop.
LoopTestDeaf ==
  /\ WorkerAt("test") /\ LoopFrame /\ Advance("check")
  /\ UNCHANGED <<guestVars, stepOutTargetDepth>>

LoopTest ==
  /\ WorkerAt("test") /\ LoopFrame
  /\ IF stopRequested THEN Conclude("STOPPED", "USER") ELSE Advance("check")
  /\ UNCHANGED <<guestVars, stepOutTargetDepth>>

\* A temporary breakpoint has no slot and always stops; a condition is free.
StopsAt(a) == a \in enabledBreakpoints /\ (~breakpoints[a].present \/ ~breakpoints[a].conditional)
MayStopAt(a) == a \in enabledBreakpoints /\ breakpoints[a].present /\ breakpoints[a].conditional

LoopCheck ==
  /\ WorkerAt("check") /\ LoopFrame
  /\ \/ (StopsAt(cpu.pc) \/ MayStopAt(cpu.pc)) /\ Conclude("STOPPED", "BREAKPOINT")
     \/ ~StopsAt(cpu.pc) /\ Advance("execute")
  /\ UNCHANGED <<guestVars, stepOutTargetDepth>>

LoopExecute ==
  /\ WorkerAt("execute") /\ LoopFrame
  /\ Instruction
  /\ IF cpu'.halted THEN Conclude("HALTED", "HALT") ELSE Advance("unwind")
  /\ UNCHANGED stepOutTargetDepth

LoopUnwind ==
  /\ WorkerAt("unwind") /\ LoopFrame
  /\ IF stepOutTargetDepth >= 0 /\ Len(cpu.shadow) <= stepOutTargetDepth
     THEN stepOutTargetDepth' = -1 /\ Conclude("STOPPED", "STEP")
     ELSE UNCHANGED stepOutTargetDepth /\ Advance("test")
  /\ UNCHANGED guestVars

\* NotifyStateChange: the store, then the callback.
PublishState ==
  /\ WorkerAt("notify") /\ WorkerFrame /\ Advance("callback")
  /\ state' = notice.state
  /\ UNCHANGED <<guestVars, enabledBreakpoints, stepOutTargetDepth, job, over, seen>>

RunCallback ==
  /\ WorkerAt("callback") /\ WorkerFrame /\ Advance("epilogue")
  /\ seen' = notice.state
  /\ UNCHANGED <<guestVars, enabledBreakpoints, stepOutTargetDepth, job, over, state>>

\* Mutants: the lambda leaves what the call set up.
ArmedStays == enabledBreakpoints
TargetStays == stepOutTargetDepth

ArmedAfter == IF job = "over" /\ ~over.hadBP
              THEN enabledBreakpoints \ {over.nextPC} ELSE enabledBreakpoints
TargetAfter == IF job = "out" THEN -1 ELSE stepOutTargetDepth

\* What the lambda of the launching call does after EmulationLoop returns; its
\* captures and locals end with it.
Epilogue ==
  /\ WorkerAt("epilogue") /\ WorkerFrame
  /\ worker' = "exited" /\ job' = "none" /\ over' = NoOver /\ notice' = NoNotice
  /\ enabledBreakpoints' = ArmedAfter /\ stepOutTargetDepth' = TargetAfter
  /\ UNCHANGED <<guestVars, state, seen>>
-----------------------------------------------------------------------------
BreakpointCall ==
  \/ ClearBreakpoints
  \/ \E a \in BpAddr :
       \/ AddBreakpoint(a)
       \/ RemoveBreakpoint(a)
       \/ \E b \in BOOLEAN : EnableBreakpoint(a, b) \/ SetBreakpointCondition(a, b)

HostBegins == \/ StepBegin \/ Reset \/ SetRegisters \/ BreakpointCall
              \/ EnterRun \/ EnterStepOver \/ EnterStepOut
              \/ EnterStop("stop") \/ EnterDestroy

HostContinues == \/ StepEnd \/ JoinTest \/ JoinDone
                 \/ PrepareRun \/ PrepareStepOver \/ PrepareStepOut
                 \/ ClearStopRequest \/ MarkRunning \/ Spawn

StopperContinues(s) == StopperTests(s) \/ StopperJoins(s)

Worker == \/ LoopTest \/ LoopCheck \/ LoopExecute \/ LoopUnwind
          \/ PublishState \/ RunCallback \/ Epilogue

Next == \/ HostBegins \/ HostContinues \/ InputArrives \/ Worker
        \/ \E s \in Stoppers : StopperFlags(s) \/ StopperContinues(s)

Spec == Init /\ [][Next]_vars

\* A started thread keeps running and a call that was made keeps executing; the
\* user need never make another call.
Fairness == /\ WF_vars(Worker) /\ WF_vars(HostContinues)
            /\ \A s \in Stoppers : WF_vars(StopperContinues(s))

FairSpec == Spec /\ Fairness
-----------------------------------------------------------------------------
(***************************************************************************)
(* The session implements the lifecycle every plugin promises.             *)
(***************************************************************************)
Driver == IF ui = "stepping" THEN "host"
          ELSE IF worker \in Looping THEN "worker"
          ELSE IF worker = "notify" THEN "reporting"
          ELSE IF ui = "spawn" THEN "launching" ELSE "nobody"

L == INSTANCE EmfeLifecycle WITH Cpus <- Cpu, driver <- Driver

\* States change only along the API's state machine, and the CPU only in the
\* hands of the thread it is lent to.
Lifecycle == L!Spec
-----------------------------------------------------------------------------
(***************************************************************************)
(* Properties.                                                             *)
(***************************************************************************)
\* Every field has its type; the shadow stack never outgrows its array.
TypeOK ==
  /\ state \in States /\ stopRequested \in BOOLEAN
  /\ workerThread \in {"empty", "joinable"}
  /\ cpu \in Cpu /\ Len(cpu.shadow) <= MaxShadowStack /\ Len(cpu.stack) <= StackSlots
  /\ devIrq \in BOOLEAN
  /\ breakpoints \in [Addr -> BpSlot] /\ enabledBreakpoints \subseteq Addr
  /\ stepOutTargetDepth \in -1 .. (MaxShadowStack - 1)
  /\ ui \in {"idle", "stepping", "join", "joining", "prepare", "clear", "mark",
             "spawn", "gone"}
  /\ call \in {"none", "stop", "destroy"} \cup Launches
  /\ stopper \in [Stoppers -> {"idle", "join", "joining"}]
  /\ worker \in {"none", "exited"} \cup Looping \cup Leaving
  /\ job \in {"none"} \cup Launches
  /\ over \in Over /\ notice \in Notice /\ seen \in Resting
  /\ fault \in {"none", "doubleJoin", "terminate"}

\* emfe_get_state tells the truth about the worker: RUNNING exactly from the
\* store in the launching call to the worker's own store when it stops.
RunningHasWorker ==
  state = "RUNNING" <=> (worker \in Looping \cup {"notify"} \/ ui = "spawn")

\* A launching call never assigns to a thread object that still owns a thread,
\* which would end the process in std::terminate.
NeverTerminates == fault # "terminate"

\* No two threads wait in join() for the same worker.
NeverJoinsTwice == fault # "doubleJoin"

\* The CPU has one driver: while the worker is in its loop nothing but the
\* worker's own instruction changes a register.
OneDriver ==
  [][(worker \in Looping /\ cpu' # cpu) => (worker = "execute" /\ worker' # worker)]_vars

\* A step-out depth never outlives the step-out that set it, so a later
\* emfe_run cannot stop at a return nobody asked about.
StepOutTargetOwned ==
  stepOutTargetDepth # -1 =>
    \/ call = "out" /\ ui \in {"clear", "mark", "spawn"}
    \/ job = "out" /\ worker \in Looping \cup Leaving

\* An armed address the user's table does not list as enabled is the temporary
\* breakpoint of the step-over in progress.
NoStrayBreakpoint ==
  \A a \in enabledBreakpoints :
    \/ breakpoints[a].present /\ breakpoints[a].enabled
    \/ /\ a = over.nextPC /\ ~over.hadBP
       /\ \/ call = "over" /\ ui \in {"clear", "mark", "spawn"}
          \/ job = "over" /\ worker \in Looping \cup Leaving

\* Every breakpoint emfe_get_breakpoints shows as enabled is armed.
UserBreakpointsArmed ==
  \A a \in Addr :
    breakpoints[a].present /\ breakpoints[a].enabled => a \in enabledBreakpoints

\* A worker never executes the instruction at an enabled breakpoint that has
\* no condition: it stops there first.
BreakpointHonoured ==
  worker = "execute" =>
    ~(breakpoints[cpu.pc].present /\ breakpoints[cpu.pc].enabled
      /\ ~breakpoints[cpu.pc].conditional)

\* HALTED is reported only for a CPU that has halted.
HaltedIsReal == state = "HALTED" => cpu.halted

\* When emfe_stop or the join in any other call returns on the UI thread, the
\* worker has gone and the machine no longer reports RUNNING.
StopMeansStopped ==
  [][(ui \in {"join", "joining"} /\ ui' \notin {"join", "joining"} /\ fault' = "none")
       => (state' # "RUNNING" /\ worker' \in {"none"})]_vars

\* emfe_destroy frees the instance only when no worker can touch it.
WorkerNeverOutlivesInstance == ui = "gone" => worker = "none"

\* The thread object owns a thread exactly while there is one to join.
HandleInv == workerThread = "empty" <=> worker = "none"

\* Where the UI thread is says what its call is, and that a launching call has
\* the worker slot to itself from its join to its spawn.
CallInv ==
  /\ state = "STEPPING" <=> ui = "stepping"
  /\ ui \in {"idle", "stepping"} => call = "none"
  /\ ui \in {"join", "joining"} => call # "none"
  /\ ui \in {"prepare", "clear", "mark", "spawn"} => call \in Launches /\ worker = "none"
  /\ call \in Launches /\ ui \in {"join", "joining", "prepare", "clear", "mark"}
       => state # "RUNNING"
  /\ call = "out" /\ ui \in {"join", "joining", "prepare"} => cpu.shadow # <<>>

\* Whoever waits in join() waits for a worker that exists, and waits alone.
JoinInv ==
  /\ ui = "joining" => worker # "none" /\ Joining = {}
  /\ \A s, t \in Joining : worker # "none" /\ s = t

\* A HALTED notification is under way only for a CPU that has halted.
NoticeInv == worker = "notify" /\ notice.state = "HALTED" => cpu.halted

\* The inductive invariant: what keeps the threads apart, with the properties
\* that rest on it.
SessionInv ==
  /\ TypeOK /\ HandleInv /\ RunningHasWorker /\ CallInv /\ JoinInv
  /\ NeverTerminates /\ WorkerNeverOutlivesInstance
  /\ StepOutTargetOwned /\ NoStrayBreakpoint /\ NoticeInv /\ HaltedIsReal

\* Between calls and with the worker's callback delivered, the state the
\* frontend was last told is the state the plugin is in.
LastCallbackIsState ==
  fault = "none" /\ ui = "idle" /\ worker \in {"none", "epilogue", "exited"} => seen = state

\* The guest keeps to its stacks, as a program that calls and returns does; what
\* the debugger shows of one that does not is the guest's own doing.
StructuredGuest == Structured(cpu)

\* The debugger's call stack lists the return addresses the guest's own stack
\* holds, in order, interrupts included.
ShadowFaithful == ListsCalls(cpu.shadow, cpu.stack)

\* A step-out stops at the return address of the frame it left, or at the
\* first instruction of the interrupt that was taken there.
StepOutLands ==
  worker = "notify" /\ job = "out" /\ notice.reason = "STEP" =>
    cpu.pc \in {over.nextPC, IrqPC}

\* A step-over stopped by its own temporary breakpoint is back in the frame
\* that made the call, whatever was called and interrupted on the way, if the
\* program has no recursion.
StepOverReturns ==
  worker = "notify" /\ job = "over" /\ notice.reason = "BREAKPOINT"
    /\ ~over.hadBP /\ cpu.pc = over.nextPC => Len(cpu.shadow) = over.depth

\* emfe_stop on the UI thread returns.
StopReturns == (call \in {"stop", "destroy"}) ~> (call = "none" \/ ui = "gone")

\* emfe_stop on a thread of its own returns: the run it interrupts ends.
StopperReturns ==
  \A s \in Stoppers :
    (stopper[s] # "idle") ~> (stopper[s] = "idle" \/ fault # "none" \/ ui = "gone")
=============================================================================
