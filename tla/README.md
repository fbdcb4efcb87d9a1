# Verification of the emfe plugins

TLA+ models, TLC configurations and TLAPS proofs for the guest-CPU plugins of
this repository.  Paths are relative to the repository root.

## 1. The system

Each plugin is a shared library behind one C ABI (`api/emfe_plugin.h`).  A
frontend creates an instance, loads a program, and drives it with calls; the
plugin answers with return codes and three callbacks.

| Component | State it keeps | Operations | Correct when |
|---|---|---|---|
| Execution lifecycle (ABI) | `EmfeState` | step, step-over, step-out, run, stop, reset, state callback | RUNNING is true exactly while a worker runs; the CPU has one driver at a time |
| em8 execution control (`plugin_em8.cpp`) | `state`, `stopRequested`, `workerThread`, `stepOutTargetDepth` | the calls above, `EmulationLoop` on a worker thread, the lambdas' cleanup | no worker outlives its instance, no thread is assigned over, nothing a call set up survives it, every call returns |
| em8 breakpoints | `breakpoints`, `enabledBreakpoints` | add, remove, enable, condition, clear; the step-over's temporary one | table and armed set agree; an enabled breakpoint stops the loop before the instruction |
| em8 CPU (`Em8Cpu.cpp`) | registers, `Halted`, `IrqLine`, shadow stack | `ExecuteOne`, `CheckInterrupts`, `Reset` | the shadow stack lists the frames of the guest's stack; flags are those of the arithmetic |
| em8 UART | receive ring, overrun, control | guest reads and writes, `ReceiveChar` | characters arrive once, in order, or the overrun says one was lost |
| em8 timer | counter, reload, overflow, control | `Tick`, reads, writes | the overflow comes when the period ends and stays until acknowledged |
| settings (em8, z8000) | staged, committed, applied values, the file | set, apply, reset, save, load | a setting that needs a reset changes with all the others; saved is what is loaded |
| z8000 CPU (`Z8000Cpu.cpp`) | FCW, two banks of R14/R15, shadow stack | exceptions, IRET, privileged instructions, interrupts | each mode has its own stack; normal mode is confined; handlers return where they came from |
| z8000 execution control (`plugin_z8000.cpp`) | the em8's, and the watchpoint table with the memory's two sets | the em8's, watchpoint calls | the sets follow the table; a watched access stops the run |
| z80 CPU, disassembler (`Z80Cpu.cpp`, `Z80Disasm.cpp`) | registers, `inStepMode`, breakpoints | `ExecuteOne`, five opcode tables | flags, DAA and lengths are right; listing and execution agree |
| z80 execution control (`plugin_z80.cpp`) | `state`, `stopRequested`, `runThread`, points, staged settings | step, step-over and step-out on the calling thread; run on a worker; reset, mount and edits at any moment | points are honoured, steps land, every call returns |
| z80 disk (`Z80DiskDevice.cpp`), CBIOS | LBA, buffer pointer, sticky error, image | byte-wide ports, READ, WRITE, NOP, mount, reset | the sector moved is the one asked for and the result is true |
| mc68030, mc6809, rv32ima | – | same ABI | not modelled, section 5 |

Components meet in three ways: calls of the UI thread into the instance; the
worker thread that shares every field of the instance with it; callbacks that
run on the worker thread.  Few fields are atomics (`state`, `stopRequested`,
`stepOutTargetDepth`, `WatchpointHit`); everything else relies on the calls'
state check and on joining the worker.

What is hard here: the em8 and z8000 publish the state *before* the worker
finishes, so the next call overlaps the previous worker's callback and cleanup;
`emfe_stop` may come from any thread; a launching call clears the flag
`emfe_stop` sets; the step-over's breakpoint and the step-out's depth are shared
with the loop and the user's breakpoints; interrupts move frames the shadow
stack does not record; the z80 lets reset, mount and edits through while it
runs.  `PROJECT.json` lists each hazard at its line.

## 2. Modules

### em8

* **Em8Guest** – the guest as a debugger sees it.  An address holds one
  instruction, known by what it does to PC, to the return frames of page 1, to
  the I flag and to the shadow stack; arithmetic is `plain`.  `ExecuteOne(c)` is
  the set of CPUs one call of `Em8Cpu::ExecuteOne` can leave (a branch may or
  may not be taken; a return from a frame of the wrong shape goes anywhere).
* **Em8Session** – execution control.  Its variables carry the names of the
  `EmfeInstanceData` fields.  `ui`/`call`, `stopper[s]` and `worker`/`job` are
  the threads' program counters.  A step is a stretch of code with at most one
  access to a field that another thread may touch at that moment:

  | Code | Actions |
  |---|---|
  | `emfe_step`, and `emfe_step_over` when not at a JSR | `StepBegin`, `StepEnd` |
  | `emfe_run` | `EnterRun`, `JoinTest`, `JoinDone`, `PrepareRun`, `ClearStopRequest`, `MarkRunning`, `Spawn` |
  | `emfe_step_over`, `emfe_step_out` | `EnterStepOver` / `EnterStepOut`, then `PrepareStepOver` / `PrepareStepOut` in the same sequence |
  | `emfe_stop`, `emfe_destroy` on the UI thread | `EnterStop`, `JoinTest`, `JoinDone` |
  | `emfe_stop` on another thread | `StopperFlags`, `StopperTests`, `StopperJoins` |
  | `EmulationLoop` | `LoopTest`, `LoopCheck`, `LoopExecute`, `LoopUnwind` |
  | `NotifyStateChange` on the worker | `PublishState`, `RunCallback` |
  | the launching call's lambda after the loop | `Epilogue` |
  | breakpoint calls, `emfe_reset`, `emfe_set_registers` | one action each |
  | `emfe_send_char`, time in a device | `InputArrives` |

  `fault` records the two ways the C++ runtime ends the process: assigning to a
  joinable `std::thread` and joining one thread twice.  `HostWaits` is the
  frontend's habit: `"state"` calls as soon as the plugin's own state check lets
  it (the weakest assumption), `"event"` waits for the callback as the tests in
  `z8000/tests/test_z8000.cpp` do, `"stop"` calls `emfe_stop` after every run as
  section 3.3 of the developer guide asks.
* **EmfeLifecycle** – the abstract specification: the state, and the driver to
  whom the CPU is lent.  `Em8Session` instantiates it with the refinement
  mapping `Driver`; `Lifecycle` is the resulting property.
* **MCEm8Session** – the guest programs for TLC.
* **EmfeFifo** – what a receive buffer promises: a bounded queue with an overrun
  flag.  **Em8Uart** – the ring that implements it, with the fields of
  `Em8Uart.h`; one action per method, since each holds the mutex.  `Queued` reads
  the ring as a sequence, `Fifo` is the abstract specification over it.
* **Em8Echo** – `Em8Uart` under the shipped echo program, the interrupt line and a
  user who types at any moment.  The worker takes an instruction in two steps
  (`Load`, `Echo`, ..., then `Poll`), because typing may fall between them;
  `Check` is the poll after the one instruction `emfe_run` executes by itself,
  which leaves the interrupt line alone.  `output` is what the console received,
  the bytes of each answer by themselves.
* **Em8Timer** – the timer's registers; `Ticked(t, n)` is the loop of
  `Em8Timer::Tick`.  **MCEm8Timer** drives it by any stores and instruction lengths,
  and remembers, as history, what was started and how many cycles ago.
  **Em8Blink** puts the shipped timer demo on it, with the offsets the demo stores to.
* **MCEm8Devices** – the board's devices under one of three guests: the echo program,
  any use of the UART's registers, any use of the timer's.

### Arithmetic and opcodes of the three cores

* **Arith** – words of w bits: wrapping, signed reading, parity, decimal digits.
* **Z80Alu**, **Z8000Alu**, **Em8Alu** – the ALU operations as functions of the
  operands and the set of flags that are on, returning a result and the flags:
  `AluAdd` ... `OpDaa`, rotates, RLD/RRD, word additions of the Z80; `DoAdd`,
  `DoSub`, logic and `TestCondition` of the Z8000; `DoAdd`, `DoSub`, `DoCmp`,
  shifts of the em8, whose C is *no borrow*.
* **Z80Decode**, **Z80Disasm**, **Em8Decode**, **Z8000Decode** – for each opcode
  the operation and the number of bytes, twice: as the core's switch has it
  (`...Executes`) and as the disassembler's has it (`...Lists`).
* **MCCores** – one step runs one operation (or two that belong together) on
  operands from `Edge`, `WideEdge` and `Packed`, and leaves in `last` what the
  core computed.  The properties compare it with integer arithmetic, or with
  another operation of the same core.  A line of the listing is taken with the length
  `emfe_step_over` skips there: the z80 plugin has a table of its own
  (`CallOpcodeLen`), the other two ask their disassembler.

### z8000

* **Z8000Cpu** – the control flow of the core: two modes with a stack each,
  `TakeException`, IRET, the privileged instructions, the shadow stack.  A word
  on a stack is a PC, an FCW or an identifier, and one read as what it is not may be
  anything (`AsPc`, `AsFcw`).
* **Z8000Session** – execution control around it, a call or an iteration of
  `EmulationLoop` at a time: the code is the em8's, whose finer interleavings
  `Em8Session` has.  What is new are the watchpoints: the user's table, the two
  sets of `Z8000Memory`, the hit that outlives the instruction.  `mixed` is
  history: from there on a RET or an IRET may take the wrong words, because IRET
  leaves an exception's identifier behind or an exception came from normal mode, be it
  right behind the instruction that entered it.  An exception writes a frame and reads
  its vector, so it may hit any watched address (`Touches`); a condition of a breakpoint
  or a watchpoint is true or false at will.
* **MCZ8000** – a guest, and the parts its addresses belong to (`GuestParts`), with a trap,
  a VI and an NVI handler, a subroutine with a conditional return that is called in both
  modes, and a program in normal mode that tries privileged instructions.
* **EmfeSettings** – the settings of the em8 and z8000 plugins: three values per
  key, the variant the processor was built from, the file written row by row, and
  `Restart`, a process that ends anywhere and starts again.  `saved` and `whole`
  are history.

### z80

* **Z80Disk** – the sector device and what `emfe_reset` makes of the disk
  settings.  RAM is a row of areas of one sector, which the buffer pointer numbers.
* **Z80Cpu** – calls, returns, jumps, HALT, unknown opcodes and the port accesses of the
  CBIOS, which are the instructions `lba`, `buf`, `command` and `status`.  `did` is
  history: what became of the request, `"disturbed"` once the host has reset the device.
* **Z80Session** – execution control.  Unlike the other plugins, step-over and
  step-out loop on the calling thread (`Drive`, one instruction per step), only
  `emfe_run` has a worker, and reset, mount, pokes and edits do not test the state:
  they may come between any two of the worker's instructions.  `worker` is `"start"` until
  its first turn: at an enabled breakpoint that turn executes nothing (`v_resume`).
* **MCZ80** – the CBIOS's SETUP_DISK, READ/WRITE and FINISH_DISK, instruction by
  instruction, called in a loop that an RST may leave to halt.

### Proofs

**Em8SessionProofs**, **Em8EchoProofs** (the UART and the console),
**Em8TimerProofs**, **Z8000Proofs**, **Z80Proofs**, **CoresProofs** (arithmetic and listings
of all three), **EmfeSettingsProofs**, and **SequenceFacts** for
stacks and queues: what `Front` leaves, and what moving a head does.

## 3. Runs

| Run | Instance | Shows |
|---|---|---|
| `session` | one call in a loop that may halt, host `"state"`, one breakpoint address, one stopping thread | type, truthful state, no orphaned depth or breakpoint, HALTED true, safe destroy, one driver, stop means stopped, the inductive invariant, refinement of the lifecycle |
| `session_host` | nested calls, interrupts at every instruction, host `"stop"`, two breakpoint addresses, fairness | no user breakpoint lost or run over; call stack equals the guest's frames; step-out lands on the return address, or on the handler taken there; step-over ends in its own frame; the last callback told the truth; stop and destroy return |
| `devices` | ring of 3, three characters, four typed between any two steps, breakpoints on setup and the handler's loads, fairness; bytes of 3 bits, instructions of 1 to 3 cycles | the ready bit is kept, the ring is the bounded queue; the console answers what was queued, in order, no spurious interrupt, every queued character is read; the timer's counter and overflow equal the closed form: a period is reload + 1 cycles |
| `cores` | 18 bytes, 12 words, 13 decimal bytes; every opcode | sums, differences, comparisons, word operations, DAA, rotations and logic are exact; what is listed is what is executed, and what a step-over skips is the call |
| `settings` | two keys, one of them deferred, three values | the hardware is the applied variant; deferred settings come together; a load gives back what was saved, after a crash never anything else |
| `z8000` | 15 instructions in two modes, traps, VI and NVI at any instruction, a breakpoint or a watchpoint, with or without a condition | banks follow the mode, returns pair, the call stack is the guest's, the tables agree, normal mode is confined, a watched access stops |
| `z80` | the CBIOS's transfers, READ and WRITE of two sectors, one of them missing, one point of either kind at a time, fairness | the transfer is the one asked for, images change only by WRITE, points are honoured, steps land, every call returns |
| `v_lost_stop` | endless loop, one stopping thread, fairness | `emfe_run` clears another thread's stop request, and `emfe_stop` hangs |
| `v_blink` | the shipped timer demo, with reload values of 3 bits a byte | its stores go astray, and it prints without end |
| `v_resume` | one breakpoint in the CBIOS | `emfe_run` at a breakpoint executes nothing |
| `v_mode` | the program of `z8000` | the FCW saved by an exception in normal mode says system mode |
| `v_disk` | one sector, images mounted write-protected and by a reset | after one refused command the CBIOS reports every transfer as failed |

The `v_` runs are disagreements with a document or a comment, quoted in
`PROJECT.json` under `findings`.

### Disagreements without a run

em8:

* the step-over's cleanup runs after the callback and disarms a breakpoint the
  user has set there meanwhile (`plugin_em8.cpp:780`; the developer guide, lines
  343-345, says the loop checks the table).  `session_host` checks
  `UserBreakpointsArmed` for a frontend that calls `emfe_stop` first;
* two threads in `emfe_stop` both find the thread joinable and both join it
  (`:846`; `emfe_plugin.h:368` allows the call from any thread).  The z80's
  `emfe_stop` does the same;
* with a breakpoint on a one-instruction idle loop, `emfe_run` executes that
  instruction by itself, without updating the interrupt line, and stops: pending
  input is never announced (`:822`; `em8_reference.md:259-260`).  The same stale
  line enters the echo handler twice for one character when breakpoints cover its
  RTI.  `PausesAt` keeps breakpoints away from both places in `devices`: its
  properties say nothing about this hazard;
* beside what `v_blink` shows, the manual sets the timer's flag one cycle earlier and
  swaps the mode bits (`em8_reference.md:351-371`);
* the step-over's temporary breakpoint is an address, so a recursive subroutine
  ends the step-over in a deeper activation (`ffi_reference.md:207`);
* a step-over or step-out started on a breakpoint stops there at once
  (`plugin_developer_guide.md:346` asks every resume to execute one instruction);
* `em8_reference.md`, sections 4 to 6, tabulates opcodes the core does not have;
  BRK's signature byte is listed as an instruction.

z8000:

* IRET leaves an exception's identifier word on the stack: `ReturnsPair` and
  `ShadowIsCalls` hold until then;
* a watchpoint replaced by one of another kind keeps the old entry in the other
  set and stops accesses that were not asked for; when one instruction touches two
  watched addresses only the last one's condition counts; the size is ignored
  (`ffi_reference.md:263`), and so is `emfe_enable_watchpoint`;
* a hit in `emfe_step`, in the first instruction of `emfe_run` or in an
  instruction that halts makes the next run stop at once;
* `emfe_load_settings` applies at once what otherwise waits for a reset, the
  variant included, without testing the state; without a file it leaves what is
  staged.

z80:

* mounting an image resets LBA and buffer pointer: a guest's transfer that is
  already prepared goes to sector 0 of the new image, and an error it has not read is
  gone.  `TransferIsTheOneAsked` excuses it as disturbed;
* `emfe_reset` takes the *staged* settings, applied or not;
* `emfe_step_over` ends at the first return to its address, deeper in a recursion
  too; `emfe_step_out` ends at any instruction that raises SP;
* neither reset nor an unknown opcode clears a watchpoint hit, which stops the
  next run; PUSH, POP, CALL and RET fire no watchpoint;
* behind a DD or FD without effect the core goes on with the suffix as an opcode of its
  own (`Z80Cpu.cpp:1354-1362` rewinds PC), while the disassembler lists both bytes as
  data (`Z80Disasm.cpp:323-327`) and goes on behind them: after DD C3 nn nn the listing is
  out of step with what is executed.  `ListedIsExecuted` excepts exactly these pairs
  (`OutOfStep`);
* LD SP,HL (F9) is executed and listed as data; HALT never ends the run loop; an
  empty path keeps the image mounted (`implementation_plan.md:114` says it unmounts).

**Bounds.**  The em8 programs have 3 to 10 instructions: enough for two nested
calls, a step-over whose target is a user breakpoint, a handler that calls and a
halt.  `StackSlots` and `MaxShadowStack` are 3 to 5, so that both overflow where
the program recurses or reads frames it did not push; in `session_host` (5 and 4) the
program always leaves room, and both are as deep as it gets.  One breakpoint address is
enough to collide with the step-over's; one stopping thread beside the UI's own
`emfe_stop` is enough for a double join.  A ring of 3 wraps, fills and
overflows within a few steps; `MaxTyped` is 4, one more than the ring.  `MaxRan` covers
two periods of every reload value stored, `MaxElapsed` three periods of the demo.

`MaxStack` 4 lets an exception interrupt a handler of another one inside a
subroutine, and the NVI handler call that subroutine again; once the words on a stack are
`mixed`, `MaxMixed` 3 bounds it.  `MaxPoints` 1 allows one breakpoint or one watchpoint
at a time in `z8000` as in `z80`: the two kinds share no field, and this is what bounds the
state space.  In `z80` bytes have two values, so that an LBA has three digits to
mix up and sectors beyond the image; `StepLimit` 7 ends a step-over of READ or
WRITE (8 instructions and more) before and of SETUP_DISK (6 instructions) after it returns;
`Slots` 4 lets SP wrap.  `Edge` and `WideEdge` hold the values on
both sides of every carry, half carry and sign change; decoding is checked for every
byte.  `cores` leaves out the opcodes section 3 lists as disagreements (F9, BRK),
and the z8000 words the manual does not define.

**Deadlock** is checked for the devices, the cores and the settings.  In the sessions
it is not: a destroyed instance, a dead process and a guest at its bound stop; nor in
`v_blink`, whose count ends.

**Fairness.**  `Em8Session`: weak fairness of the worker, of a UI call that has
begun, and of each `emfe_stop` that has set its flag.  `Z8000Session`: of the
worker.  `Z80Session`: of the worker, and of a call that has begun.  A running
thread is scheduled; the user need never make another call.  Strong fairness is
not assumed.  `MCEm8Devices` assumes weak fairness of the echo program's worker: it is
RUNNING, and the user resumes it at a breakpoint.

## 4. Proofs

For every program, every size of memory and stacks, any set of stopping threads
and any `HostWaits`, from `GuestAssumption` and `SessionAssumption` only:

* `SessionSafe`: `Spec => []SessionInv`.  The properties of the runs are not
  inductive alone.  A step-out depth is cleaned up because the worker that owns
  it is joined before another launch; that needs `HandleInv` (the handle is
  joinable exactly while a worker exists), `CallInv` (from its join to its spawn
  a launching call has the worker slot to itself, and the state is not RUNNING)
  and `JoinInv` (whoever waits in `join()` waits alone, for a worker that
  exists).  `ThreadsStep` proves that part from the threads' positions alone;
  `TypeStep`, `TargetStep`, `ArmedStep` and `HaltedStep` add one property each.
* From it: `TypeCorrect`, `StateIsTruthful`, `LaunchIsSafe`,
  `StepOutTargetIsOwned`, `TemporaryBreakpointIsOwned`, `HaltedIsTrue`,
  `DestroyIsSafe`, and the action properties `CpuHasOneDriver`, `StopIsFinal`.
* `ImplementsLifecycle`: `Spec => Lifecycle`, one step per action.

Six more theorems of `Em8SessionProofs` need a hypothesis, which the code leaves
to someone else:

* `CallbackIsTruthful`, for `HostWaits` "event" or "stop": a step's own callback
  and the worker's cannot cross only when the frontend waits for the latter.
  `SeenInv` names the moments at which a callback is still due.
* `UsersBreakpointsAreArmed` and `BreakpointsAreHonoured`, for `HostWaits` "stop"
  (section 3, first disagreement, is what happens otherwise).  The cleanup disarms
  only what is still its own: `TemporaryIsNotUsers` says that the address a step-over
  must clean up carries no breakpoint the user enabled, until the join.  `TestedInv` is
  the loop's test, remembered until the instruction.
* `ShadowIsFaithful` and `StepOutReturnsToCaller`, while the guest is `Structured`:
  it returns with the instruction that fits the frame on top, and neither stack is full
  when something is pushed.  A guest that pulls its own return address, or nests more
  calls than the shadow stack holds, loses both properties in the code too.  The
  program of `session_host` is structured at any interrupt (TLC finds no violation of
  `StructuredGuest` when the configuration lists it as an invariant).  `ListsCalls` has a
  position in the stack for each entry of the shadow stack; the lemmas
  `ListsPushedCall`, `ListsPushedInterrupt`, `ListsPoppedCall` and
  `ListsPoppedInterrupt` move it.  `StepOutInv` ties the frame the step-out asked
  about to the depth the loop compares with.
* `StepOverReturnsToFrame`, for a structured guest and under two more hypotheses.
  `NotReentered`: the guest never stands behind a call that a deeper frame has yet to
  return from; where it does, the address alone cannot tell the frames apart and the code
  stops in the wrong one.  `PlainReturn`: there is no conditional breakpoint behind the
  call, not even a disabled one; the loop asks its condition in place of stopping, and the
  step-over may run on.  `StepOverInv`: until the worker stops, the guest is at the call
  (`AtCall`), owes the return to the armed address in the frame that asked
  (`Outstanding`), or has just come back (`Back`); `OutstandingPushed`,
  `PushedIsOutstanding` and `OutstandingPopped` follow a debt through the stack.  The
  program of `session_host` is never re-entered, as TLC finds.

The first part of `Em8SessionProofs` gives what the steps need of the guest: an instruction
leaves a well-formed CPU with both stacks inside their arrays, a halted CPU halted, and a
return that is owed owed or made.

`Em8EchoProofs`, for every size of the ring and from `UartAssumption` only:
`UartTypeCorrect`, `ReadyBitIsKept` from the inductive invariant that adds
`rxHead = (rxTail + rxCount) % FIFO_SIZE` to the types, and `ImplementsFifo`.
`SlotAfter` removes the remainder from an index, after which the steps are linear
arithmetic; `RingAppend` and `RingTail` say what a store at the head and a read at
the tail do to the ring read as a sequence.

In the same module, for every size of the ring, every set of characters and any typing, for a
user who does not pause at the handler's RTI (section 3 says what happens there):

* `HandlerFindsInput`: `GuestInv` says where the guest is when interrupts are off, and
  that the line, when it can be taken, is the one just computed from the ring.
* `ConsoleIsFaithful`: `EchoInv` splits the accepted characters into those answered and
  those in the ring, which `Queued` reads; it uses the lemmas on the ring as a sequence.

`Em8TimerProofs`, for registers of every width, instructions of any length and from
`TimerAssumption` and `StoredAssumption`:

* `PeriodIsExact`: `Counts` is what a timer shows r cycles after its start.  `Ticked` is a
  recursive function of the cycles of an instruction, and the induction theorems of the
  library cannot be used, so `EveryNat` is induction as the well-foundedness of < on Nat
  gives it: a set that holds 0 and every successor has no least exception.  `TurnedExists`
  shows with it that the function exists and `TickedAlong` that a tick leads along any
  sequence of sets that each `Cycle` leads along; `CycleCounts` is the one cycle.

`Z8000Proofs`, for every program, program status area (with handlers in system mode,
`Z8000Assumption`), device levels and point addresses:

* `SessionSafe`: `Spec => []SessionInv`, in four parts.  `CpuInv`: the processor is in
  `SoundCpu`, the well-formed ones whose bank is that of the mode and which halt in
  system mode only; one lemma per operation (`TakeExceptionType`,
  `InterruptReturnType`, ...) shows that it maps sound processors to sound ones,
  `ExecuteOneType` and `AfterType` put them together.  `ArmedInv` adds that a temporary
  breakpoint exists only while RUNNING and is not one of the user's.  `WatchInv`: the
  memory's sets follow the table.  `RestInv` is the rest of the types.
* `Confinement`: the same lemmas carry what an operation may change from normal
  mode (`Confined`, `Entered`).
* `ShadowIsCallStack`: while the returns pair (`ReturnsPair`) and the call stack has room (`RoomForCalls`; beyond it the
  code drops calls and later pops others').  The invariant is `TidyInv`: until a trap, a
  VI or an interrupt of a normal mode program, the normal stack is empty in system mode,
  so that both stacks have one top, and a position map takes each entry of the call
  stack to its return address.  `PushedReturn`, `PushedFrame`, `PoppedReturn` and
  `PoppedFrame` say what an operation makes of the return addresses, `ExecuteTidy` goes
  through the instructions, and `ExceptionMarks` shows that a trap or VI leaves the
  identifier `Mixes` looks for.
* `ReturnsTakeTheirWords`: `ReturnsPair`, for every program that is written in parts.
  Some programs return through the wrong words by themselves, so the theorem asks how the
  program is written, and nothing about a run: `Disciplined(part)` maps each address to
  `"main"`, `"user"`, `"sub"` or `"handler"` so that instructions stay in their part,
  calls go to a subroutine and exceptions to a handler, RET is in subroutines and IRET in
  handlers only.  `MCZ8000` assumes it of its program, and TLC evaluates the assumption.
  The invariant `PairedInv` reads the parts off the stack: each word returns into
  the part that the words below it belong to (`Linked`).  The attempt showed that `mixed`
  had missed an interrupt taken in the step that enters normal mode.
* `CallStackOfParts`: `ShadowIsCalls` for such a program, with room as the only hypothesis.
* `WatchedAccessStops`: the last access of an instruction to a watched address is the
  hit the loop sees (`LastPlace`, `TouchedType`), and `WatchInv` makes its entry that of
  the table.

`Z80Proofs`, for every program and address space, every size of stack and images, and
from the three named assumptions:

* `SessionSafe`.  `SessionInv` is inductive once a call that drives the guest is known
  to have instructions left (`IInv`); without that, the flag of a step-out's first
  instruction could be left behind.
* `ImageGuarded`, `BreakpointStops`, `WatchedAccessStops`: `ExecuteOneType` says all that
  an instruction may do to the flags, the device and the watchpoint hit, from one lemma
  per operation of the core (`EffectType`) and of the device (`CommandType`); then one step per action.
  `BufPtrType` is the arithmetic that keeps a two-byte buffer pointer inside memory.
* `CbiosTransfers`, for the program of `MCZ80` (`CbiosGuest`: its routines send a read or
  a write and lie where no address wraps, and the stack holds their two calls), with any
  requests, images and sizes.  `Annotated` says what holds at each of the program's
  addresses – which digits of the request are in the registers, whose return address is
  on top, when an answer is out – and `Faithful` that it holds unless a reset or a mount
  came between.  `TextFaithful` has one case per address, `DigitsOf` shows that the
  digits make up the number asked for, and `FaithfulStep` goes through the actions.
  `ErrorIsTrue`, the other half of the promise, does not hold (`v_disk`).
* `StepsComeBack`, `Spec => StepsLand` for the same program on a stack of four words or
  more, from any state and whatever is on the stack.  The loops wait for an address or for
  SP to rise; `LandInv` says where the guest is meanwhile: how many words below its start
  SP is (`Deep`), which routine runs, and where that one returns to (`BackTo`), so that the
  first return that could end the call is its own frame's.  A step-over knows the call
  it began with, so also that the buffer pointer is the request's (`Prepared`) and READ
  cannot overwrite the program under it; a step-out starts anywhere and follows only the
  calls made since.  `InsideStep` and `AnyStep` have the guest's instructions, `OverStep`
  and `OutStep` what each does to `LandInv`.  `RiseOf` compares SP as the code does, as a
  signed difference: with three words a second call would look like a rise.

`CoresProofs`, for any operands out of all bytes, all words and all packed decimal bytes
(the run has those at the edges): `EveryResultIsExact`, `Spec => []ResultsAreExact`.

* Sums and differences: `OneTurn` takes the remainder out of a word that is off by one turn
  at most, after which `ExactAdd` and `ExactSub` compare carry, half carry and both
  tests of signed overflow with the integers, once for 8 and 16 bits (`WidthFacts`).
  `FlagsOrder` reads an order off the flags of a difference: the comparisons of three
  cores, with the em8's inverted borrow and the ten condition codes of the Z8000.
* ADC, SBC and ADD of HL: `CarryOver` and `BorrowOver` take a carry from the low byte to
  the high one.  Rotations: `ThereAndBack`.
* DAA: `AdjustedSum` and `AdjustedDifference` move the carries of the binary digits to
  the decimal ones, and `Spelled` puts two digits into a byte.
* Logic and parity: `ValueHasOnes` and `ByteIsValue` make bytes and sets of bits the same
  thing; then AND, OR and XOR are operations on sets (`ValuesAddUp`), and the parity of an
  exclusive or is a matter of counting (`ParitiesDiffer`).
* `ListingIsTrue`, `Spec => []ListedIsExecuted`.  Every opcode is also one of the run's, so
  the theorem adds no instance: it shows why core and listing agree.  They cut the opcodes
  in different ways, and each case of one is matched with those of the other: `PlainLines`,
  `CbLines`, `DdLines` and `EdLines` by the parts of a Z80 opcode (`Split`), `Em8Lines` by
  operation and operand bytes (`Matches`), `Z8000Words` by the two rounds of the core.
  `PlainSkips` and `Z80Skips` compare the z80 plugin's table of calls with both.

`EmfeSettingsProofs`, for every set of settings and values: `Inv` adds to the types what the
file holds while a save is on its way – every row is as saved or torn, the rows not yet
written are missing, and `whole` means that all are there (`FileInv`).  From it
`SettingsTyped`, `HardwareMatches` and `LoadAfterSave`; `DeferredSettings` needs only
the actions.

Only model-checked: liveness (`InputIsConsumed`, `StopReturns`, `CallsReturn`), which the
prover cannot do.  `StructuredGuest` and `NotReentered` are hypotheses about the guest.

## 5. What the models leave out

Data: register contents other than PC and the flags that control, operand texts of
the listings, condition expressions (free choices), messages, the console.  SP is
written only by the guest: register edits are not modelled for the z8000 and the
z80, and the em8's `emfe_set_registers` writes back the value it read.  The guest's
bytes of 256 values are 8 in the timer's runs and 2 in the disk's, which only scales words.
The UART's unlocked read of `m_rxCount` in `HasPendingIrq` is one atomic read.
Calls from inside a callback.  Breakpoint edits while the em8 or z8000 is RUNNING,
which the guide forbids and the code does not check.  After `emfe_destroy` no
other call is in progress or made.  `std::thread`'s constructor does not fail.
Memory ordering: each access to an atomic is one step.  NMI, and the z80's
interrupts: nothing in the plugins raises them.

z80: one frontend thread; an instruction is one step, so the data races of the calls
that test no state are taken between two of them; the CBIOS's READ and WRITE are
one routine that sends the command wanted; images are whole sectors; `emfe_run`'s
join of a worker that has stored STOPPED is part of `Run`.  Settings: values have no
quotes or line breaks in them, which the file's format does not escape; a save that
has begun ends before the next call.

Not modelled at all: **mc68030** (the core is an empty git submodule, and most of the
plugin forwards to it), **mc6809** (a wrapper of an external Rust crate),
**rv32ima** (design notes), the em8's memory and watchpoint table (which nothing
reads), the z8000's and z80's UART and timer (the em8's with other addresses), the loaders
and the listing of address ranges, the BDOS, installer and CI.

## 6. Plan

Done: the em8 with its devices, proved; the settings, proved; the z8000's and the z80's
sessions, proved, in part from named hypotheses about the guest; the z80's disk and the
CBIOS's transfers, proved; the three instruction sets.

Left, in this order: a lifecycle that the z80 implements too (it does not implement
`EmfeLifecycle`: a reset or a mount changes the machine under the worker); calls from
inside a callback; the loaders' ranges.
