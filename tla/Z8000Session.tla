---------------------------- MODULE Z8000Session ----------------------------
(***************************************************************************)
(* Execution control, breakpoints and watchpoints of one z8000 plugin      *)
(* instance (z8000/src/plugin_z8000.cpp) around the core of Z8000Cpu.      *)
(*                                                                         *)
(* A call of the frontend and an iteration of EmulationLoop are steps:     *)
(* the finer interleavings of the UI thread and the worker are those of    *)
(* Em8Session, whose code this plugin shares.  The frontend edits the      *)
(* tables only when the plugin does not run.                               *)
(***************************************************************************)
EXTENDS Z8000Cpu, Integers, FiniteSets

CONSTANTS
  BpAddr, WatchAddr,   \* addresses at which the user edits each kind of point
  ViLevels, NviLevels, \* levels the UART's and the timer's request can take
  MaxStack,            \* bound: no instruction starts with more words on a stack,
  MaxMixed,            \* or with more than these once the stacks no longer pair
  MaxPoints            \* bound on the addresses with a point of either kind

ASSUME Z8000SessionAssumption ==
  /\ BpAddr \subseteq Addr /\ WatchAddr \subseteq Addr
  /\ ViLevels \subseteq BOOLEAN /\ ViLevels # {}
  /\ NviLevels \subseteq BOOLEAN /\ NviLevels # {}
  /\ MaxStack \in Nat /\ MaxMixed \in Nat /\ MaxPoints \in Nat

VARIABLES
  state, stopRequested,
  stopping,              \* the UI thread is inside emfe_stop
  cpu,
  breakpoints, enabledBreakpoints,
  conditions,            \* addresses whose entry in breakpoints has a condition
  temporary,             \* what a step-over's worker erases when it ends
  stepOutTargetDepth,
  watchpoints,           \* the user's table
  readSet, writeSet,     \* the two sets of Z8000Memory
  hit,                   \* WatchpointHit and WatchpointHitAddress
  mixed                  \* the guest's stacks no longer pair, see Mixes

runVars == <<state, stopRequested, stopping, temporary, stepOutTargetDepth>>
bpVars == <<breakpoints, enabledBreakpoints, conditions>>
watchVars == <<watchpoints, readSet, writeSet>>
guestVars == <<cpu, hit, mixed>>
vars == <<runVars, bpVars, watchVars, guestVars>>

NoAddr == -1
Slots == {"none", "off", "on"}
Kinds == {"none", "read", "write", "both"}
WatchSlot == [kind : Kinds, conditional : BOOLEAN]
NoWatch == [kind |-> "none", conditional |-> FALSE]

Init ==
  /\ state = "STOPPED" /\ stopRequested = FALSE /\ stopping = FALSE
  /\ cpu = ResetCpu
  /\ breakpoints = [a \in BpAddr |-> "none"] /\ enabledBreakpoints = {} /\ conditions = {}
  /\ temporary = NoAddr /\ stepOutTargetDepth = -1
  /\ watchpoints = [a \in WatchAddr |-> NoWatch] /\ readSet = {} /\ writeSet = {}
  /\ hit = NoAddr /\ mixed = FALSE
-----------------------------------------------------------------------------
(***************************************************************************)
(* One instruction: ExecuteOne, timer.Tick, UpdateIrqLines,                *)
(* CheckInterrupts.                                                        *)
(***************************************************************************)
Levels == [vi : ViLevels, nvi : NviLevels]
Lines(c) == {[c EXCEPT !.viLine = l.vi, !.nviLine = l.nvi] : l \in Levels}

\* The instruction of emfe_run asks nothing of the devices' lines.
After(c, updateLines) ==
  {CheckInterrupts(d) : d \in UNION {IF updateLines THEN Lines(e) ELSE {e} : e \in ExecuteOne(c)}}

Watched(x) == x.addr \in IF x.kind = "read" THEN readSet ELSE writeSet

\* The watched accesses of the instruction at PC.
Hits == {i \in DOMAIN Code[cpu.pc].touch : ~cpu.halted /\ Watched(Code[cpu.pc].touch[i])}
LastHit == CHOOSE i \in Hits : \A j \in Hits : j <= i

\* Mutant: the hit is put down to the instruction.
TouchedPc == IF Hits = {} THEN hit ELSE cpu.pc

Touched == IF Hits = {} THEN hit ELSE Code[cpu.pc].touch[LastHit].addr

\* An exception may push to, or read its vector from, a watched address too.
Excepted(d) == \E v \in Vectors : d.pc = Psa[v].pc /\ d.fcw = Psa[v].fcw
Touches(d) == {Touched} \cup (IF Excepted(d) THEN readSet \cup writeSet ELSE {})

\* From here on a RET or an IRET may take the wrong words: IRET leaves an
\* exception's identifier behind, and comes back from normal mode in system mode,
\* also when the instruction before the interrupt was the one that left system mode.
Mixes(c, d) ==
  \/ Identifier \in ToSet(d.stack["system"])
  \/ d.fcw.sn /\ (~c.fcw.sn \/ \E e \in ExecuteOne(c) : ~e.fcw.sn)

Room == \A b \in Banks : Len(cpu.stack[b]) <= IF mixed THEN MaxMixed ELSE MaxStack

Instruction(updateLines) ==
  /\ Room
  /\ cpu' \in After(cpu, updateLines)
  /\ hit' \in Touches(cpu')
  /\ mixed' = (mixed \/ Mixes(cpu, cpu'))
-----------------------------------------------------------------------------
(***************************************************************************)
(* The frontend's calls.  Those made while RUNNING return EMFE_ERR_STATE.  *)
(***************************************************************************)
MayEnter == state # "RUNNING" /\ ~stopping

Step ==
  /\ MayEnter
  /\ Instruction(TRUE)
  /\ state' = IF cpu'.halted THEN "HALTED" ELSE "STOPPED"
  /\ UNCHANGED <<stopRequested, stopping, temporary, stepOutTargetDepth, bpVars, watchVars>>

Launch ==
  /\ MayEnter
  /\ state' = "RUNNING" /\ stopRequested' = FALSE
  /\ UNCHANGED <<stopping, watchVars, breakpoints, conditions>>

\* Mutant: a breakpoint that is there already is taken for a temporary one.
StepOverForgetful ==
  /\ Launch
  /\ Code[cpu.pc].op = "call"
  /\ temporary' = NextPc(cpu.pc)
  /\ enabledBreakpoints' = enabledBreakpoints \cup {NextPc(cpu.pc)}
  /\ UNCHANGED <<stepOutTargetDepth, guestVars>>

\* emfe_step_over on a CALL or a CALR; anything else is a step.
StepOver ==
  /\ Launch
  /\ Code[cpu.pc].op = "call"
  /\ LET next == NextPc(cpu.pc) IN
       /\ temporary' = IF next \in enabledBreakpoints THEN NoAddr ELSE next
       /\ enabledBreakpoints' = enabledBreakpoints \cup {next}
  /\ UNCHANGED <<stepOutTargetDepth, guestVars>>

StepOut ==
  /\ Launch
  /\ cpu.shadow # <<>>
  /\ stepOutTargetDepth' = Len(cpu.shadow) - 1
  /\ UNCHANGED <<temporary, enabledBreakpoints, guestVars>>

\* emfe_run executes the instruction it stands on when there is a breakpoint.
RunFromBreakpoint ==
  /\ MayEnter
  /\ cpu.pc \in enabledBreakpoints
  /\ Instruction(FALSE)
  /\ state' = IF cpu'.halted THEN "HALTED" ELSE "RUNNING"
  /\ stopRequested' = IF cpu'.halted THEN stopRequested ELSE FALSE
  /\ UNCHANGED <<stopping, temporary, stepOutTargetDepth, bpVars, watchVars>>

Run ==
  /\ Launch
  /\ cpu.pc \notin enabledBreakpoints
  /\ UNCHANGED <<temporary, stepOutTargetDepth, enabledBreakpoints, guestVars>>

Stop ==
  /\ ~stopping
  /\ stopRequested' = TRUE
  /\ stopping' = (state = "RUNNING")
  /\ UNCHANGED <<state, temporary, stepOutTargetDepth, bpVars, watchVars, guestVars>>

Joined ==
  /\ stopping /\ state # "RUNNING"
  /\ stopping' = FALSE
  /\ UNCHANGED <<state, stopRequested, temporary, stepOutTargetDepth, bpVars, watchVars, guestVars>>

\* The lines fall with the devices' reset; WatchpointHit is not looked at.
Reset ==
  /\ MayEnter
  /\ cpu' = ResetCpu /\ state' = "STOPPED" /\ mixed' = FALSE
  /\ UNCHANGED <<stopRequested, stopping, temporary, stepOutTargetDepth, bpVars, watchVars, hit>>
-----------------------------------------------------------------------------
(***************************************************************************)
(* Breakpoints and watchpoints.                                            *)
(***************************************************************************)
Points == {a \in BpAddr : breakpoints[a] # "none"}
            \cup {a \in WatchAddr : watchpoints[a].kind # "none"}
RoomFor(a) == Cardinality(Points \cup {a}) <= MaxPoints

SetBreakpoint(a, slot) ==
  /\ breakpoints' = [breakpoints EXCEPT ![a] = slot]
  /\ enabledBreakpoints' = IF slot = "on" THEN enabledBreakpoints \cup {a}
                           ELSE enabledBreakpoints \ {a}

SetBreakpointCondition(a, conditional) ==
  /\ breakpoints[a] # "none"
  /\ conditions' = IF conditional THEN conditions \cup {a} ELSE conditions \ {a}
  /\ UNCHANGED <<breakpoints, enabledBreakpoints>>

EditBreakpoints ==
  /\ MayEnter
  /\ \/ \E a \in BpAddr, slot \in {"on", "none"} :
          /\ slot = "on" => RoomFor(a)
          /\ SetBreakpoint(a, slot) /\ conditions' = conditions \ {a}
     \/ \E a \in BpAddr, slot \in {"on", "off"} :
          breakpoints[a] # "none" /\ SetBreakpoint(a, slot) /\ UNCHANGED conditions
     \/ \E a \in BpAddr, conditional \in BOOLEAN : SetBreakpointCondition(a, conditional)
     \/ /\ breakpoints' = [a \in BpAddr |-> "none"]
        /\ enabledBreakpoints' = {} /\ conditions' = {}
  /\ UNCHANGED <<runVars, guestVars, watchVars>>

\* Mutant: a kind fills the set of its own name only.
AddWatchpointExact(a, kind) ==
  /\ watchpoints' = [watchpoints EXCEPT ![a] = [kind |-> kind, conditional |-> FALSE]]
  /\ readSet' = IF kind = "read" THEN readSet \cup {a} ELSE readSet
  /\ writeSet' = IF kind = "write" THEN writeSet \cup {a} ELSE writeSet

\* An address that had another kind keeps its old entry in the other set.
AddWatchpoint(a, kind) ==
  /\ watchpoints' = [watchpoints EXCEPT ![a] = [kind |-> kind, conditional |-> FALSE]]
  /\ readSet' = IF kind \in {"read", "both"} THEN readSet \cup {a} ELSE readSet
  /\ writeSet' = IF kind \in {"write", "both"} THEN writeSet \cup {a} ELSE writeSet

\* Mutant: the set for writes is forgotten.
RemoveWatchpointReads(a) ==
  /\ watchpoints' = [watchpoints EXCEPT ![a] = NoWatch]
  /\ readSet' = readSet \ {a}
  /\ UNCHANGED writeSet

RemoveWatchpoint(a) ==
  /\ watchpoints' = [watchpoints EXCEPT ![a] = NoWatch]
  /\ readSet' = readSet \ {a} /\ writeSet' = writeSet \ {a}

SetWatchpointCondition(a, conditional) ==
  /\ watchpoints[a].kind # "none"
  /\ watchpoints' = [watchpoints EXCEPT ![a].conditional = conditional]
  /\ UNCHANGED <<readSet, writeSet>>

\* emfe_enable_watchpoint only writes a field that nothing reads.
EditWatchpoints ==
  /\ MayEnter
  /\ \/ \E a \in WatchAddr, kind \in Kinds \ {"none"} : RoomFor(a) /\ AddWatchpoint(a, kind)
     \/ \E a \in WatchAddr : RemoveWatchpoint(a)
     \/ \E a \in WatchAddr, conditional \in BOOLEAN : SetWatchpointCondition(a, conditional)
     \/ /\ watchpoints' = [a \in WatchAddr |-> NoWatch]
        /\ readSet' = {} /\ writeSet' = {}
  /\ UNCHANGED <<runVars, guestVars, bpVars>>
-----------------------------------------------------------------------------
(***************************************************************************)
(* EmulationLoop, and what each launch's lambda does after it.             *)
(***************************************************************************)
Leave(s) ==
  /\ state' = s
  /\ temporary' = NoAddr /\ stepOutTargetDepth' = -1
  /\ enabledBreakpoints' = enabledBreakpoints \ {temporary}
  /\ UNCHANGED <<breakpoints, conditions>>

GoOn == state' = "RUNNING" /\ UNCHANGED <<temporary, stepOutTargetDepth, bpVars>>

LoopStop ==
  /\ state = "RUNNING"
  /\ stopRequested \/ cpu.pc \in enabledBreakpoints
  /\ Leave("STOPPED")
  /\ UNCHANGED <<stopRequested, stopping, watchVars, guestVars>>

\* The last address hit decides, and its condition may be false.
MayStop(a) == IF a = NoAddr THEN {FALSE}
              ELSE IF watchpoints[a].conditional THEN BOOLEAN ELSE {TRUE}

Unwound(d) == stepOutTargetDepth >= 0 /\ Len(d.shadow) <= stepOutTargetDepth

\* One iteration: the instruction, unless a breakpoint holds it, whose condition may
\* be false, and the three reasons to leave after it.
LoopExecute ==
  /\ state = "RUNNING" /\ ~stopRequested
  /\ cpu.pc \notin enabledBreakpoints \/ cpu.pc \in conditions
  /\ Room
  /\ \E d \in After(cpu, TRUE) : \E touched \in Touches(d) : \E stops \in MayStop(touched) :
       /\ cpu' = d /\ mixed' = (mixed \/ Mixes(cpu, d))
       /\ hit' = IF d.halted THEN touched ELSE NoAddr
       /\ IF d.halted THEN Leave("HALTED")
          ELSE IF stops \/ Unwound(d) THEN Leave("STOPPED")
          ELSE GoOn
  /\ UNCHANGED <<stopRequested, stopping, watchVars>>

Next ==
  \/ Step \/ StepOver \/ StepOut \/ Run \/ RunFromBreakpoint \/ Stop \/ Joined \/ Reset
  \/ EditBreakpoints \/ EditWatchpoints
  \/ LoopStop \/ LoopExecute

Spec == Init /\ [][Next]_vars

\* The worker thread is scheduled.
FairSpec == Spec /\ WF_vars(LoopStop \/ LoopExecute)
-----------------------------------------------------------------------------
(***************************************************************************)
(* Properties.                                                             *)
(***************************************************************************)
\* Every variable keeps its type.
TypeOK ==
  /\ state \in {"STOPPED", "HALTED", "RUNNING"}
  /\ stopRequested \in BOOLEAN /\ stopping \in BOOLEAN
  /\ cpu \in Cpu
  /\ breakpoints \in [BpAddr -> Slots] /\ enabledBreakpoints \subseteq Addr
  /\ conditions \subseteq BpAddr
  /\ temporary \in Addr \cup {NoAddr}
  /\ stepOutTargetDepth \in Nat \cup {-1}
  /\ watchpoints \in [WatchAddr -> WatchSlot]
  /\ readSet \subseteq WatchAddr /\ writeSet \subseteq WatchAddr
  /\ hit \in WatchAddr \cup {NoAddr}
  /\ mixed \in BOOLEAN

\* Whatever sequence of exceptions and IRETs the guest goes through, R14/R15
\* hold the system stack in system mode and the normal stack in normal mode:
\* TakeException and Exec_IRET swap the banks exactly when the mode changes.
BankFollowsMode == cpu.bank = "system" <=> cpu.fcw.sn

\* While the guest's stacks pair, every RET takes a return address and every
\* IRET an FCW and a PC, however calls, handlers and resets interleave.
ReturnsPair ==
  LET op == Code[cpu.pc].op IN
  ~mixed /\ ~cpu.halted =>
    /\ op \in {"ret", "retcc"} => Top(cpu).is = "pc"
    /\ op = "iret" /\ cpu.fcw.sn => Top(cpu).is = "fcw" /\ Top(Pop(cpu)).is = "pc"

\* What a piece of the program is written as.  A subroutine may run in either mode.
Parts == {"main", "user", "sub", "handler"}

\* The instruction at a may be followed by the one behind it: a "user" program runs in
\* normal mode only, where a privileged instruction traps.
FallsThrough(part, a) ==
  \/ Code[a].op \in {"plain", "branch", "call", "retcc"}
  \/ Code[a].op \in {"ei", "di", "io", "halt"} /\ part[a] # "user"

\* The program is one that an assembly programmer would call well formed: control
\* stays in its part but for CALL and "enter", subroutines end in RET, and the timer's
\* handler in IRET.  The handlers of traps and of the UART are not asked to.
Disciplined(part) ==
  /\ part[ResetVector.pc] = "main" /\ part[Psa["nvi"].pc] = "handler"
  /\ \A a \in Addr :
       LET ins == Code[a] IN
       /\ FallsThrough(part, a) => part[NextPc(a)] = part[a]
       /\ ins.op = "branch" => part[ins.target] = part[a]
       /\ ins.op = "call" => part[ins.target] = "sub"
       /\ ins.op = "enter" => part[ins.target] = "user"
       /\ ins.op \in {"ret", "retcc"} => part[a] = "sub"
       /\ ins.op = "iret" => part[a] \in {"handler", "user"}

\* The return addresses on a stack: the PCs that no FCW covers.
Returns(words) ==
  {n \in DOMAIN words : words[n].is = "pc" /\ (n < Len(words) => words[n + 1].is # "fcw")}

\* Both stacks, with the one that is used last on top.
Words(c) == c.stack["system"] \o c.stack["normal"]

\* The debugger's call stack is those return addresses, all of them and in order.
ListsReturns(shadow, words) ==
  \E pos \in [1 .. Len(shadow) -> Returns(words)] :
    /\ \A j, k \in 1 .. Len(shadow) : j < k => pos[j] < pos[k]
    /\ \A n \in Returns(words) : \E k \in 1 .. Len(shadow) : pos[k] = n
    /\ \A k \in 1 .. Len(shadow) : words[pos[k]].pc = shadow[k]

\* While the guest's stacks pair, the debugger's call stack is the return
\* addresses on them: exceptions and IRETs pass it by.
ShadowIsCalls == ~mixed => ListsReturns(cpu.shadow, Words(cpu))

\* The guest does not nest more calls than the debugger's call stack has room for.
RoomForCalls ==
  ~mixed /\ ~cpu.halted /\ Code[cpu.pc].op = "call" => Len(cpu.shadow) < MaxShadowStack

\* The set the loop tests is what the user enabled, plus the address of the
\* step-over in progress; nothing of a finished step-over stays.
ArmedIsTable ==
  enabledBreakpoints =
    {a \in BpAddr : breakpoints[a] = "on"} \cup ({temporary} \ {NoAddr})

\* What the memory tests follows the user's table: an address that is not in
\* it is in neither set, and one that is stops at least the accesses asked for.
WatchSetsFollowTable ==
  \A a \in WatchAddr :
    LET kind == watchpoints[a].kind IN
    /\ kind = "none" => a \notin readSet \cup writeSet
    /\ kind \in {"read", "both"} => a \in readSet
    /\ kind \in {"write", "both"} => a \in writeSet

\* What holds of the instance between any two steps: types, the bank of the
\* mode, and both tables with the sets that the loop and the memory test.
SessionInv == TypeOK /\ BankFollowsMode /\ ArmedIsTable /\ WatchSetsFollowTable

\* A program in normal mode cannot stop the processor, change its mode or its
\* interrupt enables, or write the system stack: it leaves normal mode only
\* through an exception, into a handler with that handler's FCW.
NormalIsConfined ==
  [][~cpu.fcw.sn =>
       \/ /\ cpu'.fcw = cpu.fcw /\ ~cpu'.halted
          /\ cpu'.stack["system"] = cpu.stack["system"]
       \/ \E v \in Vectors : cpu'.fcw = Psa[v].fcw /\ cpu'.pc = Psa[v].pc
       \/ cpu' = ResetCpu]_vars

\* A worker that runs an instruction which touches a watched address stops
\* right after it, unless a condition had a say.
WatchHonoured ==
  [][LoopExecute /\ ~cpu.halted =>
       LET touch == Code[cpu.pc].touch
           asks(x) == x.addr \in WatchAddr /\ watchpoints[x.addr].kind \in {x.kind, "both"}
       IN (\E i \in DOMAIN touch : asks(touch[i]))
            /\ (\A a \in WatchAddr : ~watchpoints[a].conditional)
          => state' # "RUNNING"]_vars

\* An exception saves the mode it interrupts, for IRET to "swap back"
\* (Z8000Cpu.cpp:539).
ModeSaved ==
  [][~cpu.fcw.sn /\ cpu'.fcw.sn /\ cpu' # ResetCpu
       => FcwWord(cpu.fcw) \in ToSet(cpu'.stack["system"])]_vars
=============================================================================
