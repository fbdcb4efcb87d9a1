------------------------------- MODULE Em8Echo -------------------------------
(***************************************************************************)
(* A character's way through em8: typed on the UI thread, queued by the    *)
(* UART, announced by the interrupt line, read by the handler of the echo  *)
(* program (em8/examples/echo/gen_echo.py) and sent back.                  *)
(*                                                                         *)
(* The worker takes an instruction in two steps, because typing can fall   *)
(* between them: the instruction itself, then UpdateIrqLine with           *)
(* CheckInterrupts.  Instructions that touch neither the UART nor I are    *)
(* left out.                                                               *)
(***************************************************************************)
EXTENDS Em8Uart, SequencesExt

CONSTANTS
  CR,         \* the carriage return, answered by a line end and a prompt
  PausesAt,   \* instructions that carry a breakpoint
  MaxTyped    \* bound on the characters queued between two resets

Program == {"sei", "enable", "cli", "idle", "load", "echo", "rti"}

ASSUME EchoAssumption == CR \in Char /\ PausesAt \subseteq Program

VARIABLES
  pc, iFlag, saved,   \* the guest; saved is the interrupt frame's PC
  irqLine,
  phase,              \* the worker: "execute", then "poll", or "check" without UpdateIrqLine
  pending,            \* what the handler still has to write for the character it read
  output,             \* what the console received: the bytes sent for each character read
  accepted            \* the characters queued since the reset

guestVars == <<pc, iFlag, saved, irqLine, phase>>
echoVars == <<pc, iFlag, saved, irqLine, phase, pending, output, accepted>>
vars == <<rxFifo, rxHead, rxTail, rxCount, rxOverrun, cr, dr, sr,
          pc, iFlag, saved, irqLine, phase, pending, output, accepted>>

Reply(c) == IF c = CR THEN <<CR, "LF", ">", " ">> ELSE <<c>>

GuestInit ==
  /\ pc = "sei" /\ iFlag = TRUE /\ saved = "sei" /\ irqLine = FALSE
  /\ phase = "execute" /\ pending = <<>> /\ output = <<>> /\ accepted = <<>>

Init == UartInit /\ GuestInit

\* emfe_send_char: any time, whatever the worker does.
Type(c) ==
  /\ Len(accepted) < MaxTyped
  /\ ReceiveChar(c)
  /\ accepted' = IF rxCount < FIFO_SIZE THEN Append(accepted, c) ELSE accepted
  /\ UNCHANGED <<guestVars, pending, output>>

At(instruction) == phase = "execute" /\ pc = instruction

\* The loop polls the devices after each instruction; emfe_run does not after
\* the one it executes by itself, at a breakpoint.
AfterInstruction == phase' = "poll" \/ (pc \in PausesAt /\ phase' = "check")

GoOn(next) == AfterInstruction /\ pc' = next /\ UNCHANGED <<saved, irqLine, accepted>>

Sei == /\ At("sei") /\ GoOn("enable") /\ iFlag' = TRUE
       /\ UNCHANGED <<uartVars, pending, output>>

Enable == /\ At("enable") /\ GoOn("cli")
          /\ WriteControl([rxIrq |-> TRUE, txIrq |-> FALSE])
          /\ UNCHANGED <<iFlag, pending, output>>

Cli == /\ At("cli") /\ GoOn("idle") /\ iFlag' = FALSE
       /\ UNCHANGED <<uartVars, pending, output>>

Idle == At("idle") /\ GoOn("idle") /\ UNCHANGED <<uartVars, iFlag, pending, output>>

\* LDA UART_DATA in the handler.
Load == /\ At("load") /\ GoOn("echo")
        /\ ReadData /\ pending' = Reply(dr') /\ output' = Append(output, <<>>)
        /\ UNCHANGED iFlag

\* STA UART_DATA: TxCallback, then the console callback.
Echo == /\ At("echo") /\ GoOn(IF Len(pending) > 1 THEN "echo" ELSE "rti")
        /\ output' = [output EXCEPT ![Len(output)] = Append(@, Head(pending))]
        /\ pending' = Tail(pending)
        /\ UNCHANGED <<uartVars, iFlag>>

\* The frame holds a clear I flag: it was pushed by an interrupt.
Rti == /\ At("rti") /\ GoOn(saved) /\ iFlag' = FALSE
       /\ UNCHANGED <<uartVars, pending, output>>

CheckInterrupts ==
  IF irqLine' /\ ~iFlag THEN saved' = pc /\ pc' = "load" /\ iFlag' = TRUE
                        ELSE UNCHANGED <<saved, pc, iFlag>>

\* Mutant: the line, once raised, stays up.
PollLatched ==
  /\ phase = "poll" /\ phase' = "execute"
  /\ irqLine' = (irqLine \/ HasPendingIrq)
  /\ CheckInterrupts
  /\ UNCHANGED <<uartVars, pending, output, accepted>>

\* Mutant: the line is raised when the ring stops being empty, not while it is.
PollEdge ==
  /\ phase = "poll" /\ phase' = "execute"
  /\ irqLine' = (cr.rxIrq /\ rxCount = 1)
  /\ CheckInterrupts
  /\ UNCHANGED <<uartVars, pending, output, accepted>>

\* UpdateIrqLine, CheckInterrupts.
Poll ==
  /\ phase = "poll" /\ phase' = "execute"
  /\ irqLine' = HasPendingIrq
  /\ CheckInterrupts
  /\ UNCHANGED <<uartVars, pending, output, accepted>>

\* CheckInterrupts on the line of an earlier instruction.
Check ==
  /\ phase = "check" /\ phase' = "execute"
  /\ UNCHANGED irqLine /\ CheckInterrupts
  /\ UNCHANGED <<uartVars, pending, output, accepted>>

\* emfe_reset between two instructions; the console keeps its text, of which the
\* history forgets the part before the reset.
Reset ==
  /\ phase = "execute"
  /\ UartReset
  /\ pc' = "sei" /\ iFlag' = TRUE /\ irqLine' = FALSE /\ saved' = "sei"
  /\ pending' = <<>> /\ output' = <<>> /\ accepted' = <<>> /\ UNCHANGED phase

Guest == Sei \/ Enable \/ Cli \/ Idle \/ Load \/ Echo \/ Rti \/ Poll \/ Check

Next == Guest \/ Reset \/ \E c \in Char : Type(c)

Spec == Init /\ [][Next]_vars
-----------------------------------------------------------------------------
\* The console shows the answers to the characters that were queued, in the
\* order they were typed, with nothing left out and nothing invented; only the
\* answer the handler is in the middle of may be incomplete.
EchoFaithful ==
  /\ Len(output) <= Len(accepted)
  /\ \A k \in 1 .. Len(output) :
       /\ IsPrefix(output[k], Reply(accepted[k]))
       /\ k < Len(output) \/ pc # "echo" => output[k] = Reply(accepted[k])

\* The handler is entered only when there is a character to read.
HandlerHasInput == At("load") => rxCount > 0
=============================================================================
