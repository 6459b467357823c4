------------------------------- MODULE MCRings -------------------------------
(***************************************************************************)
(* The three ring buffers through which bytes pass, side by side: pipes    *)
(* (module Pipe), console input (Console) and console output (Uart).  A    *)
(* behaviour is one of one ring; they share no state, so the two others    *)
(* rest.  The pipe is explored twice: with all Bytes between the Readers   *)
(* and the Writers, and with one byte value and a Crowd of writers.  Its   *)
(* properties are those of module Pipe.                                    *)
(***************************************************************************)
EXTENDS Pipe

CONSTANTS Crowd,                                   \* Pipe, the second time
          Users, Plain, INPUT_BUF_SIZE,            \* Console
          Echoers, UART_TX_BUF_SIZE, FIFO,         \* Uart
          Wraps    \* their counters wrap around after this many turns of the ring

VARIABLES ring,
          cons_buf, r, w, e, cons_lock, reader, target, n, cons_killed,
          uart_tx_buf, uart_tx_w, uart_tx_r, uart_tx_lock, c, pc, fifo, irq, panicked

consoleVars == <<cons_buf, r, w, e, cons_lock, reader, target, n, cons_killed>>
uartVars == <<uart_tx_buf, uart_tx_w, uart_tx_r, uart_tx_lock, c, pc, fifo, irq, panicked>>
ringsVars == <<ring, vars, consoleVars, uartVars>>

Crowded == INSTANCE Pipe WITH Writers <- Crowd, Byte <- {CHOOSE b \in Byte : TRUE}
Console == INSTANCE Console WITH
               Procs <- Users, MOD <- Wraps * INPUT_BUF_SIZE,
               buf <- cons_buf, lock <- cons_lock, pc <- reader, killed <- cons_killed
Uart == INSTANCE Uart WITH
            Procs <- Users, Char <- Plain, MOD <- Wraps * UART_TX_BUF_SIZE, MayPanic <- TRUE,
            buf <- uart_tx_buf, lock <- uart_tx_lock

ASSUME RingsAssumption ==
    /\ Wraps \in Nat /\ Wraps >= 2 /\ Writers \subseteq Crowd
    /\ PipeAssumption /\ Crowded!PipeAssumption /\ Console!ConsoleAssumption /\ Uart!UartAssumption

RingsInit == /\ ring \in {"pipe", "crowded", "console", "uart"}
             /\ IF ring = "crowded" THEN Crowded!Init ELSE Init
             /\ Console!Init /\ Uart!Init

PipeNext == ring = "pipe" /\ Next /\ UNCHANGED <<ring, consoleVars, uartVars>>
CrowdedNext == ring = "crowded" /\ Crowded!Next /\ UNCHANGED <<ring, consoleVars, uartVars>>
ConsoleNext == ring = "console" /\ Console!Next /\ UNCHANGED <<ring, vars, uartVars>>
UartNext == ring = "uart" /\ Uart!Next /\ UNCHANGED <<ring, vars, consoleVars>>

RingsNext == PipeNext \/ CrowdedNext \/ ConsoleNext \/ UartNext

\* The fairness of module Pipe: processes inside the pipe run, and programs
\* close their descriptors in the end, at the latest when they exit.
PipeFairness ==
    /\ \A p \in Procs : WF_vars(ring = "pipe" /\ Loop(p))
    /\ \A p \in Procs : WF_vars(ring = "crowded" /\ Crowded!Loop(p))
    /\ \A p \in Readers : SF_vars(ring \in {"pipe", "crowded"} /\ CloseRead(p))
    /\ \A p \in Crowd : SF_vars(ring \in {"pipe", "crowded"} /\ CloseWrite(p))

RingsSpec == RingsInit /\ [][RingsNext]_ringsVars /\ PipeFairness

-----------------------------------------------------------------------------
\* consoleintr() and consoleread() implement an editable line input: editing
\* never touches finished input, characters are taken once, in order, and an
\* end of file behind other input stays for the next read.  A full buffer
\* always belongs to the readers: a user who types too much cannot wedge the
\* console with a line that can neither grow nor be read.  Readers sleep only
\* while no finished input is left.
\*
\* uartputc() and uartstart() implement a first-in first-out channel: no
\* character is lost, reordered or repeated.  Output never stalls: while
\* uart_tx_buf holds characters, somebody is at the device, an interrupt is on
\* its way, or the device will raise one; writers sleep on a full buffer only,
\* and the device's queue has room for all who may write to it without the lock.
ConsoleFaithful ==
    /\ Console!LineDiscipline /\ Console!EofKept /\ Uart!Fifo
    /\ [][(Console!IndicesOrdered /\ Console!AsleepOnlyIfEmpty)']_ringsVars
    /\ [][(Uart!AsleepOnlyIfFull /\ Uart!NoStall /\ Uart!NoOverrun)']_ringsVars
=============================================================================
