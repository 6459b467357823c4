-------------------------------- MODULE Uart --------------------------------
(***************************************************************************)
(* Console output (kernel/uart.c): the transmit buffer filled by           *)
(* uartputc() for write(), emptied by uartstart() from both halves of the  *)
(* driver, and uartputc_sync(), which printf() and the echo use without    *)
(* the lock.                                                               *)
(*                                                                         *)
(* The device has a queue of FIFO characters, says it is idle when the     *)
(* queue is empty and interrupts when it becomes so.                       *)
(***************************************************************************)
EXTENDS Integers, Sequences, FiniteSets

CONSTANTS Procs, Char,
          Echoers,   \* those that also call uartputc_sync()
          UART_TX_BUF_SIZE,
          MOD,       \* uart_tx_w and uart_tx_r count modulo MOD
          FIFO,      \* depth of the device's queue
          MayPanic   \* the kernel may panic

UartAssumption ==
    /\ UART_TX_BUF_SIZE \in Nat \ {0} /\ MOD % UART_TX_BUF_SIZE = 0
    /\ Echoers \subseteq Procs
    /\ MOD > UART_TX_BUF_SIZE /\ FIFO > Cardinality(Procs) /\ MayPanic \in BOOLEAN

Handler == "uartintr"
Threads == Procs \cup {Handler}
None == "none"
Echo == "echo"       \* a character of uartputc_sync()
Cells == 0 .. UART_TX_BUF_SIZE - 1

VARIABLES buf, uart_tx_w, uart_tx_r,
          lock,      \* holder of uart_tx_lock
          c,         \* the character uartstart() took last
          pc, fifo, irq, panicked

vars == <<buf, uart_tx_w, uart_tx_r, lock, c, pc, fifo, irq, panicked>>

Init == /\ buf \in [Cells -> {CHOOSE ch \in Char : TRUE}]
        /\ uart_tx_w = 0 /\ uart_tx_r = 0
        /\ lock = None /\ c = << >>
        /\ pc = [t \in Threads |-> "idle"]
        /\ fifo = << >> /\ irq = FALSE /\ panicked = FALSE

Goto(t, l) == pc' = [pc EXCEPT ![t] = l]
Idle == fifo = << >>          \* LSR_TX_IDLE
Count == (uart_tx_w - uart_tx_r) % MOD

-----------------------------------------------------------------------------
(* uartputc(ch) *)
PutStart(p) ==
    /\ pc[p] = "idle"
    /\ Goto(p, "put")
    /\ UNCHANGED <<buf, uart_tx_w, uart_tx_r, lock, c, fifo, irq, panicked>>

Full == Count = UART_TX_BUF_SIZE

\* After a panic the caller spins with the lock.
PutSpins(p) ==
    /\ pc[p] = "put" /\ lock = None /\ panicked
    /\ lock' = p
    /\ Goto(p, "spin")
    /\ UNCHANGED <<buf, uart_tx_w, uart_tx_r, c, fifo, irq, panicked>>

PutSleep(p) ==
    /\ pc[p] \in {"put", "again"} /\ lock = None /\ Full
    /\ pc[p] = "put" => ~panicked
    /\ Goto(p, "asleep")
    /\ UNCHANGED <<buf, uart_tx_w, uart_tx_r, lock, c, fifo, irq, panicked>>

PutChar(p, ch) ==
    /\ pc[p] \in {"put", "again"} /\ lock = None /\ ~Full
    /\ pc[p] = "put" => ~panicked
    /\ lock' = p
    /\ buf' = [buf EXCEPT ![uart_tx_w % UART_TX_BUF_SIZE] = ch]
    /\ uart_tx_w' = (uart_tx_w + 1) % MOD
    /\ Goto(p, "start")
    /\ UNCHANGED <<uart_tx_r, c, fifo, irq, panicked>>

-----------------------------------------------------------------------------
(* uartstart(), with uart_tx_lock held by t *)

\* The buffer is empty or the device is not idle: return and release.
StartEnd(t) ==
    /\ pc[t] = "start" /\ (Count = 0 \/ ~Idle)
    /\ lock' = None
    /\ Goto(t, "idle")
    /\ UNCHANGED <<buf, uart_tx_w, uart_tx_r, c, fifo, irq, panicked>>

\* wakeup(&uart_tx_r)
Woken == [t \in Threads |-> IF pc[t] = "asleep" THEN "again" ELSE pc[t]]

Oldest == buf[uart_tx_r % UART_TX_BUF_SIZE]

StartTake(t) ==
    /\ pc[t] = "start" /\ Count # 0 /\ Idle
    /\ c' = <<Oldest>>
    /\ uart_tx_r' = (uart_tx_r + 1) % MOD
    /\ pc' = [Woken EXCEPT ![t] = "send"]
    /\ UNCHANGED <<buf, uart_tx_w, lock, fifo, irq, panicked>>

\* WriteReg(THR, c); uartputc_sync() may have been faster.
StartSend(t) ==
    /\ pc[t] = "send"
    /\ fifo' = fifo \o c
    /\ Goto(t, "start")
    /\ UNCHANGED <<buf, uart_tx_w, uart_tx_r, lock, c, irq, panicked>>

-----------------------------------------------------------------------------
(* uartputc_sync(): the test and the write, without the lock *)
SyncStart(p) ==
    /\ pc[p] = "idle" /\ p \in Echoers
    /\ Goto(p, IF panicked THEN "spin" ELSE "sync")
    /\ UNCHANGED <<buf, uart_tx_w, uart_tx_r, lock, c, fifo, irq, panicked>>

SyncIdle(p) ==
    /\ pc[p] = "sync" /\ Idle
    /\ Goto(p, "syncsend")
    /\ UNCHANGED <<buf, uart_tx_w, uart_tx_r, lock, c, fifo, irq, panicked>>

SyncSend(p) ==
    /\ pc[p] = "syncsend" /\ Len(fifo) =< FIFO     \* bound
    /\ fifo' = Append(fifo, Echo)
    /\ Goto(p, "idle")
    /\ UNCHANGED <<buf, uart_tx_w, uart_tx_r, lock, c, irq, panicked>>

-----------------------------------------------------------------------------
(* uartintr(); its input half is in module Console *)
Intr ==
    /\ irq /\ pc[Handler] = "idle"
    /\ irq' = FALSE
    /\ Goto(Handler, "put")
    /\ UNCHANGED <<buf, uart_tx_w, uart_tx_r, lock, c, fifo, panicked>>

IntrAcquire ==
    /\ pc[Handler] = "put" /\ lock = None
    /\ lock' = Handler
    /\ Goto(Handler, "start")
    /\ UNCHANGED <<buf, uart_tx_w, uart_tx_r, c, fifo, irq, panicked>>

(* The device, and a panic on some CPU *)
Device ==
    /\ ~Idle
    /\ fifo' = Tail(fifo)
    /\ irq' = (irq \/ Len(fifo) = 1)
    /\ UNCHANGED <<buf, uart_tx_w, uart_tx_r, lock, c, pc, panicked>>

Panic ==
    /\ MayPanic /\ ~panicked
    /\ panicked' = TRUE
    /\ UNCHANGED <<buf, uart_tx_w, uart_tx_r, lock, c, pc, fifo, irq>>

-----------------------------------------------------------------------------
Start(t) == StartEnd(t) \/ StartTake(t) \/ StartSend(t)
Put(p) == PutSleep(p) \/ PutSpins(p) \/ \E ch \in Char : PutChar(p, ch)
Sync(p) == SyncIdle(p) \/ SyncSend(p)

Next == \/ \E p \in Procs : PutStart(p) \/ SyncStart(p) \/ Put(p) \/ Sync(p)
        \/ \E t \in Threads : Start(t)
        \/ Intr \/ IntrAcquire \/ Device \/ Panic

Spec == Init /\ [][Next]_vars

\* Threads run and get the lock in turn, the device transmits, and its
\* interrupts are taken.
Fairness == /\ \A t \in Threads : WF_vars(Start(t))
            /\ \A p \in Procs : SF_vars(Put(p))
            /\ WF_vars(Intr) /\ SF_vars(IntrAcquire) /\ WF_vars(Device)

LiveSpec == Spec /\ Fairness

-----------------------------------------------------------------------------
TypeOK ==
    /\ buf \in [Cells -> Char] /\ Count =< UART_TX_BUF_SIZE
    /\ lock \in Threads \cup {None} /\ irq \in BOOLEAN
    /\ \A t \in Threads : pc[t] \in {"start", "send"} => lock = t

\* Output never stalls: while characters wait, somebody is at the device, an
\* interrupt is on its way, or the device will raise one.
NoStall ==
    Count # 0 => \/ lock # None \/ ~Idle \/ irq \/ pc[Handler] = "put"

\* A writer sleeps only while the buffer is full.
AsleepOnlyIfFull == \A p \in Procs : pc[p] = "asleep" => Full

\* The unlocked test of uartputc_sync() and the locked one of uartstart() can
\* both succeed, but the device's queue takes a character of every CPU.
NoOverrun == Len(fifo) =< FIFO

\* The transmit buffer is a first-in first-out channel.
Contents == [j \in 1 .. Count |-> buf[(uart_tx_r + j - 1) % UART_TX_BUF_SIZE]]
Channel == INSTANCE ByteChannel WITH Byte <- Char, PIPESIZE <- UART_TX_BUF_SIZE,
               q <- Contents, out <- c, readable <- TRUE, writable <- TRUE
Fifo == Channel!Spec

\* A sleeping writer is woken, when nobody keeps the device busy with
\* uartputc_sync().  (It may then find the buffer filled again by another
\* writer, and sleep again.)
WritersWoken == \A p \in Procs : pc[p] = "asleep" ~> pc[p] # "asleep"
=============================================================================
