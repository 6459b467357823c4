-------------------------------- MODULE Pipe --------------------------------
(***************************************************************************)
(* Pipes (kernel/pipe.c): pipewrite, piperead, pipeclose, with sleep,      *)
(* wakeup and kill.  Each pass through a loop under pi->lock, up to        *)
(* sleep() or return, is one action.                                       *)
(*                                                                         *)
(* nread and nwrite are unsigned counters that wrap at MOD (2^32 in the    *)
(* code).  copyin() and copyout() may fail at any byte, and a kill may     *)
(* reach a writer between two bytes.                                       *)
(***************************************************************************)
EXTENDS Integers, Sequences, FiniteSets

CONSTANTS Procs, Byte,
          Readers, Writers,  \* who holds which end after pipe(), fork() and close()
          PIPESIZE,
          MOD,      \* values of a uint counter
          MaxN      \* bound on the length of a read or write

PipeAssumption ==
    /\ Readers \in (SUBSET Procs) \ {{}} /\ Writers \in (SUBSET Procs) \ {{}}
    /\ PIPESIZE \in Nat \ {0} /\ MaxN \in Nat \ {0}
    /\ MOD \in Nat /\ (MOD % PIPESIZE) = 0 /\ MOD > PIPESIZE

VARIABLES data, nread, nwrite, readopen, writeopen,
          freed,    \* kfree(pi)
          readers,  \* processes with a descriptor of the read end
          writers,  \* processes with a descriptor of the write end
          op,       \* what each process does in the pipe
          killed,
          out,      \* bytes taken out by the last read
          cut       \* some writer was killed between two bytes

vars == <<data, nread, nwrite, readopen, writeopen, freed, readers, writers,
          op, killed, out, cut>>

Cells == 0 .. PIPESIZE - 1
Idle == [pc |-> "idle", left |-> 0]

Init == /\ data \in {[c \in Cells |-> b] : b \in Byte}
        /\ nread = 0 /\ nwrite = 0
        /\ readopen = TRUE /\ writeopen = TRUE /\ freed = FALSE
        /\ readers = Readers /\ writers = Writers
        /\ op = [p \in Procs |-> Idle]
        /\ killed = [p \in Procs |-> FALSE]
        /\ out = << >>
        /\ cut = FALSE

\* nwrite - nread in unsigned arithmetic.
Count == (nwrite - nread) % MOD

\* "nwrite == nread + PIPESIZE", so the room that is left.
Room == PIPESIZE - Count

\* wakeup(&pi->nread), wakeup(&pi->nwrite)
Woken(o, asleep, to) == [p \in Procs |-> IF o[p].pc = asleep THEN [o[p] EXCEPT !.pc = to]
                                         ELSE o[p]]
WakeReaders(o) == Woken(o, "sleep_read", "read")
WakeWriters(o) == Woken(o, "sleep_write", "write")

-----------------------------------------------------------------------------
(* pipewrite() *)
WriteStart(p, n) ==
    /\ op[p] = Idle /\ p \in writers /\ ~killed[p]
    /\ op' = [op EXCEPT ![p] = [pc |-> "write", left |-> n]]
    /\ UNCHANGED <<data, nread, nwrite, readopen, writeopen, freed, readers,
                   writers, killed, out, cut>>

WriteFails(p) ==
    /\ op[p].pc = "write"
    /\ ~readopen \/ killed[p]
    /\ op' = [op EXCEPT ![p] = Idle]
    /\ UNCHANGED <<data, nread, nwrite, readopen, writeopen, freed, readers,
                   writers, killed, out, cut>>

\* Mutant of Store: the counter advances before the byte is stored.
StoreBehind(p, s) ==
    /\ op[p].pc = "write" /\ readopen /\ ~killed[p]
    /\ data' = [c \in Cells |->
                  IF \E j \in 1 .. Len(s) : (nwrite + j) % PIPESIZE = c
                  THEN s[CHOOSE j \in 1 .. Len(s) : (nwrite + j) % PIPESIZE = c]
                  ELSE data[c]]
    /\ nwrite' = (nwrite + Len(s)) % MOD
    /\ UNCHANGED <<nread, readopen, writeopen, freed, readers, writers, out>>

\* The loop up to some point: the bytes of s are stored at nwrite.
Store(p, s) ==
    /\ op[p].pc = "write" /\ readopen /\ ~killed[p]
    /\ data' = [c \in Cells |->
                  IF \E j \in 1 .. Len(s) : (nwrite + j - 1) % PIPESIZE = c
                  THEN s[CHOOSE j \in 1 .. Len(s) : (nwrite + j - 1) % PIPESIZE = c]
                  ELSE data[c]]
    /\ nwrite' = (nwrite + Len(s)) % MOD
    /\ UNCHANGED <<nread, readopen, writeopen, freed, readers, writers, out>>

\* All bytes stored, or copyin() failed at the next one: wake readers, return.
WriteDone(p, s) ==
    /\ Len(s) =< op[p].left /\ Len(s) =< Room
    /\ Len(s) < op[p].left => Len(s) < Room
    /\ Store(p, s)
    /\ op' = [WakeReaders(op) EXCEPT ![p] = Idle]
    /\ UNCHANGED <<killed, cut>>

\* The pipe is full: wake readers and sleep.
WriteFull(p, s) ==
    /\ Len(s) < op[p].left /\ Len(s) = Room
    /\ Store(p, s)
    /\ op' = [WakeReaders(op) EXCEPT ![p] = [pc |-> "sleep_write",
                                             left |-> op[p].left - Len(s)]]
    /\ UNCHANGED <<killed, cut>>

\* A kill reaches the writer between two bytes: return at once.
WriteKilled(p, s) ==
    /\ s # << >> /\ Len(s) < op[p].left /\ Len(s) =< Room
    /\ Store(p, s)
    /\ killed' = [killed EXCEPT ![p] = TRUE]
    /\ op' = [op EXCEPT ![p] = Idle]
    /\ cut' = TRUE

-----------------------------------------------------------------------------
(* piperead() *)
ReadStart(p, n) ==
    /\ op[p] = Idle /\ p \in readers /\ ~killed[p]
    /\ op' = [op EXCEPT ![p] = [pc |-> "read", left |-> n]]
    /\ UNCHANGED <<data, nread, nwrite, readopen, writeopen, freed, readers,
                   writers, killed, out, cut>>

\* Nothing to read while the write end is open: sleep, or return if killed.
ReadEmpty(p) ==
    /\ op[p].pc = "read" /\ nread = nwrite /\ writeopen
    /\ op' = [op EXCEPT ![p] = IF killed[p] THEN Idle ELSE [@ EXCEPT !.pc = "sleep_read"]]
    /\ UNCHANGED <<data, nread, nwrite, readopen, writeopen, freed, readers,
                   writers, killed, out, cut>>

\* Take n bytes, fewer than asked and present only if copyout() failed at the
\* last of them; wake writers.
ReadData(p, n) ==
    /\ op[p].pc = "read" /\ (nread # nwrite \/ ~writeopen)
    /\ n =< op[p].left /\ n =< Count
    /\ n = 0 => Count = 0
    /\ out' = [j \in 1 .. n |-> data[(nread + j - 1) % PIPESIZE]]
    /\ nread' = (nread + n) % MOD
    /\ op' = [WakeWriters(op) EXCEPT ![p] = Idle]
    /\ UNCHANGED <<data, nwrite, readopen, writeopen, freed, readers, writers, killed, cut>>

-----------------------------------------------------------------------------
(* pipeclose(), at the last close of an end; kill() *)

\* Mutant of Freed: the page goes with the first end.
FreedEarly(r, w) == ~r \/ ~w

Freed(r, w) == ~r /\ ~w

CloseRead(p) ==
    /\ op[p] = Idle /\ p \in readers
    /\ readers' = readers \ {p}
    /\ readopen' = (readers' # {})
    /\ op' = IF readopen' THEN op ELSE WakeWriters(op)
    /\ freed' = Freed(readopen', writeopen)
    /\ UNCHANGED <<data, nread, nwrite, writeopen, writers, killed, out, cut>>

\* Mutant of CloseWrite: sleeping readers are not woken.
CloseWriteSilent(p) ==
    /\ op[p] = Idle /\ p \in writers
    /\ writers' = writers \ {p}
    /\ writeopen' = (writers' # {})
    /\ freed' = Freed(readopen, writeopen')
    /\ UNCHANGED <<data, nread, nwrite, readopen, readers, op, killed, out, cut>>

CloseWrite(p) ==
    /\ op[p] = Idle /\ p \in writers
    /\ writers' = writers \ {p}
    /\ writeopen' = (writers' # {})
    /\ op' = IF writeopen' THEN op ELSE WakeReaders(op)
    /\ freed' = Freed(readopen, writeopen')
    /\ UNCHANGED <<data, nread, nwrite, readopen, readers, killed, out, cut>>

Kill(p) ==
    /\ ~killed[p]
    /\ killed' = [killed EXCEPT ![p] = TRUE]
    /\ op' = [op EXCEPT ![p].pc = CASE @ = "sleep_read" -> "read"
                                    [] @ = "sleep_write" -> "write"
                                    [] OTHER -> @]
    /\ UNCHANGED <<data, nread, nwrite, readopen, writeopen, freed, readers,
                   writers, out, cut>>

\* kill() does not take pi->lock: it may come between the victim's killed()
\* and its sleep(), and then wakes nobody.
KillMissed(p) ==
    /\ ~killed[p] /\ op[p].pc \in {"sleep_read", "sleep_write"}
    /\ killed' = [killed EXCEPT ![p] = TRUE]
    /\ UNCHANGED <<data, nread, nwrite, readopen, writeopen, freed, readers,
                   writers, op, out, cut>>

-----------------------------------------------------------------------------
Strings == UNION {[1 .. n -> Byte] : n \in 0 .. MaxN}

Loop(p) == \/ WriteFails(p) \/ ReadEmpty(p)
           \/ \E s \in Strings : WriteDone(p, s) \/ WriteFull(p, s)
           \/ \E n \in 0 .. MaxN : ReadData(p, n)

Next == \E p \in Procs :
          \/ \E n \in 1 .. MaxN : WriteStart(p, n) \/ ReadStart(p, n)
          \/ Loop(p)
          \/ \E s \in Strings : WriteKilled(p, s)
          \/ CloseRead(p) \/ CloseWrite(p) \/ Kill(p) \/ KillMissed(p)

Spec == Init /\ [][Next]_vars

\* Threads inside the pipe run, and the programs of a pipeline close their
\* descriptors in the end, at the latest when they exit.
Fairness == /\ \A p \in Procs : WF_vars(Loop(p))
            /\ \A p \in Readers : SF_vars(CloseRead(p))
            /\ \A p \in Writers : SF_vars(CloseWrite(p))

LiveSpec == Spec /\ Fairness

-----------------------------------------------------------------------------
(* Properties *)
TypeOK ==
    /\ data \in [Cells -> Byte]
    /\ nread \in 0 .. MOD - 1 /\ nwrite \in 0 .. MOD - 1
    /\ Count =< PIPESIZE
    /\ readers \subseteq Procs /\ writers \subseteq Procs
    /\ \A p \in Procs : op[p].left \in 0 .. MaxN

\* A reader sleeps only while there is nothing to read and the write end is
\* open, unless a writer was killed between two bytes: pipewrite() returns
\* then without its wakeup().
ReaderAsleepOnlyIfEmpty ==
    \A p \in Procs : op[p].pc = "sleep_read" => writeopen /\ (Count = 0 \/ cut)

\* A writer sleeps only while the pipe is full and the read end is open.
WriterAsleepOnlyIfFull ==
    \A p \in Procs : op[p].pc = "sleep_write" => readopen /\ Count = PIPESIZE

\* No wakeup is lost: piperead() and pipewrite() sleep only while what they
\* wait for is not there.
NoLostWakeup == ReaderAsleepOnlyIfEmpty /\ WriterAsleepOnlyIfFull

\* No process is inside the pipe, or holds an end of it, once it is freed.
NoUseAfterFree ==
    freed => readers = {} /\ writers = {} /\ \A p \in Procs : op[p] = Idle

\* The ring buffer with wrapping counters is a first-in first-out channel.
Contents == [j \in 1 .. Count |-> data[(nread + j - 1) % PIPESIZE]]
Channel == INSTANCE ByteChannel WITH q <- Contents, readable <- readopen, writable <- writeopen
Fifo == Channel!Spec

\* Every read and every write ends.
OperationsEnd == \A p \in Procs : op[p] # Idle ~> op[p] = Idle
=============================================================================
