---------------------------- MODULE BufferCache ----------------------------
(***************************************************************************)
(* The buffer cache (kernel/bio.c) with the sleep-lock of each buffer      *)
(* (kernel/sleeplock.c).  A process gets the buffer of a block with        *)
(* bread(), may change it, hands it to log_write(), which pins it, and     *)
(* lets go of it with brelse().  The log writes a pinned block home and    *)
(* unpins it later (module Log).                                           *)
(*                                                                         *)
(* Sections under bcache.lock or under the spinlock inside a sleep-lock    *)
(* are single actions; everything between them interleaves.                *)
(***************************************************************************)
EXTENDS Integers, FiniteSets, FiniteSetsExt

CONSTANTS Procs, Blocks,
          NBUF,
          LogCap,     \* blocks the log holds: what begin_op() reserved
          Orders,     \* what follows a change: "log" for log_write() then brelse(),
                      \* "bwrite", or "early" for brelse() then log_write() (bmap())
          MaxWrites   \* bound on the changes to all blocks

Bufs == 1 .. NBUF
None == "none"

CacheAssumption ==
    /\ IsFiniteSet(Procs) /\ Blocks # {} /\ None \notin Procs \cup Blocks
    /\ NBUF \in Nat \ {0} /\ LogCap \in Nat /\ MaxWrites \in Nat
    /\ Orders \subseteq {"log", "bwrite", "early"}

VARIABLES block,    \* b->blockno
          valid, refcnt, data,
          lock,     \* the process that holds b->lock, or None
          lru,      \* the list from bcache.head.next to bcache.head.prev
          pins,     \* how often the log has pinned the buffer
          disk,
          pc, want, \* what each process does, and for which block
          b,        \* the buffer bget() gave to each process
          latest    \* the last value any process gave to each block

vars == <<block, valid, refcnt, data, lock, lru, pins, disk, pc, want, b, latest>>
cacheVars == <<block, valid, refcnt, lru, pins>>

Init == /\ block = [i \in Bufs |-> None]
        /\ valid = [i \in Bufs |-> FALSE]
        /\ refcnt = [i \in Bufs |-> 0]
        /\ data = [i \in Bufs |-> 0]
        /\ lock = [i \in Bufs |-> None]
        /\ lru = [i \in Bufs |-> NBUF + 1 - i]     \* binit()
        /\ pins = [i \in Bufs |-> 0]
        /\ disk = [k \in Blocks |-> 0]
        /\ pc = [p \in Procs |-> "idle"]
        /\ want \in [Procs -> {CHOOSE k \in Blocks : TRUE}]
        /\ b = [p \in Procs |-> 1]
        /\ latest = [k \in Blocks |-> 0]

Goto(p, l) == pc' = [pc EXCEPT ![p] = l]

-----------------------------------------------------------------------------
(* bget(): the section under bcache.lock *)
Cached(k) == {i \in Bufs : block[i] = k}

BgetHit(p, k) ==
    /\ pc[p] = "idle" /\ Cached(k) # {}
    /\ b' = [b EXCEPT ![p] = Min(Cached(k))]
    /\ refcnt' = [refcnt EXCEPT ![Min(Cached(k))] = @ + 1]
    /\ want' = [want EXCEPT ![p] = k]
    /\ Goto(p, "acquiresleep")
    /\ UNCHANGED <<block, valid, data, lock, lru, pins, disk, latest>>

Unused == {i \in Bufs : refcnt[i] = 0}

\* Mutant of Lru: the reference count is not looked at.
LruAny == lru[NBUF]

\* The last unused buffer of the list.
Lru == lru[Max({n \in 1 .. NBUF : lru[n] \in Unused})]

BgetMiss(p, k) ==
    /\ pc[p] = "idle" /\ Cached(k) = {} /\ Unused # {}
    /\ b' = [b EXCEPT ![p] = Lru]
    /\ block' = [block EXCEPT ![Lru] = k]
    /\ valid' = [valid EXCEPT ![Lru] = FALSE]
    /\ refcnt' = [refcnt EXCEPT ![Lru] = 1]
    /\ want' = [want EXCEPT ![p] = k]
    /\ Goto(p, "acquiresleep")
    /\ UNCHANGED <<data, lock, lru, pins, disk, latest>>

\* panic() stops the CPU of the caller; the others go on.
BgetPanic(p, k) ==
    /\ pc[p] = "idle" /\ Cached(k) = {} /\ Unused = {}
    /\ Goto(p, "panic")
    /\ UNCHANGED <<cacheVars, data, lock, disk, want, b, latest>>

(* acquiresleep() *)
AcquireSleep(p) ==
    /\ pc[p] = "acquiresleep" /\ lock[b[p]] = None
    /\ lock' = [lock EXCEPT ![b[p]] = p]
    /\ Goto(p, "bread")
    /\ UNCHANGED <<cacheVars, data, disk, want, b, latest>>

SleepLocked(p) ==
    /\ pc[p] = "acquiresleep" /\ lock[b[p]] # None
    /\ Goto(p, "asleep")
    /\ UNCHANGED <<cacheVars, data, lock, disk, want, b, latest>>

(* bread(): virtio_disk_rw() if the buffer is not valid *)
Bread(p) ==
    /\ pc[p] = "bread"
    /\ data' = IF valid[b[p]] THEN data ELSE [data EXCEPT ![b[p]] = disk[block[b[p]]]]
    /\ valid' = [valid EXCEPT ![b[p]] = TRUE]
    /\ Goto(p, "use")
    /\ UNCHANGED <<block, refcnt, lock, lru, pins, disk, want, b, latest>>

-----------------------------------------------------------------------------
(* The caller *)
Logged == {i \in Bufs : pins[i] = 1 \/ \E p \in Procs : b[p] = i /\ pc[p] = "log"}

Change(p, l) ==
    /\ pc[p] = "use" /\ latest[want[p]] < MaxWrites
    /\ l # "bwrite" => Cardinality(Logged \cup {b[p]}) =< LogCap
    /\ data' = [data EXCEPT ![b[p]] = latest[want[p]] + 1]
    /\ latest' = [latest EXCEPT ![want[p]] = @ + 1]
    /\ Goto(p, l)
    /\ UNCHANGED <<cacheVars, lock, disk, want, b>>

\* Mutant of LogWrite: the buffer is not pinned.
LogWriteUnpinned(p) ==
    /\ pc[p] \in {"log", "late_log"}
    /\ Goto(p, IF pc[p] = "log" THEN "done" ELSE "idle")
    /\ UNCHANGED <<cacheVars, data, lock, disk, want, b, latest>>

\* log_write(): bpin() unless the block is in the log already.
LogWrite(p) ==
    /\ pc[p] \in {"log", "late_log"}
    /\ pins' = [pins EXCEPT ![b[p]] = 1]
    /\ refcnt' = IF pins[b[p]] = 0 THEN [refcnt EXCEPT ![b[p]] = @ + 1] ELSE refcnt
    /\ Goto(p, IF pc[p] = "log" THEN "done" ELSE "idle")
    /\ UNCHANGED <<block, valid, data, lock, lru, disk, want, b, latest>>

\* bwrite(), as write_head() and write_log() use it.
Bwrite(p) ==
    /\ pc[p] = "bwrite"
    /\ disk' = [disk EXCEPT ![block[b[p]]] = data[b[p]]]
    /\ Goto(p, "done")
    /\ UNCHANGED <<cacheVars, data, lock, want, b, latest>>

(* brelse(): releasesleep(), then the section under bcache.lock *)
ReleaseSleep(p) ==
    /\ pc[p] \in {"use", "done", "early"}
    /\ lock' = [lock EXCEPT ![b[p]] = None]
    /\ pc' = [q \in Procs |->
                IF q = p THEN (IF pc[p] = "early" THEN "put_early" ELSE "put")
                ELSE IF pc[q] = "asleep" /\ b[q] = b[p] THEN "acquiresleep" ELSE pc[q]]
    /\ UNCHANGED <<cacheVars, data, disk, want, b, latest>>

\* The list with buffer i taken out and put behind bcache.head.
ToFront(i) ==
    LET at == CHOOSE n \in Bufs : lru[n] = i
    IN  [n \in Bufs |-> IF n = 1 THEN i ELSE IF n =< at THEN lru[n - 1] ELSE lru[n]]

Brelse(p) ==
    /\ pc[p] \in {"put", "put_early"}
    /\ refcnt' = [refcnt EXCEPT ![b[p]] = @ - 1]
    /\ lru' = IF refcnt[b[p]] = 1 THEN ToFront(b[p]) ELSE lru
    /\ Goto(p, IF pc[p] = "put" THEN "idle" ELSE "late_log")
    /\ UNCHANGED <<block, valid, data, lock, pins, disk, want, b, latest>>

\* No operation is between its change and its log_write(): end_op() commits only
\* when no operation is outstanding.
Quiet == \A p \in Procs : pc[p] \notin {"log", "early", "put_early", "late_log"}

\* The log writes a pinned block home and unpins it: install_trans(), bunpin().
Install(i) ==
    /\ pins[i] = 1 /\ lock[i] = None /\ Quiet
    /\ disk' = [disk EXCEPT ![block[i]] = data[i]]
    /\ pins' = [pins EXCEPT ![i] = 0]
    /\ refcnt' = [refcnt EXCEPT ![i] = @ - 1]
    /\ UNCHANGED <<block, valid, data, lock, lru, pc, want, b, latest>>

-----------------------------------------------------------------------------
Run(p) == \/ AcquireSleep(p) \/ SleepLocked(p) \/ Bread(p) \/ LogWrite(p)
          \/ Bwrite(p) \/ ReleaseSleep(p) \/ Brelse(p)

Next == \/ \E p \in Procs :
             \/ \E k \in Blocks : BgetHit(p, k) \/ BgetMiss(p, k) \/ BgetPanic(p, k)
             \/ \E l \in Orders : Change(p, l)
             \/ Run(p)
        \/ \E i \in Bufs : Install(i)

Spec == Init /\ [][Next]_vars

\* Processes inside the cache are scheduled, and a woken sleeper gets the
\* sleep-lock in the end.
Fairness == \A p \in Procs : WF_vars(Run(p)) /\ SF_vars(AcquireSleep(p))

LiveSpec == Spec /\ Fairness

-----------------------------------------------------------------------------
(* Properties *)
Inside(i) == {p \in Procs : b[p] = i /\ pc[p] \notin {"idle", "late_log", "panic"}}

TypeOK ==
    /\ block \in [Bufs -> Blocks \cup {None}]
    /\ lru \in [Bufs -> Bufs] /\ {lru[n] : n \in Bufs} = Bufs
    /\ refcnt \in [Bufs -> 0 .. Cardinality(Procs) + 1]
    /\ lock \in [Bufs -> Procs \cup {None}]

\* No block has two buffers, and no process is inside a buffer that was given
\* to another block under it.
BuffersMatch ==
    /\ \A i, j \in Bufs : i # j /\ block[i] # None => block[i] # block[j]
    /\ \A i \in Bufs : \A p \in Inside(i) : block[i] = want[p]

\* The reference count is the number of processes inside and pins.
RefcntExact == \A i \in Bufs : refcnt[i] = Cardinality(Inside(i)) + pins[i]

\* "A synchronization point": no block has two buffers, and a buffer is never
\* recycled under a process that is inside it (bget(), brelse()).
OneBufferPerBlock == BuffersMatch /\ RefcntExact

\* The last value given to a block is found by the next bread(): in the cache,
\* or on the disk if the block is not cached.
NoUpdateLost ==
    \A k \in Blocks :
        \/ \E i \in Cached(k) : valid[i] /\ data[i] = latest[k]
        \/ disk[k] = latest[k] /\ \A i \in Cached(k) : ~valid[i]

\* With a buffer for every process and for every block of the log, bget()
\* always finds one to recycle.
NoPanic == \A p \in Procs : pc[p] # "panic"

\* Every process that called bread() gets its buffer.
BreadReturns == \A p \in Procs : pc[p] = "acquiresleep" ~> pc[p] = "use"
=============================================================================
