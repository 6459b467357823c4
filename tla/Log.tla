-------------------------------- MODULE Log --------------------------------
(***************************************************************************)
(* The write-ahead log of the kernel (kernel/log.c) over its buffer cache  *)
(* and disk, with crashes and the recovery that follows them.              *)
(*                                                                         *)
(* A disk write of one block is atomic; nothing else is.  log.lock is not  *)
(* a variable: each action below is one critical section of that lock, or  *)
(* one iteration of a copy loop that runs without it.                      *)
(***************************************************************************)
EXTENDS Integers, Sequences, FiniteSets

CONSTANTS Procs,        \* processes that make file-system system calls
          Blocks,       \* home blocks of the file system
          Values,       \* contents of a block
          NotCached,    \* no buffer holds the block
          MAXOPBLOCKS,  \* blocks begin_op() reserves for an operation
          LOGSIZE,      \* entries of struct logheader
          size,         \* log.size = sb.nlog, the header block included
          OpBound       \* distinct blocks an operation really logs

ASSUME LogAssumption ==
    /\ IsFiniteSet(Procs) /\ IsFiniteSet(Blocks)
    /\ MAXOPBLOCKS \in Nat \ {0}
    /\ LOGSIZE \in Nat
    /\ MAXOPBLOCKS =< LOGSIZE
    /\ size \in Nat \ {0}
    /\ OpBound \in Nat
    /\ OpBound =< MAXOPBLOCKS
    /\ Values # {} /\ NotCached \notin Values

VARIABLES pc,           \* where each process is in begin_op/end_op/commit
          tail,         \* the loop variable of its copy loop
          wrote,        \* blocks its current operation has logged
          outstanding,  \* log.outstanding
          committing,   \* log.committing
          lh,           \* log.lh: home block numbers, in log order
          buf,          \* buffer cache: content of each block, or NotCached
          pins,         \* references bpin() holds on each buffer
          home,         \* disk: the home blocks
          logblk,       \* disk: the log blocks after the header
          hdr,          \* disk: the header block
          panicked      \* panic() was called

diskVars == <<home, logblk, hdr>>
vars == <<pc, tail, wrote, outstanding, committing, lh, buf, pins,
          home, logblk, hdr, panicked>>

CommitPC  == {"commit", "write_log", "write_head", "install", "erase", "finish"}
RecoverPC == {"read_head", "rec_install", "rec_erase"}
PC == {"off", "idle", "asleep", "woken", "op"} \cup CommitPC \cup RecoverPC

Logged == {lh[i] : i \in 1 .. Len(lh)}

\* bread(): the cached content, or what the disk holds.
Bread(b) == IF buf[b] = NotCached THEN home[b] ELSE buf[b]

\* wakeup(&log): every process asleep on &log becomes runnable.
Wakeup(f) == [p \in Procs |-> IF f[p] = "asleep" THEN "woken" ELSE f[p]]

-----------------------------------------------------------------------------
(* The machine is booting: process q runs fsinit() -> initlog(). *)
BootPC(q) == [p \in Procs |-> IF p = q THEN "read_head" ELSE "off"]

\* mkfs leaves an empty log.
Init == /\ \E q \in Procs : pc = BootPC(q)
        /\ tail = [p \in Procs |-> 0]
        /\ wrote = [p \in Procs |-> {}]
        /\ outstanding = 0
        /\ committing = FALSE
        /\ lh = << >>
        /\ buf = [b \in Blocks |-> NotCached]
        /\ pins = [b \in Blocks |-> 0]
        /\ panicked = FALSE
        /\ home \in [Blocks -> Values]
        /\ \E v \in Values : logblk = [i \in 1 .. LOGSIZE |-> v]
        /\ hdr = << >>

-----------------------------------------------------------------------------
\* Mutants of MustWait: the commit flag is not tested; the reservation counts
\* the running operations and not the new one.
MustWaitIgnoringCommit == Len(lh) + (outstanding + 1) * MAXOPBLOCKS > LOGSIZE
MustWaitOffByOne == committing \/ Len(lh) + outstanding * MAXOPBLOCKS > LOGSIZE

MustWait == \/ committing
            \/ Len(lh) + (outstanding + 1) * MAXOPBLOCKS > LOGSIZE

\* begin_op(): sleep(&log, &log.lock); the test is repeated after wakeup.
BeginSleep(p) ==
    /\ ~panicked
    /\ pc[p] \in {"idle", "woken"}
    /\ MustWait
    /\ pc' = [pc EXCEPT ![p] = "asleep"]
    /\ UNCHANGED <<tail, wrote, outstanding, committing, lh, buf, pins,
                   diskVars, panicked>>

\* Mutant of BeginOp: log.outstanding is not incremented.
BeginOpUncounted(p) ==
    /\ ~panicked
    /\ pc[p] \in {"idle", "woken"}
    /\ ~MustWait
    /\ pc' = [pc EXCEPT ![p] = "op"]
    /\ wrote' = [wrote EXCEPT ![p] = {}]
    /\ UNCHANGED <<tail, outstanding, committing, lh, buf, pins, diskVars,
                   panicked>>

\* begin_op(): the operation is admitted.
BeginOp(p) ==
    /\ ~panicked
    /\ pc[p] \in {"idle", "woken"}
    /\ ~MustWait
    /\ pc' = [pc EXCEPT ![p] = "op"]
    /\ wrote' = [wrote EXCEPT ![p] = {}]
    /\ outstanding' = outstanding + 1
    /\ UNCHANGED <<tail, committing, lh, buf, pins, diskVars, panicked>>

\* bread(b); modify it; log_write(b); brelse(b), under the buffer's sleep lock.
\* An operation logs at most OpBound distinct blocks, some of them repeatedly.
LogFull == Len(lh) >= LOGSIZE \/ Len(lh) >= size - 1

\* Mutant of LogWrite: bpin() is called for an absorbed block too.
LogWriteRepin(p, b, v) ==
    /\ ~panicked
    /\ pc[p] = "op"
    /\ Cardinality(wrote[p] \cup {b}) =< OpBound
    /\ buf' = [buf EXCEPT ![b] = v]
    /\ wrote' = [wrote EXCEPT ![p] = @ \cup {b}]
    /\ lh' = IF b \in Logged THEN lh ELSE Append(lh, b)
    /\ pins' = [pins EXCEPT ![b] = @ + 1]
    /\ UNCHANGED <<pc, tail, outstanding, committing, diskVars, panicked>>

LogWrite(p, b, v) ==
    /\ ~panicked
    /\ pc[p] = "op"
    /\ Cardinality(wrote[p] \cup {b}) =< OpBound
    /\ buf' = [buf EXCEPT ![b] = v]
    /\ IF LogFull \/ outstanding < 1
       THEN panicked' = TRUE /\ UNCHANGED <<lh, pins, wrote>>
       ELSE /\ UNCHANGED panicked
            /\ wrote' = [wrote EXCEPT ![p] = @ \cup {b}]
            /\ IF b \in Logged           \* log absorption
               THEN UNCHANGED <<lh, pins>>
               ELSE /\ lh' = Append(lh, b)
                    /\ pins' = [pins EXCEPT ![b] = @ + 1]
    /\ UNCHANGED <<pc, tail, outstanding, committing, diskVars>>

\* end_op() up to the release of log.lock.
EndOp(p) ==
    /\ ~panicked
    /\ pc[p] = "op"
    /\ outstanding' = outstanding - 1
    /\ panicked' = committing
    /\ IF outstanding' = 0
       THEN /\ committing' = TRUE
            /\ pc' = [pc EXCEPT ![p] = "commit"]
       ELSE /\ UNCHANGED committing
            /\ pc' = Wakeup([pc EXCEPT ![p] = "idle"])
    /\ UNCHANGED <<tail, wrote, lh, buf, pins, diskVars>>

-----------------------------------------------------------------------------
(* commit(), run without log.lock. *)
\* Mutant of Commit: the header is written without the log blocks.
CommitHeadFirst(p) ==
    /\ ~panicked
    /\ pc[p] = "commit"
    /\ pc' = [pc EXCEPT ![p] = IF lh = << >> THEN "finish" ELSE "write_head"]
    /\ tail' = [tail EXCEPT ![p] = 0]
    /\ UNCHANGED <<wrote, outstanding, committing, lh, buf, pins, diskVars,
                   panicked>>

Commit(p) ==
    /\ ~panicked
    /\ pc[p] = "commit"
    /\ pc' = [pc EXCEPT ![p] = IF lh = << >> THEN "finish" ELSE "write_log"]
    /\ tail' = [tail EXCEPT ![p] = 0]
    /\ UNCHANGED <<wrote, outstanding, committing, lh, buf, pins, diskVars,
                   panicked>>

\* One round of a copy loop over log.lh, leaving for pc "next" after the last.
Advance(p, next) ==
    IF tail[p] + 1 = Len(lh)
    THEN /\ tail' = [tail EXCEPT ![p] = 0]
         /\ pc' = [pc EXCEPT ![p] = next]
    ELSE /\ tail' = [tail EXCEPT ![p] = @ + 1]
         /\ UNCHANGED pc

\* write_log(): cache block -> log block.
WriteLog(p) ==
    LET i == tail[p] + 1
        b == lh[i]
    IN  /\ ~panicked
        /\ pc[p] = "write_log"
        /\ logblk' = [logblk EXCEPT ![i] = Bread(b)]
        /\ buf' = [buf EXCEPT ![b] = Bread(b)]
        /\ Advance(p, "write_head")
        /\ UNCHANGED <<wrote, outstanding, committing, lh, pins, home, hdr,
                       panicked>>

\* Mutant of WriteHead: commit() erases the log without installing it.
WriteHeadNoInstall(p) ==
    /\ ~panicked
    /\ pc[p] = "write_head"
    /\ hdr' = lh
    /\ pc' = [pc EXCEPT ![p] = "erase"]
    /\ UNCHANGED <<tail, wrote, outstanding, committing, lh, buf, pins, home,
                   logblk, panicked>>

\* write_head(): the transaction commits.
WriteHead(p) ==
    /\ ~panicked
    /\ pc[p] = "write_head"
    /\ hdr' = lh
    /\ pc' = [pc EXCEPT ![p] = "install"]
    /\ UNCHANGED <<tail, wrote, outstanding, committing, lh, buf, pins, home,
                   logblk, panicked>>

\* One round of install_trans(recovering): log block -> home block.
InstallBlock(b, v, recovering) ==
    /\ buf' = [buf EXCEPT ![b] = v]
    /\ home' = [home EXCEPT ![b] = v]
    /\ pins' = IF recovering THEN pins ELSE [pins EXCEPT ![b] = @ - 1]

InstallTrans(p) ==
    /\ ~panicked
    /\ pc[p] = "install"
    /\ InstallBlock(lh[tail[p] + 1], logblk[tail[p] + 1], FALSE)
    /\ Advance(p, "erase")
    /\ UNCHANGED <<wrote, outstanding, committing, lh, logblk, hdr, panicked>>

\* log.lh.n = 0; write_head()
EraseHead(p) ==
    /\ ~panicked
    /\ pc[p] = "erase"
    /\ lh' = << >>
    /\ hdr' = << >>
    /\ pc' = [pc EXCEPT ![p] = "finish"]
    /\ UNCHANGED <<tail, wrote, outstanding, committing, buf, pins, home,
                   logblk, panicked>>

\* Mutant of Finish: no wakeup(&log) after the commit.
FinishSilently(p) ==
    /\ ~panicked
    /\ pc[p] = "finish"
    /\ committing' = FALSE
    /\ pc' = [pc EXCEPT ![p] = "idle"]
    /\ UNCHANGED <<tail, wrote, outstanding, lh, buf, pins, diskVars, panicked>>

\* end_op() after commit(): log.committing = 0; wakeup(&log).
Finish(p) ==
    /\ ~panicked
    /\ pc[p] = "finish"
    /\ committing' = FALSE
    /\ pc' = Wakeup([pc EXCEPT ![p] = "idle"])
    /\ UNCHANGED <<tail, wrote, outstanding, lh, buf, pins, diskVars, panicked>>

-----------------------------------------------------------------------------
(* recover_from_log(), before any other process exists. *)
ReadHead(p) ==
    /\ ~panicked
    /\ pc[p] = "read_head"
    /\ lh' = hdr
    /\ pc' = [pc EXCEPT ![p] = IF hdr = << >> THEN "rec_erase" ELSE "rec_install"]
    /\ UNCHANGED <<tail, wrote, outstanding, committing, buf, pins, diskVars,
                   panicked>>

RecoverInstall(p) ==
    /\ ~panicked
    /\ pc[p] = "rec_install"
    /\ InstallBlock(lh[tail[p] + 1], logblk[tail[p] + 1], TRUE)
    /\ Advance(p, "rec_erase")
    /\ UNCHANGED <<wrote, outstanding, committing, lh, logblk, hdr, panicked>>

RecoverErase(p) ==
    /\ ~panicked
    /\ pc[p] = "rec_erase"
    /\ lh' = << >>
    /\ hdr' = << >>
    /\ pc' = [q \in Procs |-> "idle"]
    /\ UNCHANGED <<tail, wrote, outstanding, committing, buf, pins, home,
                   logblk, panicked>>

-----------------------------------------------------------------------------
(* The buffer cache, as the log uses it: bget() recycles only a buffer     *)
(* whose reference count is zero, and a read brings a block in.            *)
Evict(b) ==
    /\ ~panicked
    /\ buf[b] # NotCached
    /\ pins[b] = 0
    /\ buf' = [buf EXCEPT ![b] = NotCached]
    /\ UNCHANGED <<pc, tail, wrote, outstanding, committing, lh, pins,
                   diskVars, panicked>>

Fill(b) ==
    /\ ~panicked
    /\ buf[b] = NotCached
    /\ \A p \in Procs : pc[p] \notin RecoverPC
    /\ buf' = [buf EXCEPT ![b] = home[b]]
    /\ UNCHANGED <<pc, tail, wrote, outstanding, committing, lh, pins,
                   diskVars, panicked>>

\* Power fails at any moment; memory is lost and the disk is kept.
Crash == /\ ~panicked
         /\ \E q \in Procs : pc' = BootPC(q)
         /\ tail' = [p \in Procs |-> 0]
         /\ wrote' = [p \in Procs |-> {}]
         /\ outstanding' = 0
         /\ committing' = FALSE
         /\ lh' = << >>
         /\ buf' = [b \in Blocks |-> NotCached]
         /\ pins' = [b \in Blocks |-> 0]
         /\ UNCHANGED <<diskVars, panicked>>

Step(p) == \/ EndOp(p) \/ Commit(p) \/ WriteLog(p) \/ WriteHead(p)
           \/ InstallTrans(p) \/ EraseHead(p) \/ Finish(p)
           \/ ReadHead(p) \/ RecoverInstall(p) \/ RecoverErase(p)

Next == \/ \E p \in Procs : BeginSleep(p) \/ BeginOp(p) \/ Step(p)
        \/ \E p \in Procs, b \in Blocks, v \in Values : LogWrite(p, b, v)
        \/ \E b \in Blocks : Evict(b) \/ Fill(b)
        \/ Crash

\* An operation ends, a commit and a recovery run to their end: the scheduler
\* is round robin and file-system code does not wait for user input.
Fairness == \A p \in Procs : WF_vars(Step(p))

SafeSpec == Init /\ [][Next]_vars
Spec == SafeSpec /\ Fairness

-----------------------------------------------------------------------------
TypeOK ==
    /\ pc \in [Procs -> PC]
    /\ tail \in [Procs -> Nat]
    /\ wrote \in [Procs -> SUBSET Blocks]
    /\ outstanding \in Nat
    /\ committing \in BOOLEAN
    /\ lh \in Seq(Blocks)
    /\ buf \in [Blocks -> Values \cup {NotCached}]
    /\ pins \in [Blocks -> Int]
    /\ home \in [Blocks -> Values]
    /\ logblk \in [1 .. LOGSIZE -> Values]
    /\ hdr \in Seq(Blocks)
    /\ panicked \in BOOLEAN

Running == {p \in Procs : pc[p] = "op"}

\* What recovery makes of the disk as it is now: the home blocks, overlaid by
\* the log blocks the header names.
Recovered ==
    [b \in Blocks |->
        IF \E i \in 1 .. Len(hdr) : hdr[i] = b
        THEN logblk[CHOOSE i \in 1 .. Len(hdr) : hdr[i] = b]
        ELSE home[b]]

Booting == \E p \in Procs : pc[p] \in RecoverPC

\* What readers see; during recovery there are none yet.
Mem == IF Booting THEN Recovered ELSE [b \in Blocks |-> Bread(b)]

Atomic == INSTANCE AtomicDisk
            WITH mem <- Mem, stable <- Recovered, active <- Running

\* The log implements the atomic disk: no write of an operation is durable
\* before the whole group commits, a crash at any point of the commit or of a
\* recovery leaves the last group that committed, and neither an eviction nor
\* an installation changes what readers see.
CrashAtomic == Atomic!Spec

\* Neither "too big a transaction", "log_write outside of trans" nor
\* "log.committing" panics: begin_op() reserves enough of the log.
NoPanic == ~panicked

\* commit() runs alone: one process, no operation in progress, the flag up.
CommitAlone ==
    \A p \in Procs : pc[p] \in CommitPC =>
        /\ committing
        /\ outstanding = 0
        /\ \A q \in Procs \ {p} : pc[q] \notin CommitPC \cup {"op"}

\* When no operation runs and no commit is under way, everything the finished
\* operations wrote survives a crash.
QuiescentDurable ==
    (outstanding = 0 /\ ~committing) => Mem = Recovered

\* A buffer that differs from its home block is pinned until it is installed,
\* once whatever the number of writes it absorbed.
DirtyPinned ==
    \A b \in Blocks :
        /\ pins[b] \in {0, 1}
        /\ Bread(b) # home[b] => pins[b] = 1

\* A process that begin_op() put to sleep is woken: every end_op() or the
\* commit it starts calls wakeup(&log).
SleepersWoken == \A p \in Procs : pc[p] = "asleep" ~> pc[p] # "asleep"
=============================================================================
