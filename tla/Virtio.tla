------------------------------- MODULE Virtio -------------------------------
(***************************************************************************)
(* The disk driver (kernel/virtio_disk.c) and the device behind it: the    *)
(* descriptors, the available ring and the used ring they share.           *)
(*                                                                         *)
(* Each client has one buffer and asks for blocks; two clients never ask   *)
(* for the same block at a time (module BufferCache).  A section under     *)
(* vdisk_lock is one action, except that the interrupt handler takes a     *)
(* step for each turn of its loop, as the device runs meanwhile.  The      *)
(* device reads the ring in order and finishes requests in any order.      *)
(***************************************************************************)
EXTENDS Integers, FiniteSets, FiniteSetsExt

CONSTANTS Clients, Sectors, Values,
          NUM,   \* descriptors, and entries of each ring
          MOD    \* ring indices are uint16: they count modulo MOD

VirtioAssumption ==
    /\ NUM \in Nat /\ NUM >= 3 /\ MOD \in Nat \ {0} /\ MOD % NUM = 0
    /\ Values # {}

Desc == 0 .. NUM - 1
Unset == "none"
Null == [at |-> "null", of |-> 0, next |-> NUM]   \* NUM: no VRING_DESC_F_NEXT

VARIABLES free, desc, ops, info,      \* struct disk
          availRing, availIdx,        \* disk.avail
          usedRing, usedIdx,          \* disk.used, written by the device
          lookedIdx,                  \* disk.used_idx: how far the driver looked
          taken, inflight,            \* the device: index reached, requests begun
          irq, intr,                  \* interrupt raised; handler in its loop
          vpc, head, blk, write,      \* virtio_disk_rw(): idx[0], b->blockno
          busy,                       \* b->disk
          dma, platter,               \* b->data, the blocks of the device
          panicked

driver == <<free, desc, ops, info, availRing, availIdx, lookedIdx, head, busy>>
device == <<usedRing, usedIdx, taken, inflight, dma, platter>>
driverVars == <<driver, device, irq, intr, vpc, blk, write, panicked>>

DriverInit == /\ free = Desc
              /\ desc = [d \in Desc |-> Null]
              /\ ops = [d \in Desc |-> Unset]
              /\ info = [d \in Desc |-> [b |-> Unset, status |-> 255]]
              /\ availRing = [d \in Desc |-> 0] /\ availIdx = 0
              /\ usedRing = [d \in Desc |-> 0] /\ usedIdx = 0
              /\ lookedIdx = 0 /\ taken = 0 /\ inflight = {}
              /\ irq = FALSE /\ intr = FALSE
              /\ vpc = [p \in Clients |-> "idle"]
              /\ head = [p \in Clients |-> 0]
              /\ blk = [p \in Clients |-> Unset]
              /\ write = [p \in Clients |-> FALSE]
              /\ busy = [p \in Clients |-> FALSE]
              /\ dma \in [Clients -> {CHOOSE v \in Values : TRUE}]
              /\ platter \in [Sectors -> {CHOOSE v \in Values : TRUE}]
              /\ panicked = FALSE

MoveTo(p, l) == vpc' = [vpc EXCEPT ![p] = l]
Unlocked == ~intr /\ ~panicked

-----------------------------------------------------------------------------
(* virtio_disk_rw(b, write) *)
Read(p, k) ==
    /\ ~panicked /\ vpc[p] = "idle" /\ \A q \in Clients : blk[q] # k
    /\ blk' = [blk EXCEPT ![p] = k]
    /\ write' = [write EXCEPT ![p] = FALSE]
    /\ MoveTo(p, "alloc")
    /\ UNCHANGED <<driver, device, irq, intr, panicked>>

Write(p, k, v) ==
    /\ ~panicked /\ vpc[p] = "idle" /\ \A q \in Clients : blk[q] # k
    /\ blk' = [blk EXCEPT ![p] = k]
    /\ write' = [write EXCEPT ![p] = TRUE]
    /\ dma' = [dma EXCEPT ![p] = v]
    /\ MoveTo(p, "alloc")
    /\ UNCHANGED <<driver, usedRing, usedIdx, taken, inflight, platter, irq, intr, panicked>>

\* wakeup(&disk.free[0])
Awake(q) == IF vpc[q] = "allocsleep" THEN "alloc" ELSE vpc[q]

\* alloc3_desc() fails and gives back what it got, with a wakeup.
AllocFails(p) ==
    /\ Unlocked /\ vpc[p] = "alloc" /\ Cardinality(free) < 3
    /\ vpc' = [q \in Clients |-> IF q = p THEN "allocsleep"
                                 ELSE IF free # {} THEN Awake(q) ELSE vpc[q]]
    /\ UNCHANGED <<driver, device, irq, intr, blk, write, panicked>>

\* alloc_desc(), three times: the lowest free descriptors.
Nth(n) == CHOOSE d \in free : Cardinality({c \in free : c < d}) = n

\* An index of a ring moves on.
Advanced(i) == (i + 1) % MOD

\* b->disk = 1
Marked(p) == [busy EXCEPT ![p] = TRUE]

\* The chain is formatted and its head put in the available ring.
Submit(p) ==
    LET d0 == Nth(0)
        d1 == Nth(1)
        d2 == Nth(2)
    IN  /\ Unlocked /\ vpc[p] = "alloc" /\ Cardinality(free) >= 3
        /\ free' = free \ {d0, d1, d2}
        /\ ops' = [ops EXCEPT ![d0] = [write |-> write[p], sector |-> blk[p]]]
        /\ desc' = [desc EXCEPT ![d0] = [at |-> "ops", of |-> d0, next |-> d1],
                                ![d1] = [at |-> "data", of |-> p, next |-> d2],
                                ![d2] = [at |-> "status", of |-> d0, next |-> NUM]]
        /\ info' = [info EXCEPT ![d0] = [b |-> p, status |-> 255]]
        /\ busy' = Marked(p)
        /\ head' = [head EXCEPT ![p] = d0]
        /\ availRing' = [availRing EXCEPT ![availIdx % NUM] = d0]
        /\ availIdx' = Advanced(availIdx)
        /\ MoveTo(p, "wait")
        /\ UNCHANGED <<lookedIdx, device, irq, intr, blk, write, panicked>>

\* while(b->disk == 1) sleep(b, &disk.vdisk_lock)
WaitSleep(p) ==
    /\ Unlocked /\ vpc[p] = "wait" /\ busy[p]
    /\ MoveTo(p, "iosleep")
    /\ UNCHANGED <<driver, device, irq, intr, blk, write, panicked>>

\* Mutant of Chain: the last descriptor is forgotten.
ChainShort(d) == {d, desc[d].next}

\* free_chain(): the descriptors linked from d.
Chain(d) == LET d1 == desc[d].next
            IN  {d} \cup IF d1 = NUM THEN {}
                         ELSE {d1} \cup ({desc[d1].next} \ {NUM})

FreeChain(p) ==
    /\ Unlocked /\ vpc[p] = "wait" /\ ~busy[p]
    /\ info' = [info EXCEPT ![head[p]].b = Unset]
    /\ panicked' = (Chain(head[p]) \cap free # {})
    /\ desc' = [d \in Desc |-> IF d \in Chain(head[p]) THEN Null ELSE desc[d]]
    /\ free' = free \cup Chain(head[p])
    /\ blk' = [blk EXCEPT ![p] = Unset]
    /\ head' = [head EXCEPT ![p] = 0]
    /\ vpc' = [q \in Clients |-> IF q = p THEN "idle" ELSE Awake(q)]
    /\ UNCHANGED <<ops, availRing, availIdx, lookedIdx, busy, device, irq, intr, write>>

-----------------------------------------------------------------------------
(* The device *)
DeviceTake ==
    /\ ~panicked /\ taken # availIdx
    /\ inflight' = inflight \cup {availRing[taken % NUM]}
    /\ taken' = (taken + 1) % MOD
    /\ UNCHANGED <<driver, usedRing, usedIdx, dma, platter, irq, intr, vpc, blk, write, panicked>>

\* Follow the chain: transfer the block, set the status, report the head.
DeviceDone(d) ==
    LET d1 == desc[d].next
        b  == desc[d1].of
        k  == ops[d].sector
    IN  /\ ~panicked /\ d \in inflight
        /\ inflight' = inflight \ {d}
        /\ platter' = IF ops[d].write THEN [platter EXCEPT ![k] = dma[b]] ELSE platter
        /\ dma' = IF ops[d].write THEN dma ELSE [dma EXCEPT ![b] = platter[k]]
        /\ info' = [info EXCEPT ![desc[desc[d1].next].of].status = 0]
        /\ usedRing' = [usedRing EXCEPT ![usedIdx % NUM] = d]
        /\ usedIdx' = (usedIdx + 1) % MOD
        /\ irq' = TRUE
        /\ UNCHANGED <<free, desc, ops, availRing, availIdx, lookedIdx, head, busy, taken,
                       intr, vpc, blk, write, panicked>>

-----------------------------------------------------------------------------
(* virtio_disk_intr() *)

\* The interrupt is acknowledged first.
IntrAck == /\ irq /\ Unlocked
           /\ irq' = FALSE
           /\ intr' = TRUE
           /\ UNCHANGED <<driver, device, vpc, blk, write, panicked>>

Completed == usedRing[lookedIdx % NUM]

\* One turn of the loop.
IntrOne ==
    LET id == Completed
        b  == info[id].b
    IN  /\ intr /\ ~panicked /\ lookedIdx # usedIdx
        /\ IF info[id].status # 0
           THEN panicked' = TRUE /\ UNCHANGED <<busy, lookedIdx, vpc>>
           ELSE /\ busy' = [busy EXCEPT ![b] = FALSE]
                /\ lookedIdx' = Advanced(lookedIdx)
                /\ vpc' = [vpc EXCEPT ![b] = IF @ = "iosleep" THEN "wait" ELSE @]
                /\ UNCHANGED panicked
        /\ UNCHANGED <<free, desc, ops, info, availRing, availIdx, head, device,
                       irq, intr, blk, write>>

\* Mutant of IntrEnd: the handler may stop at an entry of the ring.
IntrEndEarly == /\ intr /\ ~panicked
                /\ intr' = FALSE
                /\ UNCHANGED <<driver, device, irq, vpc, blk, write, panicked>>

IntrEnd == /\ intr /\ ~panicked /\ lookedIdx = usedIdx
           /\ intr' = FALSE
           /\ UNCHANGED <<driver, device, irq, vpc, blk, write, panicked>>

-----------------------------------------------------------------------------
Rw(p) == AllocFails(p) \/ Submit(p) \/ WaitSleep(p) \/ FreeChain(p)
Intr == IntrAck \/ IntrOne \/ IntrEnd
Device == DeviceTake \/ \E d \in Desc : DeviceDone(d)

DriverNext == \/ \E p \in Clients : Rw(p)
              \/ \E p \in Clients, k \in Sectors : Read(p, k) \/ \E v \in Values : Write(p, k, v)
              \/ Intr \/ Device

DriverSpec == DriverInit /\ [][DriverNext]_driverVars

-----------------------------------------------------------------------------
Submitted == {p \in Clients : vpc[p] \in {"wait", "iosleep"}}

\* The descriptors are shared out exactly: every one is free or in the chain
\* of one request, whatever the order in which requests end; none is freed
\* twice ("free_desc 2"), and no request is reported before its status is
\* written ("virtio_disk_intr status").
ChainsPartition ==
    /\ \A p, q \in Submitted : p # q => Chain(head[p]) \cap Chain(head[q]) = {}
    /\ free = Desc \ UNION {Chain(head[p]) : p \in Submitted}
    /\ ~panicked

\* A process that finds b->disk clear has its block: the buffer and the disk
\* agree, although requests complete out of order and indices wrap around.
\* And no entry of the used ring is overlooked: the handler is at it, or an
\* interrupt is pending.  (The comment in virtio_disk_intr() calls the race
\* of the acknowledgement with the device harmless.)
TransferRight ==
    /\ \A p \in Submitted : ~busy[p] => dma[p] = platter[blk[p]]
    /\ lookedIdx # usedIdx => intr \/ irq
=============================================================================
