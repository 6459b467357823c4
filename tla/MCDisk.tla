------------------------------- MODULE MCDisk -------------------------------
(***************************************************************************)
(* The two layers below the file system, side by side: a behaviour is one  *)
(* of the buffer cache (module BufferCache) or one of the disk driver with *)
(* its device (module Virtio).  They share no state, so each layer is      *)
(* explored on its own and the other one rests.                            *)
(*                                                                         *)
(* The driver's clients and sectors are interchangeable.                   *)
(***************************************************************************)
EXTENDS BufferCache, Virtio, TLC

VARIABLE layer

diskVars == <<layer, vars, driverVars>>

ASSUME DiskAssumption == CacheAssumption /\ VirtioAssumption

DiskInit == layer \in {"cache", "driver"} /\ Init /\ DriverInit

DiskNext == \/ layer = "cache" /\ Next /\ UNCHANGED <<layer, driverVars>>
            \/ layer = "driver" /\ DriverNext /\ UNCHANGED <<layer, vars>>

DiskSpec == DiskInit /\ [][DiskNext]_diskVars

Symmetry == Permutations(Clients) \cup Permutations(Sectors)

\* States that differ only in memory nobody reads again are identified: ring
\* entries already consumed, the request of a descriptor that heads no chain,
\* the buffer of a client without a request.
LiveMemory ==
    LET Between(i, j) == {(i + n) % NUM : n \in 0 .. ((j - i) % MOD) - 1}
        Heads == {head[p] : p \in Submitted}
        Active == {p \in Clients : vpc[p] # "idle"}
    IN  <<layer, vars, free, desc, [d \in Heads |-> <<ops[d], info[d]>>],
          availIdx, [d \in Between(taken, availIdx) |-> availRing[d]],
          usedIdx, [d \in Between(lookedIdx, usedIdx) |-> usedRing[d]],
          lookedIdx, taken, inflight, irq, intr, vpc, head, blk, busy,
          [p \in Active |-> <<write[p], dma[p]>>], platter, panicked>>
=============================================================================
