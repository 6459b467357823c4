----------------------------- MODULE AtomicDisk -----------------------------
(***************************************************************************)
(* What the logging layer of the kernel promises to the file system: a     *)
(* disk whose content changes atomically at points where no file-system    *)
(* operation is running, and which a crash takes back to the last such     *)
(* point.                                                                  *)
(***************************************************************************)
CONSTANTS Procs,    \* processes that run file-system operations
          Blocks,   \* home blocks of the file system
          Values    \* contents of a block

VARIABLES mem,      \* what a reader of the block sees
          stable,   \* what a crash would leave
          active    \* processes between begin_op() and end_op()

vars == <<mem, stable, active>>

TypeOK == /\ mem \in [Blocks -> Values]
          /\ stable \in [Blocks -> Values]
          /\ active \in SUBSET Procs

Init == /\ stable \in [Blocks -> Values]
        /\ mem = stable
        /\ active = {}

Begin(p) == /\ p \notin active
            /\ active' = active \cup {p}
            /\ UNCHANGED <<mem, stable>>

Write(p, b, v) == /\ p \in active
                  /\ mem' = [mem EXCEPT ![b] = v]
                  /\ UNCHANGED <<stable, active>>

End(p) == /\ p \in active
          /\ active' = active \ {p}
          /\ UNCHANGED <<mem, stable>>

\* The only step that makes anything durable: never in the middle of an
\* operation, and always everything.
Commit == /\ active = {}
          /\ stable' = mem
          /\ UNCHANGED <<mem, active>>

Crash == /\ mem' = stable
         /\ active' = {}
         /\ UNCHANGED stable

Next == \/ \E p \in Procs : Begin(p) \/ End(p)
        \/ \E p \in Procs, b \in Blocks, v \in Values : Write(p, b, v)
        \/ Commit
        \/ Crash

Spec == Init /\ [][Next]_vars
=============================================================================
