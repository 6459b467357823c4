------------------------------- MODULE MCLog -------------------------------
(* Small instances of the log for TLC. *)
EXTENDS Log, TLC

\* Processes and blocks are interchangeable.
Symmetry == Permutations(Procs) \cup Permutations(Blocks)
=============================================================================
