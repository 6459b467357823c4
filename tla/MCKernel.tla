------------------------------ MODULE MCKernel ------------------------------
(***************************************************************************)
(* Three parts of the kernel for TLC, side by side: processes (module      *)
(* Proc), traps and context switches (Trap) and open files (FileTable).  A *)
(* behaviour is one of one part; the others rest in their initial state.   *)
(* CPUs and the processes of Trap are interchangeable.                     *)
(***************************************************************************)
EXTENDS Proc, Trap, FileTable, TLC

VARIABLE part

kernelVars == <<part, vars, trapVars, fileVars>>

ASSUME KernelAssumption == ProcAssumption /\ TrapAssumption /\ FileTableAssumption

Symmetry == Permutations(CPUs) \cup Permutations(Threads)

KernelInit == part \in {"proc", "trap", "files"} /\ Init /\ TrapInit /\ FileInit

ProcPart == part = "proc" /\ Next /\ UNCHANGED <<part, trapVars, fileVars>>
TrapPart == part = "trap" /\ TrapNext /\ UNCHANGED <<part, vars, fileVars>>
FilesPart == part = "files" /\ FileNext /\ UNCHANGED <<part, vars, trapVars>>

KernelNext == ProcPart \/ TrapPart \/ FilesPart

KernelSpec == KernelInit /\ [][KernelNext]_kernelVars

View == CASE part = "proc" -> <<part, vars>>
          [] part = "trap" -> <<part, TrapView>>
          [] part = "files" -> <<part, FileView>>
=============================================================================
