------------------------------ MODULE MCMemory ------------------------------
(***************************************************************************)
(* Three small systems for TLC, side by side.  "mmap": files mapped by a   *)
(* process without habits, which avoids all careless but legal things, and *)
(* by processes that fork, share a writable file, fill the VMA table,      *)
(* unmap pages they never touched and meet blocks that are not in the      *)
(* buffer cache, so that the kernel may go down (Mmap, whose variables,    *)
(* constants and properties are the module's own).  "vm": page tables and  *)
(* programs (Memory).  "heap": malloc() (Heap).  A behaviour is one of one *)
(* system; the variables of the others rest.                               *)
(***************************************************************************)
EXTENDS Mmap, Sequences

CONSTANTS Systems,                 \* the ones to explore
          VmProcs, PGSIZE, FAN, ALIGN, MAXARG, KernelEnd, PHYSTOP,   \* Memory
          Vectors, Targets, VmPages, Word,
          Sizes, MINCORE, Limit, Foreign                     \* Heap

VARIABLES system,
          mem, proc,
          ptr, size, freep, brk, held

vmVars == <<mem, proc>>
heapVars == <<ptr, size, freep, brk, held>>
vars == <<system, mmapVars, vmVars, heapVars>>

\* Programs of two segments, one of them refused by exec() because the file is
\* longer than the memory, and of one that reaches past the end of the file.
Seg(vaddr, filesz, memsz, off, flags) ==
    [vaddr |-> vaddr, filesz |-> filesz, memsz |-> memsz, off |-> off, flags |-> flags]
Prog(segs) == [elf |-> TRUE, segs |-> segs, file |-> [i \in 1 .. 8 |-> 200 + i]]
Programs == {Prog(<<Seg(0, 2, 4, 2, {"X"}), Seg(PGSIZE, 1, 3, 0, {"W"})>>),
             Prog(<<Seg(0, 2, 4, 0, {"X"}), Seg(PGSIZE, 3, 2, 0, {"W"})>>),
             Prog(<<Seg(0, 4, 6, 6, {"X"})>>)}
\* The first page of init: a vector <<5, 7>> at 0 and more than MAXARG
\* arguments at 3.
InitCode == [i \in 0 .. PGSIZE - 1 |-> <<5, 7, 0, 7, 7, 1, 0, 0>>[i + 1]]

Vm == INSTANCE Memory WITH Procs <- VmProcs, MaxPages <- VmPages, End <- KernelEnd,
                           Increments <- {12, -12, -100}
Heap == INSTANCE Heap WITH mine <- held

ASSUME MemoryAssumption ==
    /\ MmapAssumption
    /\ Vm!MemoryAssumption /\ PGSIZE = 8 /\ Heap!HeapAssumption

Rest == <<>>
VmRests == mem = Rest /\ proc = Rest
HeapRests == ptr = Rest /\ size = Rest /\ freep = Rest /\ brk = Rest /\ held = Rest

Init == /\ system \in Systems
        /\ MmapInit
        /\ writable = IF "fork" \in habits THEN Files ELSE {}   \* bound
        /\ \/ system = "mmap" /\ VmRests /\ HeapRests
           \/ system = "vm" /\ Vm!Init /\ HeapRests /\ habits = {}
           \/ system = "heap" /\ Heap!Init /\ VmRests /\ habits = {}

MappedNext == system = "mmap" /\ MmapNext /\ UNCHANGED <<system, vmVars, heapVars>>
VmNext == system = "vm" /\ Vm!Next /\ UNCHANGED <<system, mmapVars, heapVars>>
HeapNext == system = "heap" /\ Heap!Next /\ UNCHANGED <<system, mmapVars, vmVars>>

Next == MappedNext \/ VmNext \/ HeapNext

Spec == Init /\ [][Next]_vars

\* Where processes fork, what the pages contain decides nothing.
Mapped == [p \in Procs |-> {a \in Addrs : pte[p][a] # Absent}]
Tables == [p \in Procs |-> [s \in Slots |-> [vma[p][s] EXCEPT !.write = TRUE]]]
View == IF system = "mmap" /\ "fork" \in habits
        THEN <<use, state, parent, ofile, Tables, Mapped, ref, foff, mine, crashed>>
        ELSE IF system = "vm" THEN <<system, Vm!View>> ELSE <<system, mmapVars, heapVars>>

-----------------------------------------------------------------------------
\* Every physical page is free once or has one use, whichever kalloc() of
\* fork(), exec() and sbrk() failed, and no call panics on the way back.
PagesAccounted == system = "vm" => Vm!PagesAccounted /\ Vm!NoPanic

\* fork(), exec(), sbrk() and the copies to user memory implement private
\* address spaces: a call changes its own process's pages as it promises, or
\* nothing.
AddressSpaces == [][system = "vm" => Vm!Abstract!Next \/ UNCHANGED Vm!Spaces]_vars

\* Blocks of the program and of malloc()'s free list never overlap.
HeapSound == system = "heap" => Heap!HeapSound
=============================================================================
