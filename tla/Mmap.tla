-------------------------------- MODULE Mmap --------------------------------
(***************************************************************************)
(* Memory-mapped files (Assignment3/source: sys_mmap and sys_munmap of     *)
(* sysfile.c, the page-fault branch of usertrap() in trap.c) with fork(),  *)
(* exit() and wait() of proc.c as far as they touch mappings.              *)
(*                                                                         *)
(* Addresses count pages.  Window 0 is low user memory; slot s of the VMA  *)
(* table owns a window of W pages below the trapframe, the first slot the  *)
(* highest.  The program behaves well: it touches only pages it has mapped *)
(* and not unmapped, and it unmaps such pages, of one mapping at a time.   *)
(***************************************************************************)
EXTENDS Integers, FiniteSets, FiniteSetsExt

CONSTANTS Procs, First,   \* process-table entries and the one that runs first
          Files,          \* struct file entries, one descriptor each
          VMASIZE,        \* slots of p->vma
          W,              \* pages of a slot's window (8 in the code)
          MaxPages,       \* bound on the length of a mapping, at most W
          FamilyPages,    \* the same where processes fork
          FilePages,      \* length of each file in pages
          MaxOff,         \* bound on f->off, in pages
          Habits          \* the sets of habits to explore

NoFile == "none"            \* mapped_file == 0
Absent == <<0, "absent">>   \* no valid PTE

MmapAssumption ==
    /\ First \in Procs /\ IsFiniteSet(Procs) /\ NoFile \notin Files
    /\ VMASIZE \in Nat \ {0} /\ W \in Nat \ {0} /\ MaxPages \in 1 .. W
    /\ FamilyPages \in Nat /\ FilePages \in Nat /\ MaxOff \in Nat
    /\ FilePages =< MaxOff + 1
    /\ Habits \subseteq SUBSET {"fork", "fill", "untouched", "evicted"}

Slots == 0 .. VMASIZE - 1
TRAPFRAME == (VMASIZE + 1) * W
Addrs == 0 .. TRAPFRAME - 1
Start(s) == TRAPFRAME - (s + 1) * W

VARIABLES habits,   \* what may happen: the program forks, asks for more mappings
                    \* than slots or unmaps pages it has not touched; blocks of a
                    \* file are not in the buffer cache
          writable, \* the files opened O_RDWR
          state,   \* UNUSED, RUNNING or ZOMBIE
          parent, ofile, vma, pte,
          ref,     \* f->ref
          foff,    \* f->off, in pages
          fdata,   \* content of the file, one value per page
          mine,    \* pages the program regards as mapped
          crashed  \* a panic or a null dereference in the kernel

use == <<habits, writable>>
mmapVars == <<use, state, parent, ofile, vma, pte, ref, foff, fdata, mine, crashed>>

EmptyVma == [file |-> NoFile, len |-> 0, start |-> 0, shared |-> FALSE,
             write |-> FALSE, used |-> 0]
NoPages == [a \in Addrs |-> Absent]

MmapInit ==
        /\ habits \in Habits /\ writable \in SUBSET Files
        /\ state = [p \in Procs |-> IF p = First THEN "running" ELSE "unused"]
        /\ parent = [p \in Procs |-> First]
        /\ ofile = [p \in Procs |-> IF p = First THEN Files ELSE {}]
        /\ vma = [p \in Procs |-> [s \in Slots |-> EmptyVma]]
        /\ pte = [p \in Procs |-> NoPages]
        /\ ref = [f \in Files |-> 1]
        /\ foff = [f \in Files |-> 0]
        /\ fdata = [f \in Files |-> [k \in 0 .. MaxOff |-> <<k, "old">>]]
        /\ mine = [p \in Procs |-> {}]
        /\ crashed = FALSE

Running(p) == state[p] = "running" /\ ~crashed

Crash == /\ crashed' = TRUE
         /\ UNCHANGED <<use, state, parent, ofile, vma, pte, ref, foff, fdata, mine>>

\* Mutant of Filedup: the count is not raised.
FiledupNone(f) == ref

Filedup(f) == [ref EXCEPT ![f] = @ + 1]

-----------------------------------------------------------------------------
(* sys_mmap() *)
EmptySlots(p) == {s \in Slots : vma[p][s].file = NoFile /\ vma[p][s].len = 0}

\* Mutant of SetVma: used_length keeps the value of the slot's last mapping.
SetVmaStale(v, s, f, n, shared, write) ==
    [file |-> f, len |-> n, start |-> Start(s), shared |-> shared,
     write |-> write, used |-> v.used]

SetVma(v, s, f, n, shared, write) ==
    [file |-> f, len |-> n, start |-> Start(s), shared |-> shared,
     write |-> write, used |-> 0]

MmapFile(p, f, n, shared, write) ==
    /\ Running(p) /\ f \in ofile[p]
    /\ EmptySlots(p) # {}
    /\ LET s == Min(EmptySlots(p))
       IN  /\ vma' = [vma EXCEPT ![p][s] = SetVma(@, s, f, n, shared, write)]
           /\ mine' = [mine EXCEPT ![p] = @ \cup (Start(s) .. Start(s) + n - 1)]
    /\ "fork" \in habits => shared /\ n =< FamilyPages   \* bound
    /\ ~(shared /\ write /\ f \notin writable)
    /\ ref' = Filedup(f)
    /\ UNCHANGED <<use, state, parent, ofile, pte, foff, fdata, crashed>>

\* vma_searching() returns -1, which the caller does not test: set_vma() writes
\* outside the table.
MmapFull(p, f) ==
    /\ Running(p) /\ f \in ofile[p]
    /\ "fill" \in habits /\ EmptySlots(p) = {}
    /\ Crash

\* The permission check fails after get_file_from_fd() took a reference.
MmapDenied(p, f) ==
    /\ Running(p) /\ f \in ofile[p] \ writable
    /\ ref[f] < Cardinality(Procs) + VMASIZE   \* bound
    /\ ref' = Filedup(f)
    /\ UNCHANGED <<use, state, parent, ofile, vma, pte, foff, fdata, mine, crashed>>

-----------------------------------------------------------------------------
(* usertrap(), scause 13 or 15 *)

\* find_trap_vma() and find_unmap_vma(): the first slot whose window holds a,
\* whether or not the slot is in use.
Covering(p, a) == {s \in Slots : vma[p][s].start =< a /\ a < vma[p][s].start + W}

\* mapfile(): the page of the file at used_length, zeroes past its end.
PageContent(v) == IF v.used < FilePages THEN fdata[v.file][v.used]
                  ELSE <<v.used, "zero">>

\* memory_mapping(): the next page of the mapping, not the one touched.
\* "tbl" is the VMA table of p, to which lazy_copy() may have added.
MemoryMapping(p, tbl, s) ==
    LET v == tbl[s]
        a == v.start + v.used
    IN  IF v.file = NoFile \/ a >= TRAPFRAME \/ pte[p][a] # Absent
        THEN crashed' = TRUE /\ UNCHANGED <<vma, pte>>
        ELSE /\ pte' = [pte EXCEPT ![p][a] = PageContent(v)]
             /\ vma' = [vma EXCEPT ![p] = [tbl EXCEPT ![s].used = @ + 1]]
             /\ UNCHANGED crashed

Fault(p, a) ==
    /\ Running(p) /\ a \in mine[p] /\ pte[p][a] = Absent
    /\ Covering(p, a) # {}
    /\ MemoryMapping(p, vma[p], Min(Covering(p, a)))
    /\ UNCHANGED <<use, state, parent, ofile, ref, foff, fdata, mine>>

\* memory_mapping() holds p->lock, a spin-lock, around mapfile().  If the block
\* has to come from the disk, sleep() acquires p->lock again: panic("acquire").
FaultSleeps(p, a) ==
    /\ "evicted" \in habits /\ Running(p) /\ a \in mine[p] /\ pte[p][a] = Absent
    /\ Covering(p, a) # {} /\ vma[p][Min(Covering(p, a))].file # NoFile
    /\ Crash

\* lazy_copy(): the parent's mapping is taken over at the first fault.
Inherited(p, a) == LET v == vma[parent[p]][Min(Covering(parent[p], a))]
                   IN  [vma[p] EXCEPT ![Min(EmptySlots(p))] = [v EXCEPT !.used = 0]]

Inherits(p, a) == /\ Running(p) /\ a \in mine[p] /\ pte[p][a] = Absent
                  /\ Covering(p, a) = {}

CanInherit(p, a) == /\ Covering(parent[p], a) # {} /\ EmptySlots(p) # {}
                    /\ vma[parent[p]][Min(Covering(parent[p], a))].file # NoFile

LazyCopy(p, a) ==
    LET s == Min(EmptySlots(p))
    IN  /\ Inherits(p, a) /\ CanInherit(p, a)
        /\ ref' = Filedup(Inherited(p, a)[s].file)
        /\ MemoryMapping(p, Inherited(p, a), s)
        /\ UNCHANGED <<use, state, parent, ofile, foff, fdata, mine>>

\* memory_mapping() found no memory; its result is not looked at, and the
\* program faults again, now in a slot of its own.
LazyCopyNoMemory(p, a) ==
    /\ Inherits(p, a) /\ CanInherit(p, a)
    /\ ref' = Filedup(Inherited(p, a)[Min(EmptySlots(p))].file)
    /\ vma' = [vma EXCEPT ![p] = Inherited(p, a)]
    /\ UNCHANGED <<use, state, parent, ofile, pte, foff, fdata, mine, crashed>>

\* The parent has no such mapping, or the child no slot: a null pointer.
LazyCopyNull(p, a) == Inherits(p, a) /\ ~CanInherit(p, a) /\ Crash

\* The program stores to a page that is present and writable.
Store(p, a) ==
    /\ Running(p) /\ a \in mine[p] /\ pte[p][a] # Absent
    /\ Covering(p, a) # {}
    /\ LET v == vma[p][Min(Covering(p, a))]
       IN  /\ v.write
           /\ pte' = [pte EXCEPT ![p][a] = <<a - v.start, "new">>]
    /\ UNCHANGED <<use, state, parent, ofile, vma, ref, foff, fdata, mine, crashed>>

-----------------------------------------------------------------------------
(* sys_munmap() *)
Present(p, S) == {a \in S : pte[p][a] # Absent}

\* filewrite() of the pages a .. a+n-1: at f->off, one after the other, those
\* that are present.
WriteBack(p, f, S) ==
    IF f \notin writable THEN UNCHANGED <<foff, fdata>>
    ELSE LET from == foff[f]
             P    == Present(p, S)
             rank(a) == Cardinality({b \in P : b < a})
         IN  /\ from + Cardinality(P) =< MaxOff + 1     \* bound
             /\ foff' = [foff EXCEPT ![f] = @ + Cardinality(P)]
             /\ fdata' = [fdata EXCEPT ![f] = [k \in 0 .. MaxOff |->
                            IF \E a \in P : from + rank(a) = k
                            THEN pte[p][CHOOSE a \in P : from + rank(a) = k]
                            ELSE @[k]]]

\* The slot is cleared when nothing is left of its length.
Unmapped(v, n) == IF v.len - n =< 0 THEN [v EXCEPT !.file = NoFile, !.len = 0]
                  ELSE [v EXCEPT !.len = @ - n]

Uvmunmap(p, S) == [pte EXCEPT ![p] = [b \in Addrs |-> IF b \in S THEN Absent ELSE @[b]]]

\* The pages S, all of one mapping, which the program gives back.
Unmaps(p, S) ==
    /\ Running(p) /\ S \subseteq mine[p]
    /\ \E t \in Slots : S \subseteq Start(t) .. Start(t) + W - 1
    /\ "untouched" \in habits \/ Present(p, S) = S

Munmap(p, a, n) ==
    LET S == a .. a + n - 1
        s == Min(Covering(p, a))
        v == vma[p][s]
    IN  /\ Unmaps(p, S)
        /\ IF Covering(p, a) = {}        \* returns -1
           THEN UNCHANGED <<vma, pte, ref, foff, fdata>>
           ELSE /\ v.file # NoFile
                /\ WriteBack(p, v.file, S)
                /\ pte' = Uvmunmap(p, S)
                /\ vma' = [vma EXCEPT ![p][s] = Unmapped(@, n)]
                /\ ref' = IF vma'[p][s].file = NoFile
                          THEN [ref EXCEPT ![v.file] = @ - 1] ELSE ref
        /\ mine' = [mine EXCEPT ![p] = @ \ S]
        /\ UNCHANGED <<use, state, parent, ofile, crashed>>

\* The slot was left by an earlier owner of the process-table entry, and its
\* mapped_file is null: filewrite() dereferences it.
MunmapNull(p, a, n) ==
    /\ Unmaps(p, a .. a + n - 1)
    /\ Covering(p, a) # {} /\ vma[p][Min(Covering(p, a))].file = NoFile
    /\ Crash

-----------------------------------------------------------------------------
(* File descriptors and processes *)
Close(p, f) ==
    /\ Running(p) /\ f \in ofile[p]
    /\ ofile' = [ofile EXCEPT ![p] = @ \ {f}]
    /\ ref' = [ref EXCEPT ![f] = @ - 1]
    /\ UNCHANGED <<use, state, parent, vma, pte, foff, fdata, mine, crashed>>

\* fork(): descriptors are duplicated, uvmcopy() copies low memory only, and
\* the VMA table of the child is what its last owner left.
Fork(p, c) ==
    /\ Running(p) /\ "fork" \in habits /\ state[c] = "unused"
    /\ state' = [state EXCEPT ![c] = "running"]
    /\ parent' = [parent EXCEPT ![c] = p]
    /\ ofile' = [ofile EXCEPT ![c] = ofile[p]]
    /\ ref' = [f \in Files |-> IF f \in ofile[p] THEN ref[f] + 1 ELSE ref[f]]
    /\ mine' = [mine EXCEPT ![c] = mine[p]]
    /\ UNCHANGED <<use, vma, pte, foff, fdata, crashed>>

\* exit(): open files are closed; mappings are left alone.  A fault that finds
\* no memory ends here too.
Exit(p) ==
    /\ Running(p) /\ p # First
    /\ state' = [state EXCEPT ![p] = "zombie"]
    /\ ofile' = [ofile EXCEPT ![p] = {}]
    /\ ref' = [f \in Files |-> IF f \in ofile[p] THEN ref[f] - 1 ELSE ref[f]]
    /\ parent' = [c \in Procs |-> IF parent[c] = p THEN First ELSE parent[c]]
    /\ mine' = [mine EXCEPT ![p] = {}]
    /\ UNCHANGED <<use, vma, pte, foff, fdata, crashed>>

\* wait() -> freeproc() -> freewalk(), which panics on a page still mapped.
Wait(p) ==
    /\ state[p] = "zombie" /\ Running(parent[p])
    /\ IF pte[p] # NoPages THEN Crash
       ELSE /\ state' = [state EXCEPT ![p] = "unused"]
            /\ UNCHANGED <<use, parent, ofile, vma, pte, ref, foff, fdata, mine, crashed>>

MmapNext ==
    \E p \in Procs :
      \/ \E f \in Files, n \in 1 .. MaxPages, sh \in BOOLEAN, w \in BOOLEAN :
           MmapFile(p, f, n, sh, w)
      \/ \E f \in Files : MmapFull(p, f) \/ MmapDenied(p, f) \/ Close(p, f)
      \/ \E a \in Addrs : Fault(p, a) \/ FaultSleeps(p, a) \/ Store(p, a)
                        \/ LazyCopy(p, a) \/ LazyCopyNoMemory(p, a) \/ LazyCopyNull(p, a)
      \/ \E a \in Addrs, n \in 1 .. MaxPages : Munmap(p, a, n) \/ MunmapNull(p, a, n)
      \/ \E c \in Procs : Fork(p, c)
      \/ Exit(p)
      \/ Wait(p)

MmapSpec == MmapInit /\ [][MmapNext]_mmapVars

-----------------------------------------------------------------------------
(* Properties *)
Starts == {0} \cup {Start(s) : s \in Slots}
Vma == [file : Files \cup {NoFile}, len : Int, start : Starts,
        shared : BOOLEAN, write : BOOLEAN, used : Nat]
Contents == Int \X {"old", "zero", "new"}

TypeOK ==
    /\ habits \in SUBSET {"fork", "fill", "untouched", "evicted"}
    /\ writable \subseteq Files
    /\ state \in [Procs -> {"unused", "running", "zombie"}]
    /\ parent \in [Procs -> Procs]
    /\ ofile \in [Procs -> SUBSET Files]
    /\ vma \in [Procs -> [Slots -> Vma]]
    /\ pte \in [Procs -> [Addrs -> Contents \cup {Absent}]]
    /\ ref \in [Files -> Int]
    /\ foff \in [Files -> Nat]
    /\ fdata \in [Files -> [0 .. MaxOff -> Contents]]
    /\ mine \in [Procs -> SUBSET Addrs]
    /\ crashed \in BOOLEAN

\* The kernel survives a well-behaved program: no "freewalk: leaf", no
\* "mappages: remap", no null dereference.
KernelSurvives == ~crashed

Holders(f) == Cardinality({p \in Procs : f \in ofile[p]})
              + Cardinality({t \in Procs \X Slots : vma[t[1]][t[2]].file = f})

\* A file that a descriptor or a mapping still refers to is never released.
RefCovers == \A f \in Files : ref[f] >= Holders(f)

\* A page in memory holds the page of the file that belongs at its address,
\* as it was in the file or as the program changed it.
InPlace ==
    \A p \in Procs : \A a \in mine[p] :
        pte[p][a] # Absent /\ Covering(p, a) # {} =>
            pte[p][a][1] = a - vma[p][Min(Covering(p, a))].start

\* Nothing stays mapped once the program has unmapped it.
NothingLeft == \A p \in Procs, a \in Addrs : pte[p][a] # Absent => a \in mine[p]

\* A process of no habits, which maps no more than VMASIZE files, touches what
\* it unmaps and does not fork, meets no "mappages: remap" and no null
\* dereference; munmap() leaves none of its pages behind.  Every page that
\* memory_mapping() fills from a file opened for reading holds the page of the
\* file that belongs at its address, for mappings touched in any order and
\* slots used again.
PageInPlace ==
    habits = {} => NothingLeft /\ KernelSurvives /\ (writable = {} => InPlace)

\* MAP_PRIVATE: modifications are not written back to the file.
PrivateStaysPrivate ==
    (\A p \in Procs, s \in Slots : ~vma[p][s].shared)
        => \A f \in Files, k \in 0 .. MaxOff : fdata[f][k][2] # "new"

\* munmap() of a shared mapping writes a modified page to its place in the file.
SharedWrittenBack ==
    [][\A p \in Procs, a \in Addrs :
         (a \in mine[p] /\ a \notin mine'[p] /\ state'[p] = "running"
          /\ pte[p][a] # Absent /\ pte[p][a][2] = "new")
         => LET v == vma[p][Min(Covering(p, a))]
            IN  v.shared => fdata'[v.file][a - v.start] = pte[p][a]]_mmapVars
=============================================================================
