------------------------------- MODULE Memory -------------------------------
(***************************************************************************)
(* Physical pages, page tables and the images of processes                 *)
(* (Assignment3/initial_code/kernel: kalloc.c, vm.c, exec.c, the memory    *)
(* part of proc.c, sys_exec of sysfile.c).                                 *)
(*                                                                         *)
(* The three-level page tables are kept as they lie in physical pages; a   *)
(* table has FAN entries (512 in the code), addresses count bytes, and a   *)
(* user pointer takes one byte.  Functions of the kernel are operators     *)
(* from a memory to a memory; each system call is one action.  The only    *)
(* state it shares with other CPUs while it runs is the free list, so the  *)
(* others are felt through one number: how many calls of kalloc() succeed  *)
(* before they have emptied the list (left).                               *)
(***************************************************************************)
EXTENDS Integers, Sequences, FiniteSets, FiniteSetsExt, SequencesExt

CONSTANTS Procs,            \* slots of the process table, 1 .. n; 1 is init
          PGSIZE, FAN,      \* bytes of a page, entries of a table
          ALIGN,            \* alignment of the stack pointer (16)
          MAXARG,
          End, PHYSTOP,     \* first free byte behind the kernel, end of RAM
          Programs,         \* files: [elf, segs, file]
          InitCode,         \* content of the first page of init
          Increments,       \* arguments of sbrk()
          Vectors,          \* user addresses of argument vectors
          Targets,          \* user addresses the kernel copies to
          MaxPages,         \* bound on the pages of a process
          Word              \* 2^64, scaled: unsigned sums wrap around here

MAXVA == PGSIZE * FAN^3
TRAMPOLINE == MAXVA - PGSIZE
TRAPFRAME == TRAMPOLINE - PGSIZE
Mark == MAXVA - 1           \* the byte copied to the user

PGROUNDUP(sz) == ((sz + PGSIZE - 1) \div PGSIZE) * PGSIZE
PGROUNDDOWN(a) == (a \div PGSIZE) * PGSIZE
PX(level, va) == (va \div (PGSIZE * FAN^level)) % FAN
Pages == {a \in End .. PHYSTOP - 1 : a % PGSIZE = 0 /\ a + PGSIZE <= PHYSTOP}
trampoline == PHYSTOP       \* stands for the page in the kernel's text

MemoryAssumption ==
    /\ PGSIZE > 0 /\ FAN > 1 /\ ALIGN > 0 /\ End > 0 /\ PHYSTOP < Word
    /\ 1 \in Procs /\ MaxPages * PGSIZE < TRAPFRAME /\ MAXVA < Word
    \* memory ends before user addresses do
    /\ Cardinality(Pages) * PGSIZE < TRAPFRAME

VARIABLES mem,    \* content of the physical pages, free list, budget, panic
          proc    \* pagetable, trapframe, sz and registers of each process

vars == <<mem, proc>>

Bytes == 0 .. PGSIZE - 1
Fill(c) == [i \in Bytes |-> c]
NoPte == [pa |-> 0, perm |-> {}]
EmptyTable == [i \in 0 .. FAN - 1 |-> NoPte]
V(pte) == "V" \in pte.perm
Leaf(pte) == pte.perm \cap {"R", "W", "X"} # {}
\* The addresses of the pages from a up to, not including, b.
Steps(a, b) == [k \in 1 .. (PGROUNDUP(b - a) \div PGSIZE) |-> a + (k - 1) * PGSIZE]
Panic(m, why) == [m EXCEPT !.panic = why]
Answer(m, r) == [m |-> m, r |-> r]
\* Calls whose outcome the rest of a function goes on from.
With(x, F(_)) == F(x)

-----------------------------------------------------------------------------
(* kalloc.c.  free counts how often a page is on the list.                  *)

kfree(m, pa) ==
    IF pa \notin Pages THEN Panic(m, "kfree")
    ELSE [m EXCEPT !.ram[pa] = Fill(1), !.free[pa] = @ + 1]

kalloc(m) ==
    LET ready == {pa \in Pages : m.free[pa] > 0}
        Take(pa) == Answer([m EXCEPT !.free[pa] = @ - 1, !.left = @ - 1, !.ram[pa] = Fill(5)], pa)
    IN  IF m.left = 0 \/ ready = {} THEN Answer(m, 0) ELSE Take(Min(ready))

freerange(m, start, end) ==
    FoldLeft(kfree, m, SelectSeq(Steps(PGROUNDUP(start), end), LAMBDA p : p + PGSIZE <= end))

kinit == freerange([ram |-> [pa \in Pages |-> Fill(0)], free |-> [pa \in Pages |-> 0],
                    left |-> 0, panic |-> ""], End, PHYSTOP)

-----------------------------------------------------------------------------
(* vm.c: page tables.                                                       *)

\* The table that holds the entry of va, 0 when there is none.
walk(m, pagetable, va, alloc) ==
    LET Down(w, level) ==
          LET i == PX(level, va)
              pte == w.m.ram[w.r][i]
          IN  IF w.r = 0 THEN w
              ELSE IF V(pte) THEN Answer(w.m, pte.pa)
              ELSE IF ~alloc THEN Answer(w.m, 0)
              ELSE With(kalloc(w.m), LAMBDA k :
                     IF k.r = 0 THEN k
                     ELSE Answer([k.m EXCEPT !.ram[k.r] = EmptyTable,
                                             !.ram[w.r][i] = [pa |-> k.r, perm |-> {"V"}]], k.r))
    IN  IF va >= MAXVA THEN Answer(Panic(m, "walk"), 0)
        ELSE Down(Down(Answer(m, pagetable), 2), 1)

Entry(m, table, va) == m.ram[table][PX(0, va)]
SetEntry(m, table, va, pte) == [m EXCEPT !.ram[table][PX(0, va)] = pte]
PteOf(m, pagetable, va) ==
    With(walk(m, pagetable, va, FALSE).r,
         LAMBDA t : IF t = 0 THEN NoPte ELSE Entry(m, t, va))

walkaddr(m, pagetable, va) ==
    IF va >= MAXVA THEN 0
    ELSE With(PteOf(m, pagetable, va),
              LAMBDA pte : IF V(pte) /\ "U" \in pte.perm THEN pte.pa ELSE 0)

mappages(m, pagetable, va, size, pa, perm) ==
    LET Fit(w, a) ==
          IF w.r = 0 THEN Answer(w.m, FALSE)
          ELSE IF V(Entry(w.m, w.r, a)) THEN Answer(Panic(w.m, "mappages: remap"), FALSE)
          ELSE Answer(SetEntry(w.m, w.r, a, [pa |-> pa + a - PGROUNDDOWN(va),
                                             perm |-> perm \cup {"V"}]), TRUE)
        One(x, a) == IF x.r THEN Fit(walk(x.m, pagetable, a, TRUE), a) ELSE x
    IN  FoldLeft(One, Answer(m, TRUE), Steps(PGROUNDDOWN(va), va + size))

uvmunmap(m, pagetable, va, npages, do_free) ==
    LET Clear(x, table, a) ==
          LET pte == Entry(x, table, a) IN
          IF table = 0 THEN Panic(x, "uvmunmap: walk")
          ELSE IF ~V(pte) THEN x
          ELSE IF pte.perm = {"V"} THEN Panic(x, "uvmunmap: not a leaf")
          ELSE SetEntry(IF do_free THEN kfree(x, pte.pa) ELSE x, table, a, NoPte)
        One(x, a) == Clear(x, walk(x, pagetable, a, FALSE).r, a)
    IN  FoldLeft(One, m, Steps(va, va + npages * PGSIZE))

uvmcreate(m) ==
    With(kalloc(m), LAMBDA k :
      IF k.r = 0 THEN k ELSE Answer([k.m EXCEPT !.ram[k.r] = EmptyTable], k.r))

\* Mutant: the pages are unmapped but not freed.
uvmdeallocKeep(m, pagetable, oldsz, newsz) ==
    IF newsz >= oldsz THEN Answer(m, oldsz)
    ELSE Answer(uvmunmap(m, pagetable, PGROUNDUP(newsz),
                         (PGROUNDUP(oldsz) - PGROUNDUP(newsz)) \div PGSIZE, FALSE), newsz)

uvmdealloc(m, pagetable, oldsz, newsz) ==
    IF newsz >= oldsz THEN Answer(m, oldsz)
    ELSE Answer(uvmunmap(m, pagetable, PGROUNDUP(newsz),
                         (PGROUNDUP(oldsz) - PGROUNDUP(newsz)) \div PGSIZE, TRUE), newsz)

uvmalloc(m, pagetable, oldsz, newsz, xperm) ==
    LET base == PGROUNDUP(oldsz)
        undo(y, a) == Answer(uvmdealloc(y, pagetable, a, base).m, FALSE)
        Add(k, a) ==
          IF k.r = 0 THEN undo(k.m, a)
          ELSE With(mappages([k.m EXCEPT !.ram[k.r] = Fill(0)], pagetable, a, PGSIZE, k.r,
                             {"R", "U"} \cup xperm), LAMBDA mp :
                 IF mp.r THEN mp ELSE undo(kfree(mp.m, k.r), a))
        One(x, a) == IF x.r THEN Add(kalloc(x.m), a) ELSE x
    IN  IF newsz < oldsz THEN Answer(m, oldsz)
        ELSE With(FoldLeft(One, Answer(m, TRUE), Steps(base, newsz)),
                  LAMBDA all : Answer(all.m, IF all.r THEN newsz ELSE 0))

RECURSIVE freewalk(_, _)
freewalk(m, table) ==
    LET One(x, i) == LET pte == x.ram[table][i] IN
                     IF V(pte) /\ ~Leaf(pte)
                     THEN [freewalk(x, pte.pa) EXCEPT !.ram[table][i] = NoPte]
                     ELSE IF V(pte) THEN Panic(x, "freewalk: leaf") ELSE x
    IN  kfree(FoldLeft(One, m, [i \in 1 .. FAN |-> i - 1]), table)

uvmfree(m, pagetable, sz) ==
    freewalk(IF sz > 0 THEN uvmunmap(m, pagetable, 0, PGROUNDUP(sz) \div PGSIZE, TRUE) ELSE m,
             pagetable)

uvmcopy(m, old, new, sz) ==
    LET One(x, i) ==
          LET undo(y) == Answer(uvmunmap(y, new, 0, i \div PGSIZE, TRUE), FALSE)
              Copy(k, pte) ==
                IF k.r = 0 THEN undo(k.m)
                ELSE With(mappages([k.m EXCEPT !.ram[k.r] = x.m.ram[pte.pa]], new, i, PGSIZE,
                                   k.r, pte.perm), LAMBDA mp :
                       IF mp.r THEN mp ELSE undo(kfree(mp.m, k.r)))
          IN  IF ~x.r THEN x
              ELSE IF walk(x.m, old, i, FALSE).r = 0
                   THEN Answer(Panic(x.m, "uvmcopy: pte should exist"), FALSE)
              ELSE With(PteOf(x.m, old, i), LAMBDA pte :
                     IF V(pte) THEN Copy(kalloc(x.m), pte) ELSE x)
    IN  FoldLeft(One, Answer(m, TRUE), Steps(0, sz))

\* Mutant: the guard page stays accessible.
uvmclearNot(m, pagetable, va) == m

uvmclear(m, pagetable, va) ==
    With(walk(m, pagetable, va, FALSE).r, LAMBDA t :
      IF t = 0 THEN Panic(m, "uvmclear")
      ELSE SetEntry(m, t, va, [Entry(m, t, va) EXCEPT !.perm = @ \ {"U"}]))

-----------------------------------------------------------------------------
(* vm.c: copies between the kernel and a process, page by page.  A copy out *)
(* that meets a page it may not use has already written the pages before.   *)

Touched(va, len) == Steps(PGROUNDDOWN(va), va + len)

copyout(m, pagetable, dstva, src) ==
    LET Move(x, va0, pa0) ==
          IF pa0 = 0 THEN Answer(x.m, FALSE)
          ELSE Answer([x.m EXCEPT !.ram[pa0] =
                         [i \in Bytes |-> IF va0 + i - dstva \in 0 .. Len(src) - 1
                                          THEN src[va0 + i - dstva + 1] ELSE @[i]]], TRUE)
        One(x, va0) == IF x.r THEN Move(x, va0, walkaddr(x.m, pagetable, va0)) ELSE x
    IN  FoldLeft(One, Answer(m, TRUE), IF src = <<>> THEN <<>> ELSE Touched(dstva, Len(src)))

copyin(m, pagetable, srcva, len) ==
    LET pa(a) == walkaddr(m, pagetable, PGROUNDDOWN(a)) IN
    IF \E i \in 0 .. len - 1 : pa(srcva + i) = 0 THEN Answer(<<>>, FALSE)
    ELSE Answer([i \in 1 .. len |-> m.ram[pa(srcva + i - 1)][(srcva + i - 1) % PGSIZE]], TRUE)

\* The string at srcva without its null, if that comes within max bytes and
\* before a page the process may not use.
copyinstr(m, pagetable, srcva, max) ==
    LET null(c) == c.r /\ Last(c.m) = 0
        found == {n \in 1 .. max : null(copyin(m, pagetable, srcva, n))}
    IN  With(found, LAMBDA ns :
          IF ns = {} THEN Answer(<<>>, FALSE)
          ELSE Answer(Front(copyin(m, pagetable, srcva, Min(ns)).m), TRUE))

-----------------------------------------------------------------------------
(* proc.c: the memory of a process.  Its trapframe page holds a1 and a0.    *)

proc_pagetable(m, trapframe) ==
    LET Trapframe(t, pt) ==
          With(mappages(t, pt, TRAPFRAME, PGSIZE, trapframe, {"R", "W"}), LAMBDA f :
            IF f.r THEN Answer(f.m, pt)
            ELSE Answer(uvmfree(uvmunmap(f.m, pt, TRAMPOLINE, 1, FALSE), pt, 0), 0))
        Trampoline(c) ==
          With(mappages(c.m, c.r, TRAMPOLINE, PGSIZE, trampoline, {"R", "X"}), LAMBDA t :
            IF t.r THEN Trapframe(t.m, c.r) ELSE Answer(uvmfree(t.m, c.r, 0), 0))
    IN  With(uvmcreate(m), LAMBDA c : IF c.r = 0 THEN c ELSE Trampoline(c))

proc_freepagetable(m, pagetable, sz) ==
    uvmfree(uvmunmap(uvmunmap(m, pagetable, TRAMPOLINE, 1, FALSE), pagetable, TRAPFRAME, 1, FALSE),
            pagetable, sz)

Unused == [trapframe |-> 0, pagetable |-> 0, sz |-> 0]
Used(p) == proc[p] # Unused

freeproc(m, p) ==
    LET n == IF p.trapframe = 0 THEN m ELSE kfree(m, p.trapframe) IN
    IF p.pagetable = 0 THEN n ELSE proc_freepagetable(n, p.pagetable, p.sz)

\* A process without user memory; Unused when memory runs out.
allocproc(m) ==
    LET Pagetable(t) ==
          With(proc_pagetable(t.m, t.r), LAMBDA g :
            LET p == [Unused EXCEPT !.trapframe = t.r, !.pagetable = g.r] IN
            IF g.r = 0 THEN Answer(freeproc(g.m, p), Unused) ELSE Answer(g.m, p))
    IN  With(kalloc(m), LAMBDA t :
          IF t.r = 0 THEN Answer(freeproc(t.m, Unused), Unused) ELSE Pagetable(t))

uvmfirst(m, pagetable, src) ==
    With(kalloc(m), LAMBDA k :
      [mappages([k.m EXCEPT !.ram[k.r] = Fill(0)], pagetable, 0, PGSIZE, k.r,
                {"W", "R", "X", "U"}).m EXCEPT !.ram[k.r] = src])

userinit ==
    With(allocproc([kinit EXCEPT !.left = Cardinality(Pages)]), LAMBDA a :
      Answer(uvmfirst(a.m, a.r.pagetable, InitCode), [a.r EXCEPT !.sz = PGSIZE]))

growproc(m, p, n) ==
    LET sz == (p.sz + n) % Word
        Up(x) == Answer(x.m, IF x.r = 0 THEN p ELSE [p EXCEPT !.sz = x.r])
        Down(x) == Answer(x.m, [p EXCEPT !.sz = x.r])
    IN  IF n > 0 THEN Up(uvmalloc(m, p.pagetable, p.sz, sz, {"W"}))
        ELSE IF n < 0 THEN Down(uvmdealloc(m, p.pagetable, p.sz, sz))
        ELSE Answer(m, p)

\* The child, or Unused.
fork(m, p) ==
    LET Copied(c, np) ==
          IF ~c.r THEN Answer(freeproc(c.m, np), Unused)
          ELSE Answer([c.m EXCEPT !.ram[np.trapframe] = [c.m.ram[p.trapframe] EXCEPT ![1] = 0]],
                      [np EXCEPT !.sz = p.sz])
    IN  With(allocproc(m), LAMBDA a :
          IF a.r = Unused THEN a
          ELSE Copied(uvmcopy(a.m, p.pagetable, a.r.pagetable, p.sz), a.r))

-----------------------------------------------------------------------------
(* exec.c                                                                   *)

flags2perm(flags) == flags \cap {"X", "W"}

loadseg(m, pagetable, ph, file) ==
    LET Load(m1, i, n, pa) ==
          IF pa = 0 THEN Answer(Panic(m1, "loadseg: address should exist"), FALSE)
          ELSE IF ph.off + i + n > Len(file) THEN Answer(m1, FALSE)   \* readi() is short
          ELSE Answer([m1 EXCEPT !.ram[pa] =
                         [b \in Bytes |-> IF b < n THEN file[ph.off + i + b + 1] ELSE @[b]]], TRUE)
        One(x, i) == IF x.r THEN Load(x.m, i, Min({ph.filesz - i, PGSIZE}),
                                      walkaddr(x.m, pagetable, ph.vaddr + i))
                     ELSE x
    IN  FoldLeft(One, Answer(m, TRUE), Steps(0, ph.filesz))

\* The loadable segments of a program, one after the other; r is sz, or -1.
LoadSegments(m, pagetable, prog) ==
    LET end(ph) == (ph.vaddr + ph.memsz) % Word
        Load(x, u, ph) ==
          IF u.r = 0 THEN [x EXCEPT !.m = u.m, !.ok = FALSE]
          ELSE With(loadseg(u.m, pagetable, ph, prog.file),
                    LAMBDA l : [m |-> l.m, sz |-> u.r, ok |-> l.r])
        One(x, ph) ==
          IF ~x.ok THEN x
          ELSE IF ph.memsz < ph.filesz \/ end(ph) < ph.vaddr \/ ph.vaddr % PGSIZE # 0
               THEN [x EXCEPT !.ok = FALSE]
          ELSE Load(x, uvmalloc(x.m, pagetable, x.sz, end(ph), flags2perm(ph.flags)), ph)
    IN  FoldLeft(One, [m |-> m, sz |-> 0, ok |-> TRUE], prog.segs)

\* Strings and vector of argv[] below the top of the stack.
PushArgs(m, pagetable, top, argv) ==
    LET stackbase == top - PGSIZE
        Push(x, bytes) ==
          LET sp == ((x.sp - Len(bytes)) \div ALIGN) * ALIGN IN
          IF ~x.ok THEN x
          ELSE IF sp < stackbase THEN [x EXCEPT !.ok = FALSE]
          ELSE With(copyout(x.m, pagetable, sp, bytes), LAMBDA c :
                 [m |-> c.m, sp |-> sp, ustack |-> Append(x.ustack, sp), ok |-> c.r])
    IN  With(FoldLeft(LAMBDA x, arg : Push(x, Append(arg, 0)),
                      [m |-> m, sp |-> top, ustack |-> <<>>, ok |-> TRUE], argv), LAMBDA strings :
          IF ~strings.ok \/ Len(argv) > MAXARG THEN [strings EXCEPT !.ok = FALSE]
          ELSE IF Len(argv) = MAXARG   \* ustack[MAXARG] does not exist
               THEN [strings EXCEPT !.m = Panic(@, "ustack overflow"), !.ok = FALSE]
          ELSE Push(strings, Append(strings.ustack, 0)))

\* The process with its new image, or as it was.
exec(m, p, prog, argv) ==
    LET bad(n, pagetable, sz) == Answer(proc_freepagetable(n, pagetable, sz), p)
        Commit(a, pagetable, sz) ==
          LET set == [a.m EXCEPT !.ram[p.trapframe][0] = a.sp, !.ram[p.trapframe][1] = Len(argv)]
          IN  IF ~a.ok THEN bad(a.m, pagetable, sz)
              ELSE Answer(proc_freepagetable(set, p.pagetable, p.sz),
                          [p EXCEPT !.pagetable = pagetable, !.sz = sz])
        Stack(s, pagetable, top) ==
          With(uvmalloc(s.m, pagetable, top, top + 2 * PGSIZE, {"W"}), LAMBDA u :
            IF u.r = 0 THEN bad(u.m, pagetable, top)
            ELSE Commit(PushArgs(uvmclear(u.m, pagetable, u.r - 2 * PGSIZE), pagetable, u.r, argv),
                        pagetable, u.r))
        Segments(s, pagetable) == IF s.ok THEN Stack(s, pagetable, PGROUNDUP(s.sz))
                                  ELSE bad(s.m, pagetable, s.sz)
    IN  With(proc_pagetable(m, p.trapframe), LAMBDA g :
          IF ~prog.elf \/ g.r = 0 THEN Answer(g.m, p)
          ELSE Segments(LoadSegments(g.m, g.r, prog), g.r))

fetchaddr(m, p, addr) ==
    IF addr >= p.sz \/ addr + 1 > p.sz THEN Answer(<<>>, FALSE)
    ELSE copyin(m, p.pagetable, addr, 1)

\* sys_exec() copies each argument into a page of its own, then calls exec().
sys_exec(m, p, uargv, prog) ==
    LET bad(x) == [x EXCEPT !.done = TRUE, !.ok = FALSE]
        Page(x, k, uarg) ==
          IF k.r = 0 THEN bad(x)
          ELSE With(copyinstr(k.m, p.pagetable, uarg, PGSIZE), LAMBDA str :
                 [m |-> k.m, pages |-> Append(x.pages, k.r), done |-> ~str.r, ok |-> str.r,
                  argv |-> Append(x.argv, str.m)])
        Fetch(x, w, i) ==
          IF i >= MAXARG \/ ~w.r THEN bad(x)
          ELSE IF w.m[1] = 0 THEN [x EXCEPT !.done = TRUE]
          ELSE Page(x, kalloc(x.m), w.m[1])
        One(x, i) == IF x.done THEN x ELSE Fetch(x, fetchaddr(x.m, p, uargv + i), i)
        Free(e, pages) == Answer(FoldLeft(kfree, e.m, pages), e.r)
    IN  With(FoldLeft(One, [m |-> m, pages |-> <<>>, argv |-> <<>>, done |-> FALSE, ok |-> TRUE],
                      [i \in 1 .. MAXARG + 1 |-> i - 1]), LAMBDA f :
          Free(IF f.ok THEN exec(f.m, p, prog, f.argv) ELSE Answer(f.m, p), f.pages))

-----------------------------------------------------------------------------
Init == /\ mem = [userinit.m EXCEPT !.left = 0]
        /\ proc = [p \in Procs |-> IF p = 1 THEN userinit.r ELSE Unused]

\* The outcome x of a call by p, for some number of pages the others leave.
Budgets == 0 .. Cardinality({pa \in Pages : mem.free[pa] > 0})
Become(p, x) == /\ mem' = [x.m EXCEPT !.left = 0]
                /\ proc' = [proc EXCEPT ![p] = x.r]
Call(p, F(_)) == \E left \in Budgets :
                     \E x \in {F([mem EXCEPT !.left = left])} : Become(p, x)

Fork(p, c) == Used(p) /\ ~Used(c) /\ Call(c, LAMBDA m : fork(m, proc[p]))
Sbrk(p, n) == /\ Used(p) /\ PGROUNDUP(proc[p].sz + n) <= MaxPages * PGSIZE
              /\ Call(p, LAMBDA m : growproc(m, proc[p], n))
\* Where a program may say its argument vector is: in its first page, or
\* where its own arguments were.
Uargv(p) == IF Used(p) THEN Vectors \cup {mem.ram[proc[p].trapframe][0]} ELSE {}
Exec(p, prog, uargv) == Used(p) /\ Call(p, LAMBDA m : sys_exec(m, proc[p], uargv, prog))
\* The parent's wait(), after p has exited.
Reap(p) == Used(p) /\ p # 1 /\ Become(p, Answer(freeproc(mem, proc[p]), Unused))
\* read(), wait(), pipe() or fstat() copies two bytes to the process.
CopyOut(p, va) == /\ Used(p)
                  /\ Become(p, Answer(copyout(mem, proc[p].pagetable, va, <<Mark, Mark>>).m,
                                      proc[p]))

Next == \E p \in Procs :
            \/ \E c \in Procs : Fork(p, c)
            \/ \E n \in Increments : Sbrk(p, n)
            \/ \E prog \in Programs : \E uargv \in Uargv(p) : Exec(p, prog, uargv)
            \/ Reap(p)
            \/ \E va \in Targets : CopyOut(p, va)

Spec == Init /\ [][Next]_vars

-----------------------------------------------------------------------------
\* The pages of tables: levels 2, 1 and 0.
Tables(p) ==
    LET below(ts) == {pte.pa : pte \in {q \in UNION {{mem.ram[t][i] : i \in 0 .. FAN - 1} : t \in ts} : V(q)}}
        l1 == below({proc[p].pagetable})
    IN  {proc[p].pagetable} \cup l1 \cup below(l1)

Size(p) == PGROUNDUP(proc[p].sz) \div PGSIZE
\* What a process sees: the pages below sz, in order.
Space(p) == [k \in 1 .. Size(p) |->
                LET pte == PteOf(mem, proc[p].pagetable, (k - 1) * PGSIZE) IN
                [user |-> "U" \in pte.perm, write |-> "W" \in pte.perm,
                 bytes |-> mem.ram[pte.pa]]]
UserPages(p) == {PteOf(mem, proc[p].pagetable, k * PGSIZE).pa : k \in 0 .. Size(p) - 1}

\* The page table t as a tree.
RECURSIVE Tree(_)
Tree(t) == [i \in 0 .. FAN - 1 |->
               LET pte == mem.ram[t][i] IN
               IF ~V(pte) THEN <<>>
               ELSE IF ~Leaf(pte) THEN <<Tree(pte.pa)>>
               ELSE <<pte.perm, IF pte.pa = trampoline THEN <<>> ELSE mem.ram[pte.pa]>>]
\* States up to the numbers of the physical pages, which no call depends on.
View == <<mem.panic,
          [n \in 0 .. 2 |-> Cardinality({pa \in Pages : mem.free[pa] = n})],
          [p \in Procs |-> IF Used(p) THEN <<proc[p].sz, mem.ram[proc[p].trapframe],
                                              Tree(proc[p].pagetable)>>
                           ELSE <<>>]>>

TableContent == [0 .. FAN - 1 -> [pa : Pages \cup {0, trampoline},
                                  perm : SUBSET {"V", "R", "W", "X", "U"}]]
Content == TableContent \cup [Bytes -> 0 .. MAXVA - 1]

\* Every physical page is on the free list once, or has one use by one
\* process: nothing leaks and nothing is shared or freed twice, whichever
\* kalloc() of fork(), exec() and sbrk() was the one to fail.  Nobody writes to
\* a page after it was freed, nor data to a page table.
PagesAccounted ==
    LET live == {p \in Procs : Used(p)}
        listed == {pa \in Pages : mem.free[pa] = 1}
        held(p) == Tables(p) \cup UserPages(p) \cup {proc[p].trapframe}
    IN  /\ mem.ram \in [Pages -> Content] /\ mem.free \in [Pages -> {0, 1}]
        /\ \A pa \in listed : mem.ram[pa] = Fill(1)
        /\ \A p \in live : \A t \in Tables(p) : mem.ram[t] \in TableContent
        /\ listed \cup UNION {held(p) : p \in live} = Pages
        /\ Cardinality(Pages) = FoldSet(LAMBDA p, n : n + Cardinality(Tables(p)) + Size(p) + 1,
                                        Cardinality(listed), live)

\* No call meets a mapping that is there already, a leaf left in a page table
\* that is being freed, a missing page-table page, or overruns ustack.
NoPanic == mem.panic = ""

NoSpace == <<[user |-> FALSE, write |-> FALSE, bytes |-> <<>>]>>
Spaces == [p \in Procs |-> IF Used(p) THEN Space(p) ELSE NoSpace]
Abstract == INSTANCE AddressSpace WITH
                PageSize <- PGSIZE, space <- Spaces

\* Processes see private memory that only their own calls change.
AddressSpaces == Abstract!Spec
=============================================================================
