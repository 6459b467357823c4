----------------------------- MODULE DiskProofs -----------------------------
(***************************************************************************)
(* Proofs about the two layers below the file system: the buffer cache,    *)
(* for any number of processes, blocks and buffers, and the disk driver    *)
(* with its device, for any number of processes, every ring size and every *)
(* width of the ring indices that is a multiple of it.                     *)
(***************************************************************************)
EXTENDS BufferCache, Virtio, NumberFacts, FiniteSetTheorems, WellFoundedInduction, TLAPS

-----------------------------------------------------------------------------
(* The buffer cache.                                                        *)

\* A non-empty set of buffer numbers has a largest element.  The library proves
\* that strict inclusion is well-founded on finite sets: among the sets of
\* elements above some element there is a smallest one, and it is empty.
LEMMA Largest ==
    ASSUME NBUF \in Nat, NEW S \in SUBSET Bufs, S # {}
    PROVE  Max(S) \in S /\ \A m \in S : Max(S) >= m
<1> DEFINE Above(n) == {m \in S : m > n}
           T == {Above(n) : n \in S}
<1>1. \A m \in S : m \in Nat BY DEF Bufs
<1>2. IsFiniteSet(Bufs) /\ IsFiniteSet(S)
  <2>1. 1 \in Int /\ NBUF \in Int OBVIOUS
  <2>2. IsFiniteSet(1 .. NBUF) BY <2>1, FS_Interval
  <2> QED BY <2>2, FS_Subset DEF Bufs
<1>3. T \subseteq FiniteSubsetsOf(Bufs)
  BY <1>2, FS_Subset DEF FiniteSubsetsOf
<1>4. T # {} OBVIOUS
<1>5. IsWellFoundedOn(StrictSubsetOrdering(Bufs), FiniteSubsetsOf(Bufs))
  BY FS_StrictSubsetOrderingWellFounded
<1> HIDE DEF T
<1>6. PICK U \in T : \A V \in T : <<V, U>> \notin StrictSubsetOrdering(Bufs)
  BY <1>3, <1>4, <1>5, WFMin
<1> USE DEF T
<1>7. PICK n \in S : U = Above(n) BY <1>6
<1>8. Above(n) = {}
  <2> SUFFICES ASSUME NEW m \in S, m > n PROVE FALSE OBVIOUS
  <2>1. Above(m) \in T OBVIOUS
  <2>2. m \in Above(n) /\ m \notin Above(m) BY <1>1
  <2>3. Above(m) \subseteq Above(n) BY <1>1
  <2>4. <<Above(m), U>> \in StrictSubsetOrdering(Bufs)
    <3>1. Above(m) \in SUBSET Bufs /\ U \in SUBSET Bufs BY <1>7
    <3>2. Above(m) \subseteq U /\ Above(m) # U BY <1>7, <2>2, <2>3
    <3> HIDE DEF Above
    <3> QED BY <3>1, <3>2 DEF StrictSubsetOrdering
  <2> QED BY <1>6, <2>1, <2>4
<1>9. n \in S /\ \A m \in S : n >= m BY <1>1, <1>8
<1> QED BY <1>9 DEF Max

-----------------------------------------------------------------------------
\* Where a process is between bget() and the end of brelse(): it counts in
\* refcnt; where it holds the sleep-lock of its buffer.
CacheOutside == {"idle", "late_log", "panic"}
Holding == {"bread", "use", "log", "bwrite", "done", "early"}
PC == CacheOutside \cup Holding \cup {"acquiresleep", "asleep", "put", "put_early"}

CacheTypes ==
    /\ block \in [Bufs -> Blocks \cup {None}]
    /\ refcnt \in [Bufs -> Int]
    /\ pins \in [Bufs -> {0, 1}]
    /\ pc \in [Procs -> PC]
    /\ want \in [Procs -> Blocks]
    /\ b \in [Procs -> Bufs]
    /\ lru \in [Bufs -> Bufs] /\ \A i \in Bufs : \E n \in Bufs : lru[n] = i

CacheInv == CacheTypes /\ BuffersMatch /\ RefcntExact

\* The processes inside a buffer are finitely many; a process outside that
\* enters it adds one, a process that leaves it takes one off.
LEMMA InsideFinite ==
    ASSUME CacheAssumption, NEW i
    PROVE  IsFiniteSet(Inside(i)) /\ Cardinality(Inside(i)) \in Nat
BY FS_Subset, FS_CardinalityType DEF CacheAssumption, Inside

\* Initially the cache is empty.
LEMMA CacheInitInv == ASSUME CacheAssumption, Init PROVE CacheInv
<1> USE DEF Init
<1>1. CacheTypes
  <2>1. (CHOOSE k \in Blocks : TRUE) \in Blocks BY DEF CacheAssumption
  <2>2. NBUF \in Nat /\ NBUF >= 1 BY DEF CacheAssumption
  <2>3. \A i \in Bufs : NBUF + 1 - i \in Bufs BY <2>2 DEF Bufs
  <2>4. lru \in [Bufs -> Bufs] BY <2>3
  <2>5. \A i \in Bufs : lru[NBUF + 1 - i] = i BY <2>2, <2>3 DEF Bufs
  <2>6. b \in [Procs -> Bufs] BY <2>2 DEF Bufs
  <2>7. want \in [Procs -> Blocks] BY <2>1
  <2>8. \A i \in Bufs : \E n \in Bufs : lru[n] = i BY <2>3, <2>5
  <2>9. refcnt \in [Bufs -> Int] /\ pins \in [Bufs -> {0, 1}] OBVIOUS
  <2>10. block \in [Bufs -> Blocks \cup {None}] /\ pc \in [Procs -> PC]
    BY DEF PC, CacheOutside
  <2> QED BY <2>4, <2>6, <2>7, <2>8, <2>9, <2>10 DEF CacheTypes
<1>2. \A i \in Bufs : Inside(i) = {} BY DEF Inside
<1>3. RefcntExact BY <1>2, FS_EmptySet DEF RefcntExact
<1> QED BY <1>1, <1>2, <1>3 DEF CacheInv, BuffersMatch

\* A step that moves processes without letting one enter or leave a buffer, and
\* pins or unpins none.
LEMMA CacheQuietInv ==
    ASSUME CacheInv, UNCHANGED <<block, refcnt, pins, lru, want, b>>,
           pc' \in [Procs -> PC],
           \A p \in Procs : pc'[p] \in CacheOutside <=> pc[p] \in CacheOutside
    PROVE  CacheInv'
<1>1. \A i \in Bufs : Inside(i)' = Inside(i) BY DEF Inside, CacheOutside
<1> QED BY <1>1 DEF CacheInv, CacheTypes, BuffersMatch, RefcntExact

\* bget(): a process enters the buffer of its block.
LEMMA EnterInv ==
    ASSUME CacheAssumption, CacheInv, NEW p \in Procs, NEW k \in Blocks, NEW i \in Bufs,
           pc[p] = "idle", UNCHANGED <<pins, lru>>,
           b' = [b EXCEPT ![p] = i], want' = [want EXCEPT ![p] = k],
           pc' = [pc EXCEPT ![p] = "acquiresleep"],
           refcnt' = [refcnt EXCEPT ![i] = refcnt[i] + 1],
           block' = [block EXCEPT ![i] = k],
           block[i] = k \/ (Inside(i) = {} /\ Cached(k) = {})
    PROVE  CacheInv'
<1> USE DEF CacheInv
<1>1. CacheTypes' BY DEF CacheTypes, PC
<1>2. /\ b'[p] = i /\ want'[p] = k /\ pc'[p] = "acquiresleep" /\ block'[i] = k
      /\ \A q \in Procs : q # p => b'[q] = b[q] /\ want'[q] = want[q] /\ pc'[q] = pc[q]
      /\ \A j \in Bufs : j # i => block'[j] = block[j] /\ refcnt'[j] = refcnt[j]
      /\ refcnt'[i] = refcnt[i] + 1
  BY DEF CacheTypes
<1>3. \A j \in Bufs : p \notin Inside(j) BY DEF Inside
<1>4. Inside(i)' = Inside(i) \cup {p} BY <1>2, <1>3 DEF Inside
<1>5. \A j \in Bufs : j # i => Inside(j)' = Inside(j)
  BY <1>2, <1>3 DEF Inside
<1>6. BuffersMatch'
  <2>1. \A j \in Bufs : j # i => block[j] # k
    BY DEF BuffersMatch, Cached, CacheAssumption
  <2>2. \A j, l \in Bufs : j # l /\ block'[j] # None => block'[j] # block'[l]
    BY <1>2, <2>1 DEF BuffersMatch
  <2>3. \A q \in Inside(i) : block[i] = k /\ want[q] = k /\ q # p /\ q \in Procs
    BY <1>3 DEF BuffersMatch, Inside
  <2>4. \A j \in Bufs : \A q \in Inside(j) : q \in Procs /\ q # p
    BY <1>3 DEF Inside
  <2>5. \A j \in Bufs : \A q \in Inside(j)' : block'[j] = want'[q]
    BY <1>2, <1>4, <1>5, <2>3, <2>4 DEF BuffersMatch
  <2> QED BY <2>2, <2>5 DEF BuffersMatch
<1>7. RefcntExact'
  <2>1. Cardinality(Inside(i) \cup {p}) = Cardinality(Inside(i)) + 1
    BY <1>3, InsideFinite, FS_AddElement
  <2>2. Cardinality(Inside(i)) \in Nat /\ pins[i] \in Int
    BY InsideFinite DEF CacheTypes
  <2>3. \A j \in Bufs : refcnt[j] = Cardinality(Inside(j)) + pins[j] BY DEF RefcntExact
  <2>4. refcnt'[i] = Cardinality(Inside(i)') + pins[i] BY <1>2, <1>4, <2>1, <2>2, <2>3
  <2>5. \A j \in Bufs : j # i => refcnt'[j] = Cardinality(Inside(j)') + pins[j]
    BY <1>2, <1>5, <2>3
  <2>6. \A j \in Bufs : refcnt'[j] = Cardinality(Inside(j)') + pins'[j] BY <2>4, <2>5
  <2> QED BY <2>6 DEF RefcntExact
<1> QED BY <1>1, <1>6, <1>7

\* The buffer bget() recycles is used by nobody.
LEMMA LruUnused ==
    ASSUME CacheAssumption, CacheInv, Unused # {}
    PROVE  Lru \in Bufs /\ refcnt[Lru] = 0
<1> DEFINE S == {n \in 1 .. NBUF : lru[n] \in Unused}
<1>1. NBUF \in Nat BY DEF CacheAssumption
<1>2. S \subseteq Bufs /\ S # {} BY DEF Unused, Bufs, CacheInv, CacheTypes
<1>3. Max(S) \in S BY <1>1, <1>2, Largest
<1> QED BY <1>3 DEF Lru, Unused

\* log_write() and install_trans(): a buffer is pinned or unpinned.
LEMMA PinInv ==
    ASSUME CacheAssumption, CacheInv, NEW i \in Bufs, NEW n \in {0, 1},
           UNCHANGED <<block, lru, want, b>>,
           pc' \in [Procs -> PC],
           \A p \in Procs : pc'[p] \in CacheOutside <=> pc[p] \in CacheOutside,
           pins' = [pins EXCEPT ![i] = n],
           refcnt' = [refcnt EXCEPT ![i] = refcnt[i] + n - pins[i]]
    PROVE  CacheInv'
<1> USE DEF CacheInv
<1>1. CacheTypes' BY DEF CacheTypes
<1>2. \A j \in Bufs : Inside(j)' = Inside(j) BY DEF Inside, CacheOutside
<1>3. BuffersMatch' BY <1>2 DEF BuffersMatch
<1>4. RefcntExact'
  <2> SUFFICES ASSUME NEW j \in Bufs
               PROVE  refcnt'[j] = Cardinality(Inside(j)) + pins'[j]
    BY <1>2 DEF RefcntExact
  <2>1. Cardinality(Inside(j)) \in Nat /\ pins[j] \in Int /\ refcnt[j] \in Int
    BY InsideFinite DEF CacheTypes
  <2>2. refcnt[j] = Cardinality(Inside(j)) + pins[j] BY DEF RefcntExact
  <2> QED BY <2>1, <2>2 DEF CacheTypes
<1> QED BY <1>1, <1>3, <1>4

\* Moving a buffer to the front keeps every buffer on the list.
LEMMA ToFrontList ==
    ASSUME CacheAssumption, CacheTypes, NEW i \in Bufs
    PROVE  /\ ToFront(i) \in [Bufs -> Bufs]
           /\ \A j \in Bufs : \E n \in Bufs : ToFront(i)[n] = j
<1> DEFINE at == CHOOSE n \in Bufs : lru[n] = i
<1>1. at \in Bufs /\ lru[at] = i BY DEF CacheTypes
<1>2. NBUF \in Nat /\ NBUF >= 1 BY DEF CacheAssumption
<1> HIDE DEF at
<1>3. ToFront(i) = [n \in Bufs |-> IF n = 1 THEN i
                                   ELSE IF n =< at THEN lru[n - 1] ELSE lru[n]]
  BY DEF ToFront, at
<1>4. \A n \in Bufs : n # 1 => n - 1 \in Bufs BY <1>2 DEF Bufs
<1>5. ToFront(i) \in [Bufs -> Bufs] BY <1>3, <1>4 DEF CacheTypes
<1>6. ASSUME NEW j \in Bufs PROVE \E n \in Bufs : ToFront(i)[n] = j
  <2>1. PICK m \in Bufs : lru[m] = j BY DEF CacheTypes
  <2>2. 1 \in Bufs BY <1>2 DEF Bufs
  <2>3. CASE m = at BY <1>1, <1>3, <2>1, <2>2, <2>3
  <2>4. CASE m < at
    <3>1. m + 1 \in Bufs /\ m + 1 # 1 /\ m + 1 =< at /\ (m + 1) - 1 = m
      BY <1>1, <1>2, <2>4 DEF Bufs
    <3> QED BY <1>3, <2>1, <3>1
  <2>5. CASE m > at
    <3>1. m # 1 /\ ~(m =< at) BY <1>1, <1>2, <2>5 DEF Bufs
    <3> QED BY <1>3, <2>1, <3>1
  <2> QED BY <1>1, <1>2, <2>3, <2>4, <2>5 DEF Bufs
<1> QED BY <1>5, <1>6

\* brelse(): a process leaves its buffer.
LEMMA BrelseInv ==
    ASSUME CacheAssumption, CacheInv, NEW p \in Procs, Brelse(p)
    PROVE  CacheInv'
<1> USE DEF CacheInv
<1>1. /\ pc[p] \in {"put", "put_early"} /\ UNCHANGED <<block, pins, want, b>>
      /\ refcnt' = [refcnt EXCEPT ![b[p]] = refcnt[b[p]] - 1]
      /\ lru' = lru \/ lru' = ToFront(b[p])
  BY DEF Brelse
<1>2. PICK x \in {"idle", "late_log"} : pc' = [pc EXCEPT ![p] = x]
  BY DEF Brelse, Goto
<1>3. b[p] \in Bufs BY DEF CacheTypes
<1>4. CacheTypes'
  <2>1. lru' \in [Bufs -> Bufs] /\ \A i \in Bufs : \E n \in Bufs : lru'[n] = i
    <3>1. /\ ToFront(b[p]) \in [Bufs -> Bufs]
          /\ \A j \in Bufs : \E n \in Bufs : ToFront(b[p])[n] = j
      BY <1>3, ToFrontList
    <3>2. CASE lru' = lru BY <3>2 DEF CacheTypes
    <3>3. CASE lru' = ToFront(b[p]) BY <3>1, <3>3
    <3> QED BY <1>1, <3>2, <3>3
  <2>2. refcnt' \in [Bufs -> Int] BY <1>1, <1>3 DEF CacheTypes
  <2>3. pc' \in [Procs -> PC] BY <1>2 DEF CacheTypes, PC, CacheOutside
  <2> QED BY <1>1, <2>1, <2>2, <2>3 DEF CacheTypes
<1>5. pc'[p] \in CacheOutside /\ \A q \in Procs : q # p => pc'[q] = pc[q]
  BY <1>2 DEF CacheTypes, CacheOutside
<1>6. ASSUME NEW i \in Bufs
      PROVE  /\ i # b[p] => Inside(i)' = Inside(i)
             /\ i = b[p] => Inside(i)' = Inside(i) \ {p}
  <2>1. CASE i # b[p] BY <1>1, <1>5, <2>1 DEF Inside, CacheOutside
  <2>2. CASE i = b[p] BY <1>1, <1>5, <2>2 DEF Inside, CacheOutside
  <2> QED BY <2>1, <2>2
<1>7. BuffersMatch' BY <1>1, <1>6 DEF BuffersMatch
<1>8. RefcntExact'
  <2>1. p \in Inside(b[p]) BY <1>1 DEF Inside
  <2>2. Cardinality(Inside(b[p]) \ {p}) = Cardinality(Inside(b[p])) - 1
    BY <2>1, InsideFinite, FS_RemoveElement
  <2>3. \A i \in Bufs : Cardinality(Inside(i)) \in Nat /\ pins[i] \in Int
    BY InsideFinite DEF CacheTypes
  <2>4. refcnt'[b[p]] = refcnt[b[p]] - 1 /\ \A i \in Bufs : i # b[p] => refcnt'[i] = refcnt[i]
    BY <1>1, <1>3 DEF CacheTypes
  <2>5. ASSUME NEW i \in Bufs PROVE refcnt'[i] = Cardinality(Inside(i)') + pins'[i]
    <3>1. CASE i = b[p]
      <4>1. Cardinality(Inside(i)') = Cardinality(Inside(i)) - 1 BY <1>6, <2>2, <3>1
      <4>2. refcnt[i] = Cardinality(Inside(i)) + pins[i] BY DEF RefcntExact
      <4> QED BY <1>1, <2>3, <2>4, <3>1, <4>1, <4>2
    <3>2. CASE i # b[p] BY <1>1, <1>6, <2>4, <3>2 DEF RefcntExact
    <3> QED BY <3>1, <3>2
  <2> QED BY <2>5 DEF RefcntExact
<1> QED BY <1>4, <1>7, <1>8

\* The invariant is inductive.
LEMMA CacheNextInv == ASSUME CacheAssumption, CacheInv, [Next]_vars PROVE CacheInv'
<1> USE DEF CacheInv
<1>1. CASE UNCHANGED vars
  BY <1>1, CacheQuietInv DEF vars, CacheTypes
<1>2. ASSUME NEW p \in Procs, NEW k \in Blocks, BgetHit(p, k) PROVE CacheInv'
  <2>1. PICK i \in Cached(k) : TRUE BY <1>2 DEF BgetHit
  <2>2. i \in Bufs /\ block[i] = k BY <2>1 DEF Cached
  <2>3. Cached(k) = {i}
    BY <2>1, <2>2 DEF Cached, BuffersMatch, CacheAssumption
  <2>4. Min(Cached(k)) = i BY <2>2, <2>3 DEF Min, Bufs
  <2>5. block' = [block EXCEPT ![i] = k] BY <1>2, <2>2 DEF BgetHit, CacheTypes
  <2> QED BY <1>2, <2>2, <2>4, <2>5, EnterInv DEF BgetHit, Goto
<1>3. ASSUME NEW p \in Procs, NEW k \in Blocks, BgetMiss(p, k) PROVE CacheInv'
  <2>1. Lru \in Bufs /\ refcnt[Lru] = 0 BY <1>3, LruUnused DEF BgetMiss
  <2>2. Cardinality(Inside(Lru)) = 0
    <3>1. Cardinality(Inside(Lru)) \in Nat /\ pins[Lru] \in Nat
      BY <2>1, InsideFinite DEF CacheTypes
    <3>2. 0 = Cardinality(Inside(Lru)) + pins[Lru] BY <2>1 DEF RefcntExact
    <3> QED BY <3>1, <3>2
  <2>3. Inside(Lru) = {} BY <2>2, InsideFinite, FS_EmptySet
  <2>4. refcnt' = [refcnt EXCEPT ![Lru] = refcnt[Lru] + 1] BY <1>3, <2>1 DEF BgetMiss
  <2> QED BY <1>3, <2>1, <2>3, <2>4, EnterInv DEF BgetMiss, Goto
<1>4. ASSUME NEW p \in Procs, NEW k \in Blocks, BgetPanic(p, k) PROVE CacheInv'
  BY <1>4, CacheQuietInv DEF BgetPanic, Goto, cacheVars, CacheTypes, PC, CacheOutside
<1>5. ASSUME NEW p \in Procs, NEW l \in Orders, Change(p, l) PROVE CacheInv'
  BY <1>5, CacheQuietInv
     DEF Change, Goto, cacheVars, CacheTypes, PC, CacheOutside, Holding, CacheAssumption
<1>6. ASSUME NEW p \in Procs, LogWrite(p) PROVE CacheInv'
  <2>1. b[p] \in Bufs /\ pins[b[p]] \in {0, 1} /\ refcnt[b[p]] \in Int BY DEF CacheTypes
  <2>2. refcnt' = [refcnt EXCEPT ![b[p]] = refcnt[b[p]] + 1 - pins[b[p]]]
    <3>1. CASE pins[b[p]] = 0
      <4>1. refcnt[b[p]] + 1 - pins[b[p]] = refcnt[b[p]] + 1 BY <2>1, <3>1
      <4> QED BY <1>6, <3>1, <4>1 DEF LogWrite
    <3>2. CASE pins[b[p]] = 1
      <4>1. refcnt[b[p]] + 1 - pins[b[p]] = refcnt[b[p]] BY <2>1, <3>2
      <4>2. refcnt' = refcnt BY <1>6, <3>2 DEF LogWrite
      <4> QED BY <4>1, <4>2 DEF CacheTypes
    <3> QED BY <2>1, <3>1, <3>2
  <2>3. /\ pc' \in [Procs -> PC]
        /\ \A q \in Procs : pc'[q] \in CacheOutside <=> pc[q] \in CacheOutside
    BY <1>6 DEF LogWrite, Goto, CacheTypes, PC, CacheOutside, Holding
  <2>4. pins' = [pins EXCEPT ![b[p]] = 1] /\ UNCHANGED <<block, lru, want, b>>
    BY <1>6 DEF LogWrite
  <2> QED BY <2>1, <2>2, <2>3, <2>4, PinInv
<1>7. ASSUME NEW i \in Bufs, Install(i) PROVE CacheInv'
  <2>1. refcnt[i] \in Int /\ pins[i] = 1 BY <1>7 DEF CacheTypes, Install
  <2>2. refcnt' = [refcnt EXCEPT ![i] = refcnt[i] + 0 - pins[i]]
    <3>1. refcnt[i] + 0 - pins[i] = refcnt[i] - 1 BY <2>1
    <3> QED BY <1>7, <3>1 DEF Install
  <2>3. UNCHANGED <<block, lru, want, b, pc>> /\ pins' = [pins EXCEPT ![i] = 0]
    BY <1>7 DEF Install
  <2> QED BY <2>2, <2>3, PinInv DEF CacheTypes
<1>8. ASSUME NEW p \in Procs, AcquireSleep(p) \/ SleepLocked(p) \/ Bread(p) \/ Bwrite(p)
      PROVE  CacheInv'
  BY <1>8, CacheQuietInv
     DEF AcquireSleep, SleepLocked, Bread, Bwrite, Goto, cacheVars, CacheTypes, PC,
         CacheOutside, Holding
<1>9. ASSUME NEW p \in Procs, ReleaseSleep(p) PROVE CacheInv'
  BY <1>9, CacheQuietInv DEF ReleaseSleep, cacheVars, CacheTypes, PC, CacheOutside, Holding
<1> QED BY <1>1, <1>2, <1>3, <1>4, <1>5, <1>6, <1>7, <1>8, <1>9, BrelseInv
        DEF Next, Run

\* The invariant holds in every reachable state.
LEMMA CacheInvAlways == ASSUME CacheAssumption PROVE Spec => []CacheInv
BY CacheInitInv, CacheNextInv, PTL DEF Spec

\* No block ever has two buffers, no buffer is recycled under a process that is
\* inside it, and b->refcnt counts the processes inside and the pins of the log:
\* bget(), brelse(), bpin() and bunpin(), in any order and by any number of
\* processes.
THEOREM CacheSynchronizes == ASSUME CacheAssumption PROVE Spec => []OneBufferPerBlock
<1>1. CacheInv => OneBufferPerBlock BY DEF CacheInv, OneBufferPerBlock
<1> QED BY <1>1, CacheInvAlways, PTL

-----------------------------------------------------------------------------
\* Where the caller may rely on the contents of its buffer.
Filled == Holding \ {"bread"}

\* The callers use log_write() or bwrite() before brelse(), never after.
Disciplined == \A p \in Procs : pc[p] \notin {"early", "put_early", "late_log"}

\* The sleep-lock of a buffer belongs to the one process that is past
\* acquiresleep() and before releasesleep().
SleepLocks == \A p \in Procs : pc[p] \in Holding => lock[b[p]] = p

\* Block k is changed in buffer i and not yet on the disk: the log has pinned
\* the buffer, or its caller is about to log or to write it.
Dirty(i) == pins[i] = 1 \/ \E p \in Procs : b[p] = i /\ pc[p] \in {"log", "bwrite"}

\* What the buffers and the disk hold: a valid buffer has the last value of its
\* block, and the disk has it unless the buffer is dirty.
Contents ==
    /\ \A i \in Bufs : valid[i] => block[i] \in Blocks /\ data[i] = latest[block[i]]
    /\ \A i \in Bufs : pins[i] = 1 => valid[i]
    /\ \A p \in Procs : pc[p] \in Filled => valid[b[p]]
    /\ \A k \in Blocks : disk[k] # latest[k] =>
         \E i \in Bufs : block[i] = k /\ valid[i] /\ Dirty(i)

DataTypes == /\ valid \in [Bufs -> BOOLEAN] /\ data \in [Bufs -> Nat]
             /\ lock \in [Bufs -> Procs \cup {None}]
             /\ disk \in [Blocks -> Nat] /\ latest \in [Blocks -> Nat]

DataInv == DataTypes /\ Disciplined /\ SleepLocks /\ Contents

\* A disciplined caller holds a buffer alone while it uses it.
LEMMA HoldsAlone ==
    ASSUME CacheAssumption, CacheInv, SleepLocks, NEW p \in Procs, pc[p] \in Holding
    PROVE  /\ b[p] \in Bufs /\ want[p] \in Blocks /\ block[b[p]] = want[p]
           /\ \A q \in Procs : q # p /\ pc[q] \in Holding => b[q] # b[p]
           /\ \A i \in Bufs : i # b[p] => block[i] # want[p]
<1>1. b[p] \in Bufs /\ want[p] \in Blocks BY DEF CacheInv, CacheTypes
<1>2. p \in Inside(b[p]) BY DEF Inside, Holding
<1>3. block[b[p]] = want[p] BY <1>1, <1>2 DEF CacheInv, BuffersMatch
<1>4. want[p] # None BY <1>1 DEF CacheAssumption
<1> QED BY <1>1, <1>3, <1>4 DEF SleepLocks, CacheInv, BuffersMatch

\* The contents at the start.
LEMMA InitData == ASSUME CacheAssumption, Init PROVE DataInv
BY DEF Init, DataInv, DataTypes, Disciplined, SleepLocks, Contents, Holding, Filled

\* bget(): the recycled buffer is neither pinned nor in use, so that the disk has
\* the last value of the block it held.
LEMMA BgetData ==
    ASSUME CacheAssumption, CacheInv, DataInv, NEW p \in Procs, NEW k \in Blocks,
           BgetHit(p, k) \/ BgetMiss(p, k)
    PROVE  DataInv'
<1> USE DEF DataInv
<1>1. /\ pc[p] = "idle" /\ pc' = [pc EXCEPT ![p] = "acquiresleep"]
      /\ UNCHANGED <<data, lock, pins, disk, latest>>
  BY DEF BgetHit, BgetMiss, Goto
<1>2. PICK i : b' = [b EXCEPT ![p] = i] BY DEF BgetHit, BgetMiss
<1>3. /\ pc'[p] = "acquiresleep" /\ \A q \in Procs : q # p => pc'[q] = pc[q] /\ b'[q] = b[q]
  BY <1>1, <1>2 DEF CacheInv, CacheTypes
<1>4. Disciplined' BY <1>3 DEF Disciplined
<1>5. SleepLocks' BY <1>1, <1>3 DEF SleepLocks, Holding
<1>6. \A j \in Bufs : Dirty(j) => Dirty(j)' BY <1>1, <1>3 DEF Dirty
<1>7. \A q \in Procs : pc'[q] \in Filled => q # p /\ pc[q] \in Filled /\ b'[q] = b[q]
  BY <1>3 DEF Filled, Holding
<1>8. CASE BgetHit(p, k)
  <2>1. UNCHANGED <<block, valid>> BY <1>8 DEF BgetHit
  <2>2. DataTypes' BY <1>1, <2>1 DEF DataTypes
  <2>3. Contents' BY <1>1, <1>6, <1>7, <2>1 DEF Contents
  <2> QED BY <1>4, <1>5, <2>2, <2>3
<1>9. CASE BgetMiss(p, k)
  <2>1. Lru \in Bufs /\ refcnt[Lru] = 0 BY <1>9, LruUnused DEF BgetMiss
  <2>2. Inside(Lru) = {} /\ pins[Lru] = 0
    <3>1. IsFiniteSet(Inside(Lru)) /\ Cardinality(Inside(Lru)) \in Nat /\ pins[Lru] \in Nat
      BY <2>1, InsideFinite DEF CacheInv, CacheTypes
    <3>2. 0 = Cardinality(Inside(Lru)) + pins[Lru] BY <2>1 DEF CacheInv, RefcntExact
    <3>3. Cardinality(Inside(Lru)) = 0 /\ pins[Lru] = 0 BY <3>1, <3>2
    <3> QED BY <3>1, <3>3, FS_EmptySet
  <2> DEFINE r == Lru
  <2> HIDE DEF r
  <2>3. /\ block' = [block EXCEPT ![r] = k] /\ valid' = [valid EXCEPT ![r] = FALSE]
        /\ r \in Bufs
    BY <1>9, <2>1 DEF BgetMiss, r
  <2>4. /\ block'[r] = k /\ valid'[r] = FALSE
        /\ \A j \in Bufs : j # r => block'[j] = block[j] /\ valid'[j] = valid[j]
    BY <2>3 DEF CacheInv, CacheTypes, DataTypes
  <2>5. \A q \in Procs : pc[q] \in Holding => b[q] # r
    BY <2>2 DEF r, Inside, Holding
  <2>6. ~Dirty(r) /\ pins[r] = 0
    BY <2>2, <2>5 DEF r, Dirty, Holding
  <2>7. DataTypes' BY <1>1, <2>3 DEF DataTypes
  <2>8. \A j \in Bufs : valid'[j] => block'[j] \in Blocks /\ data'[j] = latest'[block'[j]]
    BY <1>1, <2>4 DEF Contents
  <2>9. \A j \in Bufs : pins'[j] = 1 => valid'[j]
    BY <1>1, <2>4, <2>6 DEF Contents
  <2>10. \A q \in Procs : pc'[q] \in Filled => valid'[b'[q]]
    <3> SUFFICES ASSUME NEW q \in Procs, pc'[q] \in Filled PROVE valid'[b'[q]]
      OBVIOUS
    <3>1. b'[q] = b[q] /\ b[q] \in Bufs /\ b[q] # r /\ valid[b[q]]
      BY <1>7, <2>5 DEF Filled, Contents, CacheInv, CacheTypes
    <3> QED BY <2>4, <3>1
  <2>11. \A l \in Blocks : disk'[l] # latest'[l] =>
           \E j \in Bufs : block'[j] = l /\ valid'[j] /\ Dirty(j)'
    <3> SUFFICES ASSUME NEW l \in Blocks, disk[l] # latest[l]
                 PROVE  \E j \in Bufs : block'[j] = l /\ valid'[j] /\ Dirty(j)'
      BY <1>1
    <3>1. PICK j \in Bufs : block[j] = l /\ valid[j] /\ Dirty(j) BY DEF Contents
    <3> QED BY <1>6, <2>4, <2>6, <3>1
  <2>12. Contents' BY <2>8, <2>9, <2>10, <2>11 DEF Contents
  <2> QED BY <1>4, <1>5, <2>7, <2>12
<1> QED BY <1>8, <1>9

\* Steps that touch no contents: processes move, locks change hands.
LEMMA MoveData ==
    ASSUME CacheAssumption, CacheInv, DataInv, UNCHANGED <<block, valid, data, pins, disk, latest, b>>,
           lock' \in [Bufs -> Procs \cup {None}],
           Disciplined', SleepLocks',
           \A q \in Procs : pc'[q] \in Filled => pc[q] \in Filled,
           \A q \in Procs : pc[q] \in {"log", "bwrite"} => pc'[q] = pc[q]
    PROVE  DataInv'
<1> USE DEF DataInv
<1>1. DataTypes' BY DEF DataTypes
<1>2. \A j \in Bufs : Dirty(j) => Dirty(j)' BY DEF Dirty
<1>3. Contents' BY <1>2 DEF Contents
<1> QED BY <1>1, <1>3

\* The sleep-lock keeps its meaning in acquiresleep() and releasesleep(), and the
\* remaining steps that only move a process.
LEMMA CacheMoveSteps ==
    ASSUME CacheAssumption, CacheInv, DataInv, NEW p \in Procs,
           \/ AcquireSleep(p) \/ SleepLocked(p) \/ ReleaseSleep(p) \/ Brelse(p)
           \/ \E k \in Blocks : BgetPanic(p, k)
    PROVE  DataInv'
<1> USE DEF DataInv
<1>0. /\ pc \in [Procs -> PC] /\ b \in [Procs -> Bufs] /\ b[p] \in Bufs
      /\ lock \in [Bufs -> Procs \cup {None}]
  BY DEF CacheInv, CacheTypes, DataTypes
<1>1. UNCHANGED <<block, valid, data, pins, disk, latest, b>>
  BY DEF AcquireSleep, SleepLocked, ReleaseSleep, Brelse, BgetPanic, cacheVars
<1>2. CASE AcquireSleep(p)
  <2>1. /\ lock[b[p]] = None /\ lock' = [lock EXCEPT ![b[p]] = p]
        /\ pc[p] = "acquiresleep" /\ pc' = [pc EXCEPT ![p] = "bread"]
    BY <1>2 DEF AcquireSleep, Goto
  <2>2. \A q \in Procs : q # p /\ pc[q] \in Holding => b[q] # b[p]
    BY <2>1 DEF SleepLocks, CacheAssumption
  <2>3. SleepLocks' BY <1>0, <1>1, <2>1, <2>2 DEF SleepLocks
  <2>4. lock' \in [Bufs -> Procs \cup {None}] BY <1>0, <2>1
  <2>5. Disciplined' BY <1>0, <2>1 DEF Disciplined
  <2> QED BY <1>0, <1>1, <2>1, <2>3, <2>4, <2>5, MoveData DEF Filled
<1>3. CASE ReleaseSleep(p)
  <2>1. /\ lock' = [lock EXCEPT ![b[p]] = None] /\ pc[p] \in {"use", "done"}
        /\ pc'[p] = "put"
        /\ \A q \in Procs : q # p => pc'[q] = pc[q] \/ (pc[q] = "asleep" /\ pc'[q] = "acquiresleep")
    BY <1>3 DEF ReleaseSleep, Disciplined
  <2>2. \A q \in Procs : q # p /\ pc[q] \in Holding => b[q] # b[p]
    BY <2>1, HoldsAlone DEF Holding
  <2>3. \A q \in Procs : pc'[q] \in Holding => q # p /\ pc'[q] = pc[q]
    BY <2>1 DEF Holding
  <2>4. SleepLocks' BY <1>0, <1>1, <2>1, <2>2, <2>3 DEF SleepLocks
  <2>5. lock' \in [Bufs -> Procs \cup {None}] BY <1>0, <2>1
  <2>6. Disciplined' BY <2>1 DEF Disciplined
  <2>7. \A q \in Procs : pc[q] \in {"log", "bwrite"} => pc'[q] = pc[q] BY <2>1
  <2> QED BY <1>1, <2>3, <2>4, <2>5, <2>6, <2>7, MoveData DEF Filled
<1>4. CASE SleepLocked(p) \/ Brelse(p) \/ \E k \in Blocks : BgetPanic(p, k)
  <2>1. PICK x \in {"asleep", "idle", "panic"} : pc' = [pc EXCEPT ![p] = x]
    BY <1>4 DEF SleepLocked, Brelse, BgetPanic, Goto, Disciplined
  <2>2. pc[p] \in {"acquiresleep", "put", "idle"} /\ lock' = lock
    BY <1>4 DEF SleepLocked, Brelse, BgetPanic, Disciplined
  <2>3. pc'[p] = x /\ \A q \in Procs : q # p => pc'[q] = pc[q] BY <1>0, <2>1
  <2>4. SleepLocks' BY <1>1, <2>2, <2>3 DEF SleepLocks, Holding
  <2>5. Disciplined' BY <2>3 DEF Disciplined
  <2> QED BY <1>0, <1>1, <2>2, <2>3, <2>4, <2>5, MoveData DEF Filled, Holding
<1> QED BY <1>2, <1>3, <1>4

\* The steps of the holder of a buffer, on its contents.
LEMMA HolderSteps ==
    ASSUME CacheAssumption, "early" \notin Orders, CacheInv, DataInv, NEW p \in Procs,
           \/ Bread(p) \/ LogWrite(p) \/ Bwrite(p)
           \/ \E l \in Orders : Change(p, l)
    PROVE  DataInv'
<1> USE DEF DataInv
<1>0. /\ pc \in [Procs -> PC] /\ pins \in [Bufs -> {0, 1}] /\ b \in [Procs -> Bufs]
      /\ pc[p] \in Holding /\ block \in [Bufs -> Blocks \cup {None}]
      /\ UNCHANGED <<block, lock, want, b>>
  BY DEF CacheInv, CacheTypes, Bread, LogWrite, Bwrite, Change, Disciplined, Holding, cacheVars
<1>i. PICK i \in Bufs : i = b[p] BY <1>0
<1>k. PICK k \in Blocks : k = want[p] BY DEF CacheInv, CacheTypes
<1>1. /\ block[i] = k
      /\ \A q \in Procs : q # p /\ pc[q] \in Holding => b[q] # i
      /\ \A j \in Bufs : j # i => block[j] # k
  BY <1>0, <1>i, <1>k, HoldsAlone
<1>2. PICK x \in {"use", "done", "log", "bwrite"} : pc' = [pc EXCEPT ![p] = x]
  BY DEF Bread, LogWrite, Bwrite, Change, Goto, Disciplined, CacheAssumption
<1>3. pc'[p] = x /\ \A q \in Procs : q # p => pc'[q] = pc[q] BY <1>0, <1>2
<1>4. Disciplined' BY <1>3 DEF Disciplined
<1>5. SleepLocks' BY <1>0, <1>3 DEF SleepLocks, Holding
\* What is left to show, of the buffer and its block.
<1>6. ASSUME valid' = [valid EXCEPT ![i] = TRUE], valid'[i] = TRUE,
             data'[i] = latest'[k], DataTypes',
             \A j \in Bufs : j # i => data'[j] = data[j] /\ pins'[j] = pins[j],
             \A l \in Blocks : l # k => disk'[l] = disk[l] /\ latest'[l] = latest[l],
             disk'[k] # latest'[k] => Dirty(i)'
      PROVE  DataInv'
  <2>1. \A j \in Bufs : j # i => valid'[j] = valid[j] BY <1>6 DEF DataTypes
  <2>2. \A j \in Bufs : j # i /\ Dirty(j) => Dirty(j)'
    BY <1>0, <1>i, <1>3, <1>6 DEF Dirty
  <2>3. \A j \in Bufs : valid'[j] => block'[j] \in Blocks /\ data'[j] = latest'[block'[j]]
    BY <1>0, <1>1, <1>6, <2>1 DEF Contents
  <2>4. \A j \in Bufs : pins'[j] = 1 => valid'[j] BY <1>6, <2>1 DEF Contents
  <2>5. \A q \in Procs : pc'[q] \in Filled => valid'[b'[q]]
    <3> SUFFICES ASSUME NEW q \in Procs, pc'[q] \in Filled PROVE valid'[b[q]]
      BY <1>0
    <3>1. CASE b[q] = i BY <1>6, <3>1
    <3>2. CASE b[q] # i
      <4>1. q # p /\ b[q] \in Bufs BY <1>0, <1>i, <3>2
      <4> QED BY <1>3, <2>1, <3>2, <4>1 DEF Contents
    <3> QED BY <3>1, <3>2
  <2>6. \A l \in Blocks : disk'[l] # latest'[l] =>
          \E j \in Bufs : block'[j] = l /\ valid'[j] /\ Dirty(j)'
    <3> SUFFICES ASSUME NEW l \in Blocks, disk'[l] # latest'[l]
                 PROVE  \E j \in Bufs : block'[j] = l /\ valid'[j] /\ Dirty(j)'
      OBVIOUS
    <3>1. CASE l = k BY <1>0, <1>1, <1>6, <3>1
    <3>2. CASE l # k
      <4>1. PICK j \in Bufs : block[j] = l /\ valid[j] /\ Dirty(j)
        BY <1>6, <3>2 DEF Contents
      <4> QED BY <1>0, <1>1, <2>1, <2>2, <3>2, <4>1
    <3> QED BY <3>1, <3>2
  <2>7. Contents' BY <2>3, <2>4, <2>5, <2>6 DEF Contents
  <2> QED BY <1>4, <1>5, <1>6, <2>7
<1>7. DataTypes /\ valid[i] \in BOOLEAN /\ data[i] \in Nat /\ disk[k] \in Nat
      /\ latest[k] \in Nat
  BY DEF DataTypes
<1>8. CASE Bread(p)
  <2>1. /\ data' = IF valid[i] THEN data ELSE [data EXCEPT ![i] = disk[k]]
        /\ valid' = [valid EXCEPT ![i] = TRUE]
        /\ UNCHANGED <<pins, disk, latest>> /\ pc[p] = "bread"
    BY <1>1, <1>8, <1>i DEF Bread
  <2>2. CASE valid[i]
    <3>1. valid' = valid /\ data' = data BY <1>7, <2>1, <2>2 DEF DataTypes
    <3>2. data[i] = latest[k] BY <1>1, <2>2 DEF Contents
    <3>3. \A j \in Bufs : Dirty(j) => Dirty(j)'
      BY <1>0, <1>3, <2>1 DEF Dirty
    <3>4. disk[k] # latest[k] => Dirty(i) BY <1>1 DEF Contents
    <3>5. DataTypes' BY <1>0, <1>7, <2>1, <3>1 DEF DataTypes
    <3> QED BY <1>6, <2>1, <2>2, <3>1, <3>2, <3>3, <3>4, <3>5
  <2>3. CASE ~valid[i]
    <3>1. disk[k] = latest[k] BY <1>1, <2>3 DEF Contents
    <3>2. data' = [data EXCEPT ![i] = disk[k]] BY <2>1, <2>3
    <3>3. DataTypes' BY <1>0, <1>7, <2>1, <3>2 DEF DataTypes
    <3> QED BY <1>6, <1>7, <2>1, <3>1, <3>2, <3>3 DEF DataTypes
  <2> QED BY <2>2, <2>3
<1>9. ASSUME pc[p] \in Filled
      PROVE  valid[i] /\ data[i] = latest[k] /\ valid = [valid EXCEPT ![i] = TRUE]
  <2>1. valid[i] BY <1>9, <1>i DEF Contents
  <2> QED BY <1>1, <1>7, <2>1 DEF Contents, DataTypes
<1>10. CASE LogWrite(p)
  <2>1. /\ pc[p] = "log" /\ pins' = [pins EXCEPT ![i] = 1]
        /\ UNCHANGED <<valid, data, disk, latest>>
    BY <1>10, <1>i DEF LogWrite, Disciplined
  <2>2. pins'[i] = 1 BY <1>0, <2>1
  <2>3. \A j \in Bufs : j = i => Dirty(j)' BY <2>2 DEF Dirty
  <2>4. DataTypes' BY <1>0, <1>7, <2>1 DEF DataTypes
  <2>5. pc[p] \in Filled BY <2>1 DEF Filled, Holding
  <2> QED BY <1>0, <1>6, <1>9, <2>1, <2>3, <2>4, <2>5
<1>11. CASE Bwrite(p)
  <2>1. /\ pc[p] = "bwrite" /\ disk' = [disk EXCEPT ![k] = data[i]]
        /\ UNCHANGED <<valid, data, pins, latest>>
    BY <1>1, <1>11, <1>i DEF Bwrite, cacheVars
  <2>2. pc[p] \in Filled BY <2>1 DEF Filled, Holding
  <2>3. DataTypes' BY <1>0, <1>7, <2>1 DEF DataTypes
  <2>4. disk'[k] = latest'[k] BY <1>7, <1>9, <2>1, <2>2 DEF DataTypes
  <2> QED BY <1>6, <1>7, <1>9, <2>1, <2>2, <2>3, <2>4 DEF DataTypes
<1>12. CASE \E l \in Orders : Change(p, l)
  <2>1. /\ pc[p] = "use" /\ data' = [data EXCEPT ![i] = latest[k] + 1]
        /\ latest' = [latest EXCEPT ![k] = latest[k] + 1]
        /\ UNCHANGED <<valid, pins, disk>>
    BY <1>12, <1>i, <1>k DEF Change, cacheVars
  <2>2. pc'[p] \in {"log", "bwrite"}
    BY <1>0, <1>12 DEF Change, Goto, CacheAssumption
  <2>3. pc[p] \in Filled BY <2>1 DEF Filled, Holding
  <2>4. Dirty(i)' BY <1>0, <1>i, <2>2 DEF Dirty
  <2>5. DataTypes' BY <1>0, <1>7, <2>1 DEF DataTypes
  <2>6. data'[i] = latest'[k] BY <1>7, <2>1 DEF DataTypes
  <2> QED BY <1>6, <1>7, <1>9, <2>1, <2>3, <2>4, <2>5, <2>6 DEF DataTypes
<1> QED BY <1>8, <1>10, <1>11, <1>12

\* install_trans() writes the value of the pinned buffer home.
LEMMA InstallData ==
    ASSUME CacheAssumption, CacheInv, DataInv, NEW i \in Bufs, Install(i)
    PROVE  DataInv'
<1> USE DEF DataInv
<1>1. /\ pins[i] = 1 /\ disk' = [disk EXCEPT ![block[i]] = data[i]]
      /\ pins' = [pins EXCEPT ![i] = 0]
      /\ UNCHANGED <<block, valid, data, lock, pc, want, b, latest>>
  BY DEF Install
<1>2. valid[i] /\ block[i] \in Blocks /\ data[i] = latest[block[i]]
  BY <1>1 DEF Contents
<1>3. DataTypes' BY <1>1, <1>2 DEF DataTypes
<1>4. Disciplined' /\ SleepLocks' BY <1>1 DEF Disciplined, SleepLocks
<1>5. /\ disk'[block[i]] = latest[block[i]]
      /\ \A l \in Blocks : l # block[i] => disk'[l] = disk[l]
  BY <1>1, <1>2 DEF DataTypes
<1>6. \A j \in Bufs : j # i => pins'[j] = pins[j] BY <1>1 DEF CacheInv, CacheTypes
<1>7. pins'[i] = 0 BY <1>1 DEF CacheInv, CacheTypes
<1>8. \A j \in Bufs : j # i /\ Dirty(j) => Dirty(j)' BY <1>1, <1>6 DEF Dirty
<1>9. \A l \in Blocks : disk'[l] # latest'[l] =>
        \E j \in Bufs : block'[j] = l /\ valid'[j] /\ Dirty(j)'
  <2> SUFFICES ASSUME NEW l \in Blocks, disk'[l] # latest'[l]
               PROVE  \E j \in Bufs : block'[j] = l /\ valid'[j] /\ Dirty(j)'
    OBVIOUS
  <2>1. l # block[i] /\ disk[l] # latest[l] BY <1>1, <1>5
  <2>2. PICK j \in Bufs : block[j] = l /\ valid[j] /\ Dirty(j) BY <2>1 DEF Contents
  <2> QED BY <1>1, <1>8, <2>1, <2>2
<1>10. Contents' BY <1>1, <1>6, <1>7, <1>9 DEF Contents
<1> QED BY <1>3, <1>4, <1>10

\* A change is never lost: the next bread() of a block finds its last value, in
\* the cache or on the disk, as long as every caller hands the buffer to
\* log_write() or bwrite() before it releases it.
THEOREM CacheKeepsUpdates ==
    ASSUME CacheAssumption, "early" \notin Orders
    PROVE  Spec => []NoUpdateLost
<1>1. Init => DataInv BY InitData
<1>2. CacheInv /\ DataInv /\ [Next]_vars => DataInv'
  <2> SUFFICES ASSUME CacheInv, DataInv, [Next]_vars PROVE DataInv' OBVIOUS
  <2>1. CASE UNCHANGED vars
    BY <2>1 DEF vars, DataInv, DataTypes, Disciplined, SleepLocks, Contents, Dirty
  <2>2. CASE Next
    BY <2>2, BgetData, CacheMoveSteps, HolderSteps, InstallData DEF Next, Run
  <2> QED BY <2>1, <2>2
<1>3. CacheInv /\ DataInv => NoUpdateLost
  <2> SUFFICES ASSUME CacheInv, DataInv, NEW k \in Blocks
               PROVE  \/ \E i \in Cached(k) : valid[i] /\ data[i] = latest[k]
                      \/ disk[k] = latest[k] /\ \A i \in Cached(k) : ~valid[i]
    BY DEF NoUpdateLost
  <2>1. CASE \E i \in Cached(k) : valid[i]
    BY <2>1 DEF Cached, DataInv, Contents
  <2>2. CASE \A i \in Cached(k) : ~valid[i]
    BY <2>2 DEF Cached, DataInv, Contents
  <2> QED BY <2>1, <2>2
<1> QED BY <1>1, <1>2, <1>3, CacheInvAlways, PTL DEF Spec

-----------------------------------------------------------------------------
(* The disk driver.  A submitted request is in one of four places: in the   *)
(* available ring, in the device, in the used ring, or seen by the          *)
(* interrupt handler.  The invariant says that it is in exactly one, that   *)
(* the rings hold no head twice, and what is known of a request in each.    *)

Labels == {"idle", "alloc", "allocsleep", "wait", "iosleep"}

DriverTypes ==
    /\ free \subseteq Desc /\ inflight \subseteq Desc
    /\ desc \in [Desc -> [at : {"null", "ops", "data", "status"},
                          of : Desc \cup Clients, next : 0 .. NUM]]
    /\ ops = [d \in Desc |-> ops[d]]
    /\ info \in [Desc -> [b : Clients \cup {Unset}, status : {0, 255}]]
    /\ availRing \in [Desc -> Desc] /\ usedRing \in [Desc -> Desc]
    /\ availIdx \in 0 .. MOD - 1 /\ usedIdx \in 0 .. MOD - 1
    /\ lookedIdx \in 0 .. MOD - 1 /\ taken \in 0 .. MOD - 1
    /\ irq \in BOOLEAN /\ intr \in BOOLEAN /\ panicked \in BOOLEAN
    /\ vpc \in [Clients -> Labels] /\ head \in [Clients -> Desc]
    /\ blk \in [Clients -> Sectors \cup {Unset}]
    /\ write \in [Clients -> BOOLEAN] /\ busy \in [Clients -> BOOLEAN]
    /\ dma \in [Clients -> Values] /\ platter \in [Sectors -> Values]

\* The entries of ring r from index lo up to index hi: how many, the n-th of
\* them, all of them; and that no two are equal.
Count(lo, hi) == (hi - lo) % MOD
Entry(r, lo, n) == r[(lo + n) % NUM]
Held(r, lo, hi) == {Entry(r, lo, n) : n \in 0 .. Count(lo, hi) - 1}
Once(r, lo, hi) ==
    \A m, n \in 0 .. Count(lo, hi) - 1 : Entry(r, lo, m) = Entry(r, lo, n) => m = n

\* Requests the device has not begun, and those it has reported.
Queued == Held(availRing, taken, availIdx)
Reported == Held(usedRing, lookedIdx, usedIdx)

\* The second and the third descriptor of p's request.
Second(p) == desc[head[p]].next
Third(p) == desc[Second(p)].next

\* A submitted request is a chain of three descriptors that are not free and
\* that tell the device and the handler what its process asked for.
Linked(p) ==
    /\ Second(p) \in Desc /\ Third(p) \in Desc
    /\ head[p] # Second(p) /\ head[p] # Third(p) /\ Second(p) # Third(p)
    /\ desc[Second(p)].of = p /\ desc[Third(p)].of = head[p]
    /\ ops[head[p]] = [write |-> write[p], sector |-> blk[p]]
    /\ info[head[p]].b = p
Links == \A p \in Submitted : Linked(p)

\* The descriptors of p's request; every descriptor is free or in one request.
Three(p) == {head[p], Second(p), Third(p)}
Apart == \A p, q \in Submitted : p # q => Three(p) \cap Three(q) = {}
Shared == \A d \in Desc : d \in free <=> \A p \in Submitted : d \notin Three(p)

\* Two processes at work ask for different blocks.
Askers ==
    \A p \in Clients : vpc[p] # "idle" =>
      /\ blk[p] \in Sectors
      /\ \A q \in Clients : q # p /\ vpc[q] # "idle" => blk[q] # blk[p]

\* A request is in one place, once.
Places ==
    /\ Once(availRing, taken, availIdx) /\ Once(usedRing, lookedIdx, usedIdx)
    /\ Queued \cap inflight = {} /\ Queued \cap Reported = {} /\ inflight \cap Reported = {}

\* b->disk is set exactly while the request is in a ring or in the device.
Busy ==
    /\ \A p \in Clients : busy[p] => p \in Submitted
    /\ Queued \cup inflight \cup Reported = {head[p] : p \in {q \in Clients : busy[q]}}

\* What the device has reported is done, and so is what the handler has seen.
Done ==
    \A p \in Submitted :
      head[p] \in Reported \/ ~busy[p] => info[head[p]].status = 0 /\ dma[p] = platter[blk[p]]

Signal == lookedIdx # usedIdx => intr \/ irq

Requests == Links /\ Apart /\ Shared /\ Places /\ Busy /\ Done /\ ~panicked

DriverInv == DriverTypes /\ Askers /\ Requests /\ Signal

-----------------------------------------------------------------------------
(* The rings *)

LEMMA Sizes ==
    ASSUME VirtioAssumption
    PROVE  /\ NUM \in Nat \ {0} /\ MOD \in Nat \ {0} /\ NUM >= 3 /\ NUM =< MOD
           /\ (MOD % NUM) = 0
<1>1. NUM \in Nat \ {0} /\ MOD \in Nat \ {0} /\ NUM >= 3 /\ (MOD % NUM) = 0
  BY DEF VirtioAssumption
<1>2. MOD \in 0 .. NUM - 1 => (MOD % NUM) = MOD
  BY <1>1, ModCases
<1> QED
  BY <1>1, <1>2

\* SameCell for the driver's rings.
LEMMA RingCell ==
    ASSUME VirtioAssumption
    PROVE  \A a, k \in 0 .. MOD - 1 : \A j \in Int :
             (((a + k) % MOD) + j) % NUM = (a + k + j) % NUM
<1>1. MOD \in Nat \ {0} /\ NUM \in Nat \ {0} /\ (MOD % NUM) = 0
  BY Sizes
<1>2. \A m, n \in Nat \ {0} : (m % n) = 0 =>
        \A a, k \in 0 .. m - 1 : \A j \in Int :
          (((a + k) % m) + j) % n = (a + k + j) % n
  BY SameCell
<1>3. \A n \in Nat \ {0} : (MOD % n) = 0 =>
        \A a, k \in 0 .. MOD - 1 : \A j \in Int :
          (((a + k) % MOD) + j) % n = (a + k + j) % n
  BY <1>1, <1>2, Zenon
<1>4. (MOD % NUM) = 0 =>
        \A a, k \in 0 .. MOD - 1 : \A j \in Int :
          (((a + k) % MOD) + j) % NUM = (a + k + j) % NUM
  BY <1>1, <1>3, Zenon
<1> QED
  BY <1>1, <1>4, Zenon

LEMMA CountType ==
    ASSUME VirtioAssumption, NEW lo \in 0 .. MOD - 1, NEW hi \in 0 .. MOD - 1
    PROVE  Count(lo, hi) \in 0 .. MOD - 1
<1>1. MOD \in Nat \ {0} /\ hi - lo \in Int
  BY Sizes
<1>2. PICK x \in Int : x = hi - lo
  BY <1>1
<1>3. (x % MOD) \in 0 .. MOD - 1
  BY <1>1, ModCases
<1> QED
  BY <1>2, <1>3 DEF Count

\* Entries that are all different, and different from three descriptors, leave
\* three places free.
LEMMA Room ==
    ASSUME VirtioAssumption, NEW r \in [Desc -> Desc],
           NEW lo \in 0 .. MOD - 1, NEW hi \in 0 .. MOD - 1, Once(r, lo, hi),
           NEW d0 \in Desc, NEW d1 \in Desc, NEW d2 \in Desc, d0 # d1, d0 # d2, d1 # d2,
           {d0, d1, d2} \cap Held(r, lo, hi) = {}
    PROVE  Count(lo, hi) + 3 =< NUM
<1> DEFINE N == Count(lo, hi)
           D == Desc \ {d0, d1, d2}
           f == [n \in 0 .. N - 1 |-> Entry(r, lo, n)]
<1>0. N \in 0 .. MOD - 1
  BY CountType
<1>1. /\ IsFiniteSet(Desc) /\ Cardinality(Desc) = NUM
  <2>1. NUM \in Nat /\ 0 \in Int /\ NUM - 1 \in Int /\ 0 =< NUM - 1
    BY Sizes
  <2>2. \A a, e \in Int : /\ IsFiniteSet(a .. e)
                          /\ Cardinality(a .. e) = IF a > e THEN 0 ELSE e - a + 1
    BY FS_Interval
  <2> QED
    BY <2>1, <2>2 DEF Desc
<1>2. IsFiniteSet(D) /\ Cardinality(D) = NUM - 3
  <2> DEFINE A == Desc \ {d0}
             B == A \ {d1}
  <2>1. IsFiniteSet(A) /\ Cardinality(A) = NUM - 1
    BY <1>1, FS_RemoveElement
  <2>2. d1 \in A
    OBVIOUS
  <2>3. IsFiniteSet(B) /\ Cardinality(B) = NUM - 1 - 1
    <3> HIDE DEF A
    <3> QED
      BY <2>1, <2>2, FS_RemoveElement
  <2>4. d2 \in B
    OBVIOUS
  <2>5. IsFiniteSet(B \ {d2}) /\ Cardinality(B \ {d2}) = NUM - 1 - 1 - 1
    <3> HIDE DEF B
    <3> QED
      BY <2>3, <2>4, FS_RemoveElement
  <2>6. B \ {d2} = D
    OBVIOUS
  <2> QED
    BY <2>5, <2>6, Sizes
<1>3. f \in Injection(0 .. N - 1, D)
  <2>1. \A n \in 0 .. N - 1 : Entry(r, lo, n) \in D
    <3> TAKE n \in 0 .. N - 1
    <3>1. Entry(r, lo, n) \in Held(r, lo, hi)
      BY DEF Held
    <3>2. (lo + n) % NUM \in Desc
      <4>1. NUM \in Nat \ {0} /\ lo + n \in Int
        BY <1>0, Sizes
      <4> QED
        BY <4>1 DEF Desc
    <3> QED
      BY <3>1, <3>2 DEF Entry
  <2>2. f \in [0 .. N - 1 -> D]
    BY <2>1
  <2>3. \A m, n \in 0 .. N - 1 : f[m] = f[n] => m = n
    BY DEF Once
  <2> HIDE DEF f
  <2> QED
    BY <2>2, <2>3 DEF Injection, IsInjective
<1>4. IsFiniteSet(0 .. N - 1) /\ Cardinality(0 .. N - 1) = N
  <2>1. N - 1 \in Int /\ 0 \in Int
    BY <1>0
  <2>2. \A a, e \in Int : /\ IsFiniteSet(a .. e)
                          /\ Cardinality(a .. e) = IF a > e THEN 0 ELSE e - a + 1
    BY FS_Interval
  <2> HIDE DEF N
  <2> QED
    BY <1>0, <2>1, <2>2
<1>5. N =< NUM - 3
  <2> HIDE DEF N, D, f
  <2>1. Cardinality(0 .. N - 1) =< Cardinality(D)
    BY <1>2, <1>3, FS_Injection
  <2> QED
    BY <1>2, <1>4, <2>1
<1> QED
  BY <1>0, <1>5, Sizes

\* The chain d0, d1, d2 is not in the ring; d is put at the end of the ring.
DriverOutside(r, lo, hi, d0, d1, d2) ==
    /\ d0 # d1 /\ d0 # d2 /\ d1 # d2
    /\ {d0, d1, d2} \cap Held(r, lo, hi) = {}
Put(r, hi, d, s, top) == s = [r EXCEPT ![hi % NUM] = d] /\ top = (hi + 1) % MOD

\* A head put at the end of a ring, with its chain still out of it, joins the
\* entries: it overwrites none of them, and the indices do not meet.
LEMMA Push ==
    ASSUME VirtioAssumption, NEW r \in [Desc -> Desc],
           NEW lo \in 0 .. MOD - 1, NEW hi \in 0 .. MOD - 1, Once(r, lo, hi),
           NEW d0 \in Desc, NEW d1 \in Desc, NEW d2 \in Desc, DriverOutside(r, lo, hi, d0, d1, d2),
           NEW s, NEW top, Put(r, hi, d0, s, top)
    PROVE  /\ s \in [Desc -> Desc] /\ top \in 0 .. MOD - 1 /\ top # lo
           /\ Once(s, lo, top)
           /\ Held(s, lo, top) = Held(r, lo, hi) \cup {d0}
<1> USE DEF DriverOutside, Put
<1> DEFINE N == Count(lo, hi)
<1>0. /\ NUM \in Nat \ {0} /\ MOD \in Nat \ {0} /\ NUM >= 3 /\ NUM =< MOD
      /\ N \in 0 .. NUM - 3
  <2>1. Count(lo, hi) + 3 =< NUM
    BY Room
  <2>2. Count(lo, hi) \in 0 .. MOD - 1
    BY CountType
  <2> QED
    BY <2>1, <2>2, Sizes
<1>1. top \in 0 .. MOD - 1 /\ Count(lo, top) = N + 1
  <2>1. ((hi - lo) % MOD) + 1 < MOD
    BY <1>0 DEF Count
  <2>2. \A k \in Nat : ((hi - lo) % MOD) + k < MOD =>
          /\ ((hi + k) % MOD) \in 0 .. MOD - 1
          /\ (((hi + k) % MOD) - lo) % MOD = ((hi - lo) % MOD) + k
    BY <1>0, Forward
  <2> QED
    BY <2>1, <2>2 DEF Count
<1>2. top # lo
  <2>1. (0 % MOD) = 0
    BY <1>0, ModCases
  <2>2. top = lo => Count(lo, top) = 0
    BY <1>1, <2>1 DEF Count
  <2> QED
    BY <1>0, <1>1, <2>2
<1> HIDE DEF N
<1>3. (hi % NUM) = (lo + N) % NUM
  <2>1. hi = (lo + N) % MOD
    BY <1>0, Ahead DEF N, Count
  <2>2. PICK k \in 0 .. MOD - 1 : k = N
    BY <1>0
  <2>3. (((lo + k) % MOD) + 0) % NUM = (lo + k + 0) % NUM
    BY RingCell
  <2>4. ((lo + k) % MOD) + 0 = hi /\ lo + k + 0 = lo + N
    BY <2>1, <2>2
  <2> QED
    BY <2>3, <2>4
<1>4. \A n \in 0 .. N - 1 : (lo + n) % NUM # (hi % NUM)
  <2> TAKE n \in 0 .. N - 1
  <2>1. PICK x \in Int, y \in Int : x = lo + n /\ y = lo + N
    BY <1>0
  <2>2. y \in x .. x + NUM - 1 /\ x # y
    BY <1>0, <2>1
  <2>3. (x % NUM) # (y % NUM)
    BY <1>0, <2>2, ModDistinct
  <2> QED
    BY <1>3, <2>1, <2>3
<1>5. hi % NUM \in Desc /\ \A n \in Nat : (lo + n) % NUM \in Desc
  <2>1. \A x \in Int : (x % NUM) \in 0 .. NUM - 1
    BY <1>0, ModCases
  <2>2. hi \in Int /\ \A n \in Nat : lo + n \in Int
    BY <1>0
  <2> QED
    BY <2>1, <2>2 DEF Desc
<1>6. /\ \A n \in 0 .. N - 1 : Entry(s, lo, n) = Entry(r, lo, n)
      /\ Entry(s, lo, N) = d0
  <2>1. \A n \in 0 .. N - 1 : n \in Nat
    BY <1>0
  <2> QED
    BY <1>3, <1>4, <1>5, <2>1 DEF Entry
<1>7. \A n : n \in 0 .. Count(lo, top) - 1 <=> n \in 0 .. N - 1 \/ n = N
  BY <1>0, <1>1
<1>8. \A n \in 0 .. N - 1 : Entry(r, lo, n) \in Held(r, lo, hi)
  BY DEF Held, N
<1>9. Once(s, lo, top)
  <2> SUFFICES ASSUME NEW m \in 0 .. Count(lo, top) - 1, NEW n \in 0 .. Count(lo, top) - 1,
                      Entry(s, lo, m) = Entry(s, lo, n)
               PROVE  m = n
    BY DEF Once
  <2>1. \A i, j \in 0 .. N - 1 : Entry(r, lo, i) = Entry(r, lo, j) => i = j
    BY DEF Once, N
  <2>2. \A i \in 0 .. N - 1 : Entry(r, lo, i) # d0
    BY <1>8
  <2> QED
    BY <1>6, <1>7, <2>1, <2>2
<1>10. Held(s, lo, top) = Held(r, lo, hi) \cup {d0}
  <2>1. \A x : x \in Held(r, lo, hi) <=> \E n \in 0 .. N - 1 : x = Entry(r, lo, n)
    BY DEF Held, N
  <2>2. \A x : x \in Held(s, lo, top) <=> \E n \in 0 .. Count(lo, top) - 1 : x = Entry(s, lo, n)
    BY DEF Held
  <2>3. ASSUME NEW x \in Held(s, lo, top)
        PROVE  x \in Held(r, lo, hi) \/ x = d0
    <3>1. PICK n \in 0 .. Count(lo, top) - 1 : x = Entry(s, lo, n)
      BY <2>2
    <3> QED
      BY <1>6, <1>7, <2>1, <3>1
  <2>4. ASSUME NEW x \in Held(r, lo, hi)
        PROVE  x \in Held(s, lo, top)
    <3>1. PICK n \in 0 .. N - 1 : x = Entry(r, lo, n)
      BY <2>1
    <3> QED
      BY <1>6, <1>7, <2>2, <3>1
  <2>5. d0 \in Held(s, lo, top)
    BY <1>6, <1>7, <2>2
  <2> QED
    BY <2>3, <2>4, <2>5
<1>11. s \in [Desc -> Desc]
  BY <1>5
<1> QED
  BY <1>1, <1>2, <1>9, <1>10, <1>11

\* The first entry of a ring that is not empty leaves it.
LEMMA Pop ==
    ASSUME VirtioAssumption, NEW r \in [Desc -> Desc],
           NEW lo \in 0 .. MOD - 1, NEW hi \in 0 .. MOD - 1, Once(r, lo, hi), lo # hi,
           NEW next, next = (lo + 1) % MOD, NEW d, d = r[lo % NUM]
    PROVE  /\ next \in 0 .. MOD - 1 /\ d \in Desc
           /\ Once(r, next, hi)
           /\ d \in Held(r, lo, hi) /\ Held(r, next, hi) = Held(r, lo, hi) \ {d}
<1> DEFINE N == Count(lo, hi)
<1>0. /\ NUM \in Nat \ {0} /\ MOD \in Nat \ {0} /\ N \in 0 .. MOD - 1
  BY Sizes, CountType
<1>1. N > 0
  <2>1. \A x \in Int : /\ x \in 0 .. MOD - 1 => (x % MOD) = x
                       /\ x \in -MOD .. -1 => (x % MOD) = x + MOD
    BY <1>0, ModCases
  <2>2. PICK x \in Int : x = hi - lo
    BY <1>0
  <2>3. x # 0 /\ (x \in 0 .. MOD - 1 \/ x \in -MOD .. -1) /\ ~(x = -MOD)
    BY <1>0, <2>2
  <2>4. (x % MOD) > 0
    BY <1>0, <2>1, <2>3
  <2> QED
    BY <2>2, <2>4 DEF Count
<1>2. next \in 0 .. MOD - 1 /\ Count(next, hi) = N - 1
  <2>1. 1 =< ((hi - lo) % MOD)
    BY <1>0, <1>1 DEF Count
  <2>2. \A k \in Nat : k =< ((hi - lo) % MOD) =>
          /\ ((lo + k) % MOD) \in 0 .. MOD - 1
          /\ (hi - ((lo + k) % MOD)) % MOD = ((hi - lo) % MOD) - k
    BY <1>0, Backward
  <2> QED
    BY <2>1, <2>2 DEF Count
<1> HIDE DEF N
<1>3. \A n \in Nat : Entry(r, next, n) = Entry(r, lo, n + 1)
  <2> TAKE n \in Nat
  <2>1. 1 \in 0 .. MOD - 1
    BY <1>0, <1>1
  <2>2. (((lo + 1) % MOD) + n) % NUM = (lo + 1 + n) % NUM
    BY <2>1, RingCell
  <2>3. lo + 1 + n = lo + (n + 1)
    BY <1>0
  <2> QED
    BY <2>2, <2>3 DEF Entry
<1>4. d = Entry(r, lo, 0)
  <2>1. lo + 0 = lo
    BY <1>0
  <2> QED
    BY <2>1 DEF Entry
<1>5. Once(r, next, hi)
  <2> SUFFICES ASSUME NEW m \in 0 .. N - 2, NEW n \in 0 .. N - 2,
                      Entry(r, next, m) = Entry(r, next, n)
               PROVE  m = n
    <3>1. 0 .. Count(next, hi) - 1 = 0 .. N - 2
      BY <1>0, <1>2
    <3> QED
      BY <3>1 DEF Once
  <2>1. PICK i \in 0 .. N - 1, j \in 0 .. N - 1 : i = m + 1 /\ j = n + 1
    BY <1>0
  <2>2. Entry(r, lo, i) = Entry(r, lo, j)
    <3>1. m \in Nat /\ n \in Nat
      BY <1>0
    <3> QED
      BY <1>3, <2>1, <3>1
  <2>3. i = j
    BY <2>2 DEF Once, N
  <2> QED
    BY <1>0, <2>1, <2>3
<1>6. \A x : x \in Held(r, lo, hi) <=> \E n \in 0 .. N - 1 : x = Entry(r, lo, n)
  BY DEF Held, N
<1>7. 0 \in 0 .. N - 1
  BY <1>0, <1>1
<1>8. \A n \in 0 .. N - 1 : Entry(r, lo, n) = d => n = 0
  BY <1>4, <1>7 DEF Once, N
<1>9. \A x : x \in Held(r, next, hi) <=> \E n \in 0 .. N - 2 : x = Entry(r, next, n)
  <2>1. 0 .. Count(next, hi) - 1 = 0 .. N - 2
    BY <1>0, <1>2
  <2> QED
    BY <2>1 DEF Held
<1>10. \A x : x \in Held(r, next, hi) <=> \E n \in 1 .. N - 1 : x = Entry(r, lo, n)
  <2>1. ASSUME NEW x, NEW n \in 0 .. N - 2, x = Entry(r, next, n)
        PROVE  \E m \in 1 .. N - 1 : x = Entry(r, lo, m)
    <3>1. n \in Nat /\ n + 1 \in 1 .. N - 1
      BY <1>0
    <3> QED
      BY <1>3, <2>1, <3>1
  <2>2. ASSUME NEW x, NEW m \in 1 .. N - 1, x = Entry(r, lo, m)
        PROVE  \E n \in 0 .. N - 2 : x = Entry(r, next, n)
    <3>1. PICK n \in 0 .. N - 2 : m = n + 1
      <4>1. m - 1 \in 0 .. N - 2 /\ m = (m - 1) + 1
        BY <1>0
      <4> QED
        BY <4>1
    <3>2. n \in Nat
      BY <1>0
    <3> QED
      BY <1>3, <2>2, <3>1, <3>2
  <2> QED
    BY <1>9, <2>1, <2>2
<1>11. \A n : n \in 1 .. N - 1 <=> n \in 0 .. N - 1 /\ n # 0
  BY <1>0
<1>12. Held(r, next, hi) = Held(r, lo, hi) \ {d}
  BY <1>4, <1>6, <1>8, <1>10, <1>11
<1>13. d \in Held(r, lo, hi)
  BY <1>4, <1>6, <1>7
<1>14. d \in Desc
  <2>1. (lo % NUM) \in 0 .. NUM - 1
    BY <1>0
  <2> QED
    BY <2>1 DEF Desc
<1> QED
  BY <1>2, <1>5, <1>12, <1>13, <1>14

\* A ring whose indices are equal is empty.
LEMMA Empty ==
    ASSUME VirtioAssumption, NEW r, NEW lo \in 0 .. MOD - 1
    PROVE  Held(r, lo, lo) = {} /\ Once(r, lo, lo)
<1>1. (0 % MOD) = 0
  BY Sizes, ModCases
<1>2. Count(lo, lo) = 0
  <2>1. lo - lo = 0
    BY Sizes
  <2> QED
    BY <1>1, <2>1 DEF Count
<1>3. 0 .. 0 - 1 = {}
  OBVIOUS
<1> QED
  BY <1>2, <1>3 DEF Held, Once

-----------------------------------------------------------------------------
(* Descriptors *)

LEMMA DescFinite ==
    ASSUME VirtioAssumption
    PROVE  IsFiniteSet(Desc) /\ Desc \subseteq Nat
<1>1. 0 \in Int /\ NUM - 1 \in Int
  BY Sizes
<1>2. IsFiniteSet(0 .. NUM - 1)
  BY <1>1, FS_Interval
<1> QED
  BY <1>2, Sizes DEF Desc

\* alloc3_desc() with three descriptors free gets three different ones.
LEMMA Lowest ==
    ASSUME VirtioAssumption, free \subseteq Desc, Cardinality(free) >= 3
    PROVE  /\ {Nth(0), Nth(1), Nth(2)} \subseteq free
           /\ Nth(0) # Nth(1) /\ Nth(0) # Nth(2) /\ Nth(1) # Nth(2)
<1> DEFINE Below(d) == {c \in free : c < d}
<1>1. IsFiniteSet(free) /\ free \in SUBSET Nat /\ Cardinality(free) \in Nat
  BY DescFinite, FS_Subset, FS_CardinalityType
<1>2. \A S \in SUBSET free : S # {} => \E n \in S : \A m \in S : n =< m
  <2> TAKE S \in SUBSET free
  <2>1. IsFiniteSet(S) /\ S \in SUBSET Nat
    BY <1>1, FS_Subset
  <2> QED
    BY <2>1, Least
<1>3. free # {}
  BY FS_EmptySet
<1>4. PICK a \in free : \A m \in free : a =< m
  BY <1>2, <1>3
<1>5. IsFiniteSet(free \ {a}) /\ Cardinality(free \ {a}) = Cardinality(free) - 1
  BY <1>1, FS_RemoveElement
<1>6. free \ {a} # {}
  BY <1>1, <1>5, FS_EmptySet
<1>7. PICK e \in free \ {a} : \A m \in free \ {a} : e =< m
  BY <1>2, <1>6
<1>8. Cardinality((free \ {a}) \ {e}) = Cardinality(free) - 1 - 1
  <2> DEFINE R == free \ {a}
  <2>1. e \in R /\ IsFiniteSet(R) /\ Cardinality(R) = Cardinality(free) - 1
    BY <1>5
  <2> HIDE DEF R
  <2>2. Cardinality(R \ {e}) = Cardinality(R) - 1
    BY <2>1, FS_RemoveElement
  <2> QED
    BY <2>1, <2>2 DEF R
<1>9. (free \ {a}) \ {e} # {}
  BY <1>1, <1>8, FS_EmptySet
<1>10. PICK c \in (free \ {a}) \ {e} : \A m \in (free \ {a}) \ {e} : c =< m
  BY <1>2, <1>9
<1>11. a \in Nat /\ e \in Nat /\ c \in Nat /\ \A m \in free : m \in Nat
  BY <1>1
<1>12. Below(a) = {} /\ Below(e) = {a} /\ Below(c) = {a, e}
  <2>0. \A m \in free : /\ ~(m < a)
                        /\ m < e <=> m = a
                        /\ m < c <=> m = a \/ m = e
    <3> TAKE m \in free
    <3>1. m \in Nat /\ a =< m /\ (m # a => e =< m) /\ (m # a /\ m # e => c =< m)
      BY <1>4, <1>7, <1>10, <1>11
    <3>2. a =< e /\ a # e /\ e =< c /\ e # c
      BY <1>4, <1>7, <1>10
    <3> QED
      BY <1>11, <3>1, <3>2
  <2>1. Below(a) = {}
    BY <2>0
  <2>2. Below(e) = {a}
    BY <2>0
  <2>3. Below(c) = {a, e}
    BY <2>0
  <2> QED
    BY <2>1, <2>2, <2>3
<1>13. Cardinality(Below(a)) = 0 /\ Cardinality(Below(e)) = 1 /\ Cardinality(Below(c)) = 2
  <2>1. Cardinality({}) = 0
    BY FS_EmptySet
  <2>2. IsFiniteSet({a}) /\ Cardinality({a}) = 1
    BY FS_Singleton
  <2>3. e \notin {a}
    OBVIOUS
  <2>4. Cardinality({a} \cup {e}) = 1 + 1
    BY <2>2, <2>3, FS_AddElement
  <2>5. {a} \cup {e} = {a, e}
    OBVIOUS
  <2> QED
    BY <1>12, <2>1, <2>2, <2>4, <2>5
<1>14. \A n : (\E d \in free : Cardinality(Below(d)) = n) =>
         Nth(n) \in free /\ Cardinality(Below(Nth(n))) = n
  BY DEF Nth
<1>15. /\ Nth(0) \in free /\ Cardinality(Below(Nth(0))) = 0
       /\ Nth(1) \in free /\ Cardinality(Below(Nth(1))) = 1
       /\ Nth(2) \in free /\ Cardinality(Below(Nth(2))) = 2
  <2> HIDE DEF Below
  <2> QED
    BY <1>13, <1>14
<1>16. Nth(0) # Nth(1) /\ Nth(0) # Nth(2) /\ Nth(1) # Nth(2)
  <2> HIDE DEF Below
  <2>1. 0 # 1 /\ 0 # 2 /\ 1 # 2
    OBVIOUS
  <2> QED
    BY <1>15, <2>1, Zenon
<1> QED
  BY <1>15, <1>16

\* free_chain() frees the three descriptors of the request.
LEMMA ChainIs ==
    ASSUME VirtioAssumption, DriverTypes, Links, NEW p \in Submitted
    PROVE  Chain(head[p]) = Three(p) /\ Three(p) \subseteq Desc
<1>1. NUM \notin Desc
  BY Sizes DEF Desc
<1>2. Second(p) \in Desc /\ Third(p) \in Desc /\ head[p] \in Desc
  BY DEF Links, Linked, DriverTypes, Submitted
<1> QED
  BY <1>1, <1>2 DEF Chain, Three, Second, Third

\* Requests in a ring or in the device are those of the processes waiting.
LEMMA Owner ==
    ASSUME DriverTypes, Busy, NEW d \in Queued \cup inflight \cup Reported
    PROVE  \E q \in Submitted : busy[q] /\ head[q] = d
  BY DEF Busy

LEMMA OneHead ==
    ASSUME Apart, NEW p \in Submitted, NEW q \in Submitted, p # q
    PROVE  head[p] # head[q] /\ head[q] \notin Three(p)
  BY DEF Apart, Three

-----------------------------------------------------------------------------
(* Initially, and by steps that touch no request *)

LEMMA DriverInitInv == ASSUME VirtioAssumption, DriverInit PROVE DriverInv
<1>1. NUM \in Nat \ {0} /\ MOD \in Nat \ {0} /\ 0 \in Desc /\ 0 \in 0 .. MOD - 1
  BY Sizes DEF Desc
<1>2. DriverTypes
  <2>1. \A d \in Desc : Null \in [at : {"null", "ops", "data", "status"},
                                  of : Desc \cup Clients, next : 0 .. NUM]
    BY <1>1 DEF Null
  <2>2. (CHOOSE v \in Values : TRUE) \in Values
    BY DEF VirtioAssumption
  <2>3. dma \in [Clients -> Values] /\ platter \in [Sectors -> Values]
    BY <2>2 DEF DriverInit
  <2>4. ops = [d \in Desc |-> ops[d]]
    BY DEF DriverInit
  <2> QED
    BY <1>1, <2>1, <2>3, <2>4 DEF DriverInit, DriverTypes, Labels
<1>3. Submitted = {} /\ Askers /\ Signal /\ ~panicked
  BY DEF DriverInit, Submitted, Askers, Signal
<1>4. Links /\ Apart /\ Shared /\ Done
  BY <1>3 DEF DriverInit, Links, Apart, Shared, Done
<1>5. Queued = {} /\ Reported = {} /\ Places
  <2>1. \A r : Held(r, 0, 0) = {} /\ Once(r, 0, 0)
    BY <1>1, Empty
  <2> QED
    BY <2>1 DEF DriverInit, Places, Queued, Reported
<1>6. Busy
  BY <1>5 DEF DriverInit, Busy
<1> QED
  BY <1>2, <1>3, <1>4, <1>5, <1>6 DEF DriverInv, Requests

\* A step that leaves the rings and the submitted requests alone.
LEMMA DriverQuietInv ==
    ASSUME Requests, DriverTypes', Submitted' = Submitted,
           UNCHANGED <<driver, usedRing, usedIdx, taken, inflight, platter, panicked>>,
           \A p \in Submitted : dma'[p] = dma[p] /\ blk'[p] = blk[p] /\ write'[p] = write[p]
    PROVE  Requests'
<1>1. /\ free' = free /\ desc' = desc /\ ops' = ops /\ info' = info
      /\ availRing' = availRing /\ availIdx' = availIdx /\ lookedIdx' = lookedIdx
      /\ head' = head /\ busy' = busy /\ usedRing' = usedRing /\ usedIdx' = usedIdx
      /\ taken' = taken /\ inflight' = inflight /\ platter' = platter /\ panicked' = panicked
  BY DEF driver
<1>2. Queued' = Queued /\ Reported' = Reported /\ Places'
  BY <1>1 DEF Queued, Reported, Places, Requests, Held, Once, Entry, Count
<1>3. \A p : Second(p)' = Second(p) /\ Third(p)' = Third(p) /\ Three(p)' = Three(p)
  BY <1>1 DEF Second, Third, Three
<1>4. Links'
  BY <1>1, <1>3 DEF Links, Linked, Requests
<1>5. Apart' /\ Shared'
  BY <1>1, <1>3 DEF Apart, Shared, Requests
<1>6. Busy'
  BY <1>1, <1>2 DEF Busy, Requests
<1>7. Done'
  BY <1>1, <1>2 DEF Done, Requests
<1> QED
  BY <1>1, <1>2, <1>4, <1>5, <1>6, <1>7 DEF Requests

LEMMA AskInv ==
    ASSUME VirtioAssumption, DriverInv, NEW p \in Clients, NEW k \in Sectors,
           Read(p, k) \/ \E v \in Values : Write(p, k, v)
    PROVE  DriverInv'
<1>1. /\ vpc[p] = "idle" /\ \A q \in Clients : blk[q] # k
      /\ vpc' = [vpc EXCEPT ![p] = "alloc"]
      /\ blk' = [blk EXCEPT ![p] = k]
      /\ UNCHANGED <<driver, usedRing, usedIdx, taken, inflight, platter, irq, intr, panicked>>
  BY DEF Read, Write, MoveTo, device
<1>2. PICK x \in BOOLEAN, v \in Values :
        write' = [write EXCEPT ![p] = x] /\ (dma' = dma \/ dma' = [dma EXCEPT ![p] = v])
  <2>1. PICK v : v \in Values
    BY DEF VirtioAssumption
  <2>2. CASE Read(p, k)
    <3>1. write' = [write EXCEPT ![p] = FALSE] /\ dma' = dma
      BY <2>2 DEF Read, device
    <3> QED
      BY <2>1, <3>1
  <2>3. ASSUME NEW w \in Values, Write(p, k, w)
        PROVE  write' = [write EXCEPT ![p] = TRUE] /\ dma' = [dma EXCEPT ![p] = w]
    BY <2>3 DEF Write
  <2> QED
    BY <2>2, <2>3
<1>3. DriverTypes'
  <2>1. /\ vpc' \in [Clients -> Labels] /\ blk' \in [Clients -> Sectors \cup {Unset}]
        /\ write' \in [Clients -> BOOLEAN]
    BY <1>1, <1>2 DEF DriverInv, DriverTypes, Labels
  <2>2. dma' \in [Clients -> Values]
    BY <1>2 DEF DriverInv, DriverTypes
  <2> QED
    BY <1>1, <2>1, <2>2 DEF DriverInv, DriverTypes, driver
<1>4. Submitted' = Submitted /\ p \notin Submitted
  BY <1>1 DEF Submitted, DriverInv, DriverTypes
<1>5. \A q \in Submitted : dma'[q] = dma[q] /\ blk'[q] = blk[q] /\ write'[q] = write[q]
  BY <1>1, <1>2, <1>4 DEF DriverInv, DriverTypes, Submitted
<1>6. Requests'
  BY <1>1, <1>3, <1>4, <1>5, DriverQuietInv DEF DriverInv
<1>7. Askers'
  BY <1>1 DEF Askers, DriverInv, DriverTypes
<1>8. Signal'
  BY <1>1 DEF Signal, DriverInv, driver
<1> QED
  BY <1>3, <1>6, <1>7, <1>8 DEF DriverInv

\* Steps that only move processes within or out of their loops.
LEMMA MoveInv ==
    ASSUME VirtioAssumption, DriverInv, UNCHANGED <<driver, device, blk, write, panicked>>,
           vpc' \in [Clients -> Labels], irq' \in BOOLEAN, intr' \in BOOLEAN, Signal',
           \A q \in Clients : /\ vpc'[q] = "idle" <=> vpc[q] = "idle"
                              /\ vpc'[q] \in {"wait", "iosleep"} <=> vpc[q] \in {"wait", "iosleep"}
    PROVE  DriverInv'
<1>1. DriverTypes'
  BY DEF DriverInv, DriverTypes, driver, device
<1>2. Submitted' = Submitted
  BY DEF Submitted
<1>3. Requests'
  BY <1>1, <1>2, DriverQuietInv DEF DriverInv, device
<1>4. Askers'
  BY DEF Askers, DriverInv
<1> QED
  BY <1>1, <1>3, <1>4 DEF DriverInv

LEMMA DriverMoveSteps ==
    ASSUME VirtioAssumption, DriverInv,
           (\E p \in Clients : AllocFails(p) \/ WaitSleep(p)) \/ IntrAck \/ IntrEnd
    PROVE  DriverInv'
<1> USE DEF Labels
<1>0. vpc \in [Clients -> Labels] /\ irq \in BOOLEAN /\ intr \in BOOLEAN /\ Signal
  BY DEF DriverInv, DriverTypes
<1>1. ASSUME NEW p \in Clients, AllocFails(p)
      PROVE  DriverInv'
  <2>1. /\ UNCHANGED <<driver, device, irq, intr, blk, write, panicked>>
        /\ vpc[p] = "alloc"
        /\ vpc' = [q \in Clients |-> IF q = p THEN "allocsleep"
                                  ELSE IF free # {} THEN Awake(q) ELSE vpc[q]]
    BY <1>1 DEF AllocFails
  <2>2. Signal'
    BY <1>0, <2>1 DEF Signal, driver, device
  <2>3. /\ vpc' \in [Clients -> Labels]
        /\ \A q \in Clients : /\ vpc'[q] = "idle" <=> vpc[q] = "idle"
                              /\ vpc'[q] \in {"wait", "iosleep"} <=> vpc[q] \in {"wait", "iosleep"}
    BY <1>0, <2>1 DEF Awake
  <2> QED
    BY <1>0, <2>1, <2>2, <2>3, MoveInv
<1>2. ASSUME NEW p \in Clients, WaitSleep(p)
      PROVE  DriverInv'
  <2>1. /\ UNCHANGED <<driver, device, irq, intr, blk, write, panicked>>
        /\ vpc[p] = "wait" /\ vpc' = [vpc EXCEPT ![p] = "iosleep"]
    BY <1>2 DEF WaitSleep, MoveTo
  <2>2. Signal'
    BY <1>0, <2>1 DEF Signal, driver, device
  <2>3. /\ vpc' \in [Clients -> Labels]
        /\ \A q \in Clients : /\ vpc'[q] = "idle" <=> vpc[q] = "idle"
                              /\ vpc'[q] \in {"wait", "iosleep"} <=> vpc[q] \in {"wait", "iosleep"}
    BY <1>0, <2>1
  <2> QED
    BY <1>0, <2>1, <2>2, <2>3, MoveInv
<1>3. CASE IntrAck
  <2>1. UNCHANGED <<driver, device, vpc, blk, write, panicked>> /\ irq' = FALSE /\ intr' = TRUE
    BY <1>3 DEF IntrAck
  <2>2. Signal'
    BY <2>1 DEF Signal
  <2> QED
    BY <1>0, <2>1, <2>2, MoveInv
<1>4. CASE IntrEnd
  <2>1. /\ UNCHANGED <<driver, device, irq, vpc, blk, write, panicked>>
        /\ lookedIdx = usedIdx /\ intr' = FALSE
    BY <1>4 DEF IntrEnd
  <2>2. Signal'
    BY <2>1 DEF Signal, driver, device
  <2> QED
    BY <1>0, <2>1, <2>2, MoveInv
<1> QED
  BY <1>1, <1>2, <1>3, <1>4

-----------------------------------------------------------------------------
(* Steps that move a request *)

LEMMA SubmitInv == ASSUME VirtioAssumption, DriverInv, NEW p \in Clients, Submit(p) PROVE DriverInv'
<1>0. DriverTypes /\ Askers /\ Links /\ Apart /\ Shared /\ Places /\ Busy /\ Done /\ Signal /\ ~panicked
  BY DEF DriverInv, Requests
<1>1. PICK d0 \in free, d1 \in free, d2 \in free :
        d0 = Nth(0) /\ d1 = Nth(1) /\ d2 = Nth(2) /\ d0 # d1 /\ d0 # d2 /\ d1 # d2
  BY <1>0, Lowest DEF Submit, DriverTypes
<1>2. /\ vpc[p] = "alloc"
      /\ free' = free \ {d0, d1, d2}
      /\ ops' = [ops EXCEPT ![d0] = [write |-> write[p], sector |-> blk[p]]]
      /\ desc' = [desc EXCEPT ![d0] = [at |-> "ops", of |-> d0, next |-> d1],
                              ![d1] = [at |-> "data", of |-> p, next |-> d2],
                              ![d2] = [at |-> "status", of |-> d0, next |-> NUM]]
      /\ info' = [info EXCEPT ![d0] = [b |-> p, status |-> 255]]
      /\ busy' = [busy EXCEPT ![p] = TRUE]
      /\ head' = [head EXCEPT ![p] = d0]
      /\ availRing' = [availRing EXCEPT ![availIdx % NUM] = d0]
      /\ availIdx' = (availIdx + 1) % MOD
      /\ vpc' = [vpc EXCEPT ![p] = "wait"]
  BY <1>1 DEF Submit, Marked, Advanced, MoveTo
<1>3. /\ lookedIdx' = lookedIdx /\ usedRing' = usedRing /\ usedIdx' = usedIdx
      /\ taken' = taken /\ inflight' = inflight /\ dma' = dma /\ platter' = platter
      /\ irq' = irq /\ intr' = intr /\ blk' = blk /\ write' = write /\ panicked' = panicked
  BY DEF Submit, device
<1>4. {d0, d1, d2} \subseteq Desc
  BY <1>0, <1>1 DEF DriverTypes
<1>5. p \notin Submitted /\ Submitted' = Submitted \cup {p} /\ ~busy[p]
  <2>1. vpc \in [Clients -> Labels] /\ vpc[p] = "alloc" /\ vpc' = [vpc EXCEPT ![p] = "wait"]
    BY <1>0, <1>2 DEF DriverTypes
  <2>2. p \notin Submitted /\ Submitted' = Submitted \cup {p}
    BY <2>1 DEF Submitted
  <2> QED
    BY <1>0, <2>2 DEF Busy
\* The other requests keep their descriptors.
<1>6. \A q \in Submitted : {d0, d1, d2} \cap Three(q) = {}
  BY <1>0, <1>1, <1>4 DEF Shared
<1>7. \A q \in Submitted :
        /\ q # p /\ head'[q] = head[q] /\ Second(q)' = Second(q) /\ Third(q)' = Third(q)
        /\ Three(q)' = Three(q) /\ desc'[Second(q)] = desc[Second(q)]
        /\ desc'[Third(q)] = desc[Third(q)] /\ ops'[head[q]] = ops[head[q]]
        /\ info'[head[q]] = info[head[q]]
  <2> TAKE q \in Submitted
  <2>1. q \in Clients /\ q # p /\ head'[q] = head[q]
    BY <1>0, <1>2, <1>5 DEF Submitted, DriverTypes
  <2>2. head[q] \in Desc /\ Second(q) \in Desc /\ Third(q) \in Desc
    BY <1>0, <2>1 DEF Links, Linked, DriverTypes
  <2>3. \A d \in Three(q) : d # d0 /\ d # d1 /\ d # d2
    BY <1>6
  <2>4. \A d \in Desc : d # d0 /\ d # d1 /\ d # d2 =>
          desc'[d] = desc[d] /\ ops'[d] = ops[d] /\ info'[d] = info[d]
    BY <1>0, <1>2, <1>4 DEF DriverTypes
  <2>5. \A d \in Three(q) : desc'[d] = desc[d] /\ ops'[d] = ops[d] /\ info'[d] = info[d]
    BY <2>2, <2>3, <2>4 DEF Three
  <2>6. /\ desc'[head[q]] = desc[head[q]] /\ desc'[Second(q)] = desc[Second(q)]
        /\ desc'[Third(q)] = desc[Third(q)] /\ ops'[head[q]] = ops[head[q]]
        /\ info'[head[q]] = info[head[q]]
    BY <2>5 DEF Three
  <2>7. Second(q)' = Second(q)
    BY <2>1, <2>6 DEF Second
  <2>8. Third(q)' = Third(q)
    BY <2>6, <2>7 DEF Third
  <2> QED
    BY <2>1, <2>6, <2>7, <2>8 DEF Three
<1>8. /\ head'[p] = d0 /\ Second(p)' = d1 /\ Third(p)' = d2 /\ Three(p)' = {d0, d1, d2}
      /\ desc'[d1].of = p /\ desc'[d2].of = d0
      /\ ops'[d0] = [write |-> write[p], sector |-> blk[p]] /\ info'[d0].b = p
  <2>1. head'[p] = d0
    BY <1>0, <1>2 DEF DriverTypes
  <2>2. /\ desc'[d0] = [at |-> "ops", of |-> d0, next |-> d1]
        /\ desc'[d1] = [at |-> "data", of |-> p, next |-> d2]
        /\ desc'[d2] = [at |-> "status", of |-> d0, next |-> NUM]
    BY <1>0, <1>1, <1>2, <1>4 DEF DriverTypes
  <2>3. ops'[d0] = [write |-> write[p], sector |-> blk[p]] /\ info'[d0] = [b |-> p, status |-> 255]
    <3>1. DOMAIN ops = Desc
      BY <1>0 DEF DriverTypes
    <3> QED
      BY <1>0, <1>2, <1>4, <3>1 DEF DriverTypes
  <2>4. Second(p)' = d1
    BY <2>1, <2>2 DEF Second
  <2>5. Third(p)' = d2
    BY <2>2, <2>4 DEF Third
  <2> QED
    BY <2>1, <2>2, <2>3, <2>4, <2>5 DEF Three
<1>9. Links'
  <2>1. Linked(p)'
    BY <1>1, <1>3, <1>4, <1>8 DEF Linked
  <2>2. \A q \in Submitted : Linked(q)'
    BY <1>0, <1>3, <1>7 DEF Links, Linked
  <2> QED
    BY <1>5, <2>1, <2>2 DEF Links
<1>10. Apart' /\ Shared'
  <2>1. Apart'
    BY <1>0, <1>5, <1>6, <1>7, <1>8 DEF Apart
  <2>2. Shared'
    BY <1>0, <1>2, <1>4, <1>5, <1>7, <1>8 DEF Shared
  <2> QED
    BY <2>1, <2>2
\* The head joins the available ring.
<1>11. \A d \in Queued \cup inflight \cup Reported : d \notin {d0, d1, d2}
  BY <1>0, <1>6, Owner DEF Three
<1>12. /\ availRing' \in [Desc -> Desc] /\ availIdx' \in 0 .. MOD - 1
       /\ Once(availRing', taken, availIdx')
       /\ Held(availRing', taken, availIdx') = Queued \cup {d0}
  <2>1. PICK r \in [Desc -> Desc], lo \in 0 .. MOD - 1, hi \in 0 .. MOD - 1 :
          r = availRing /\ lo = taken /\ hi = availIdx
    BY <1>0 DEF DriverTypes
  <2>2. PICK s, top : s = availRing' /\ top = availIdx'
    OBVIOUS
  <2>3. Once(r, lo, hi) /\ Held(r, lo, hi) = Queued
    BY <1>0, <2>1 DEF Places, Queued
  <2>4. DriverOutside(r, lo, hi, d0, d1, d2)
    BY <1>1, <1>11, <2>3 DEF DriverOutside
  <2>5. Put(r, hi, d0, s, top)
    BY <1>2, <2>1, <2>2 DEF Put
  <2>6. d0 \in Desc /\ d1 \in Desc /\ d2 \in Desc
    BY <1>4
  <2>7. /\ s \in [Desc -> Desc] /\ top \in 0 .. MOD - 1 /\ Once(s, lo, top)
        /\ Held(s, lo, top) = Held(r, lo, hi) \cup {d0}
    BY ONLY VirtioAssumption, r \in [Desc -> Desc], lo \in 0 .. MOD - 1, hi \in 0 .. MOD - 1,
            <2>3, <2>4, <2>5, <2>6, Push
  <2> QED
    BY <2>1, <2>2, <2>3, <2>7
<1>13. Queued' = Queued \cup {d0} /\ Reported' = Reported
  BY <1>3, <1>12 DEF Queued, Reported, Held, Entry, Count
<1>14. Places'
  <2>1. Once(availRing, taken, availIdx)' /\ Once(usedRing, lookedIdx, usedIdx)'
    BY <1>0, <1>3, <1>12 DEF Places, Once, Entry, Count
  <2> QED
    BY <1>0, <1>3, <1>11, <1>13, <2>1 DEF Places
<1>15. Busy'
  <2>1. \A q \in Clients : busy'[q] <=> busy[q] \/ q = p
    BY <1>0, <1>2 DEF DriverTypes
  <2>2. \A q \in Clients : busy'[q] => q \in Submitted'
    BY <1>0, <1>5, <2>1 DEF Busy
  <2>3. \A q \in Clients : busy[q] => head'[q] = head[q]
    BY <1>0, <1>7 DEF Busy
  <2>4. {head'[q] : q \in {x \in Clients : busy'[x]}} = {head[q] : q \in {x \in Clients : busy[x]}} \cup {d0}
    BY <1>8, <2>1, <2>3
  <2>5. Queued \cup inflight \cup Reported = {head[q] : q \in {x \in Clients : busy[x]}}
    BY <1>0 DEF Busy
  <2>6. Queued' \cup inflight' \cup Reported' = {head'[q] : q \in {x \in Clients : busy'[x]}}
    BY <1>3, <1>13, <2>4, <2>5
  <2> QED
    BY <2>2, <2>6 DEF Busy
<1>16. Done'
  <2>1. busy'[p]
    BY <1>0, <1>2 DEF DriverTypes
  <2>2. d0 \notin Reported
    BY <1>11
  <2>3. \A q \in Submitted : busy'[q] <=> busy[q]
    BY <1>0, <1>2, <1>5 DEF DriverTypes, Submitted
  <2> QED
    BY <1>0, <1>3, <1>5, <1>7, <1>8, <1>13, <2>1, <2>2, <2>3 DEF Done
<1>17. DriverTypes'
  <2>1. free' \subseteq Desc /\ inflight' \subseteq Desc
    BY <1>0, <1>2, <1>3 DEF DriverTypes
  <2>2. desc' \in [Desc -> [at : {"null", "ops", "data", "status"},
                            of : Desc \cup Clients, next : 0 .. NUM]]
    <3>1. /\ d1 \in 0 .. NUM /\ d2 \in 0 .. NUM /\ NUM \in 0 .. NUM
      BY <1>4, Sizes DEF Desc
    <3> QED
      BY <1>0, <1>2, <1>4, <3>1 DEF DriverTypes
  <2>3. ops' = [d \in Desc |-> ops'[d]]
    BY <1>0, <1>2 DEF DriverTypes
  <2>4. info' \in [Desc -> [b : Clients \cup {Unset}, status : {0, 255}]]
    BY <1>0, <1>2 DEF DriverTypes
  <2>5. vpc' \in [Clients -> Labels] /\ head' \in [Clients -> Desc] /\ busy' \in [Clients -> BOOLEAN]
    BY <1>0, <1>2, <1>4 DEF DriverTypes, Labels
  <2> QED
    BY <1>0, <1>3, <1>12, <2>1, <2>2, <2>3, <2>4, <2>5 DEF DriverTypes
<1>18. Askers' /\ Signal'
  BY <1>0, <1>2, <1>3 DEF Askers, Signal, DriverTypes
<1> QED
  BY <1>0, <1>3, <1>9, <1>10, <1>14, <1>15, <1>16, <1>17, <1>18 DEF DriverInv, Requests

LEMMA FreeChainInv == ASSUME VirtioAssumption, DriverInv, NEW p \in Clients, FreeChain(p) PROVE DriverInv'
<1>0. DriverTypes /\ Askers /\ Links /\ Apart /\ Shared /\ Places /\ Busy /\ Done /\ Signal /\ ~panicked
  BY DEF DriverInv, Requests
<1>1. p \in Submitted /\ vpc[p] = "wait" /\ ~busy[p]
  BY DEF FreeChain, Submitted
<1>2. Chain(head[p]) = Three(p) /\ Three(p) \subseteq Desc /\ Three(p) \cap free = {}
  BY <1>0, <1>1, ChainIs DEF Shared
<1>3. /\ info' = [info EXCEPT ![head[p]].b = Unset]
      /\ desc' = [d \in Desc |-> IF d \in Three(p) THEN Null ELSE desc[d]]
      /\ free' = free \cup Three(p)
      /\ blk' = [blk EXCEPT ![p] = Unset]
      /\ head' = [head EXCEPT ![p] = 0]
      /\ vpc' = [q \in Clients |-> IF q = p THEN "idle" ELSE Awake(q)]
      /\ ~panicked'
  BY <1>2 DEF FreeChain
<1>4. /\ ops' = ops /\ availRing' = availRing /\ availIdx' = availIdx /\ lookedIdx' = lookedIdx
      /\ busy' = busy /\ usedRing' = usedRing /\ usedIdx' = usedIdx /\ taken' = taken
      /\ inflight' = inflight /\ dma' = dma /\ platter' = platter /\ irq' = irq /\ intr' = intr
      /\ write' = write
  BY DEF FreeChain, device
<1>5. Submitted' = Submitted \ {p}
  <2>1. \A q \in Clients : vpc'[q] \in {"wait", "iosleep"} <=> q # p /\ vpc[q] \in {"wait", "iosleep"}
    BY <1>3 DEF Awake
  <2> QED
    BY <2>1 DEF Submitted
<1>6. \A q \in Submitted' :
        /\ q \in Submitted /\ q # p /\ head'[q] = head[q]
        /\ Second(q)' = Second(q) /\ Third(q)' = Third(q)
        /\ Three(q)' = Three(q) /\ desc'[Second(q)] = desc[Second(q)]
        /\ desc'[Third(q)] = desc[Third(q)] /\ info'[head[q]] = info[head[q]]
        /\ blk'[q] = blk[q]
  <2> TAKE q \in Submitted'
  <2>1. q \in Submitted /\ q \in Clients /\ q # p
    BY <1>5 DEF Submitted
  <2>2. head'[q] = head[q] /\ blk'[q] = blk[q]
    BY <1>0, <1>3, <2>1 DEF DriverTypes
  <2>3. head[q] \in Desc /\ Second(q) \in Desc /\ Third(q) \in Desc
    BY <1>0, <2>1 DEF Links, Linked, DriverTypes
  <2>4. Three(q) \cap Three(p) = {}
    BY <1>0, <1>1, <2>1 DEF Apart
  <2>5. \A d \in Three(q) : desc'[d] = desc[d]
    BY <1>3, <2>3, <2>4 DEF Three
  <2>6. /\ desc'[head[q]] = desc[head[q]] /\ desc'[Second(q)] = desc[Second(q)]
        /\ desc'[Third(q)] = desc[Third(q)]
    BY <2>5 DEF Three
  <2>7. info'[head[q]] = info[head[q]]
    <3>1. head[q] # head[p]
      BY <2>4 DEF Three
    <3> QED
      BY <1>0, <1>3, <2>3, <3>1 DEF DriverTypes
  <2>8. Second(q)' = Second(q)
    BY <2>2, <2>6 DEF Second
  <2>9. Third(q)' = Third(q)
    BY <2>6, <2>8 DEF Third
  <2> QED
    BY <2>1, <2>2, <2>6, <2>7, <2>8, <2>9 DEF Three
<1>7. Links'
  BY <1>0, <1>4, <1>6 DEF Links, Linked
<1>8. Apart' /\ Shared'
  <2>1. Apart'
    BY <1>0, <1>6 DEF Apart
  <2>2. Shared'
    <3> SUFFICES ASSUME NEW d \in Desc
                 PROVE  d \in free' <=> \A q \in Submitted' : d \notin Three(q)'
      BY DEF Shared
    <3>1. d \in free <=> \A q \in Submitted : d \notin Three(q)
      BY <1>0 DEF Shared
    <3>2. \A q \in Submitted' : Three(q)' = Three(q) /\ Three(q) \cap Three(p) = {}
      BY <1>0, <1>1, <1>6 DEF Apart
    <3> QED
      BY <1>1, <1>3, <1>5, <1>6, <3>1, <3>2
  <2> QED
    BY <2>1, <2>2
<1>9. Queued' = Queued /\ Reported' = Reported /\ Places'
  <2>1. Queued' = Queued /\ Reported' = Reported
    BY <1>4 DEF Queued, Reported, Held, Entry, Count
  <2>2. Once(availRing, taken, availIdx)' /\ Once(usedRing, lookedIdx, usedIdx)'
    BY <1>0, <1>4 DEF Places, Once, Entry, Count
  <2> QED
    BY <1>0, <1>4, <2>1, <2>2 DEF Places
<1>10. Busy'
  <2>1. \A q \in Clients : busy[q] => q # p /\ q \in Submitted'
    BY <1>0, <1>1, <1>5 DEF Busy
  <2>2. \A q \in Clients : busy[q] => head'[q] = head[q]
    BY <1>6, <2>1
  <2>3. {head'[q] : q \in {x \in Clients : busy[x]}} = {head[q] : q \in {x \in Clients : busy[x]}}
    BY <2>2
  <2> QED
    BY <1>0, <1>4, <1>9, <2>1, <2>3 DEF Busy
<1>11. Done'
  BY <1>0, <1>4, <1>6, <1>9 DEF Done
<1>12. DriverTypes'
  <2>1. desc' \in [Desc -> [at : {"null", "ops", "data", "status"},
                            of : Desc \cup Clients, next : 0 .. NUM]]
    <3>1. Null \in [at : {"null", "ops", "data", "status"}, of : Desc \cup Clients, next : 0 .. NUM]
      BY Sizes DEF Null, Desc
    <3> QED
      BY <1>0, <1>3, <3>1 DEF DriverTypes
  <2>2. info' \in [Desc -> [b : Clients \cup {Unset}, status : {0, 255}]]
    <3>1. /\ info \in [Desc -> [b : Clients \cup {Unset}, status : {0, 255}]]
          /\ info' = [info EXCEPT ![head[p]] = [@ EXCEPT !.b = Unset]]
      BY <1>0, <1>3 DEF DriverTypes
    <3>2. head[p] \in Desc
      BY <1>0 DEF DriverTypes
    <3>3. [info[head[p]] EXCEPT !.b = Unset] \in [b : Clients \cup {Unset}, status : {0, 255}]
      BY <3>1, <3>2
    <3> QED
      BY <3>1, <3>3
  <2>3. /\ vpc' \in [Clients -> Labels] /\ head' \in [Clients -> Desc]
        /\ blk' \in [Clients -> Sectors \cup {Unset}] /\ free' \subseteq Desc
    <3>1. 0 \in Desc
      BY Sizes DEF Desc
    <3> QED
      BY <1>0, <1>2, <1>3, <3>1 DEF DriverTypes, Labels, Awake
  <2>4. panicked' \in BOOLEAN
    BY <1>3, panicked' = (Chain(head[p]) \cap free # {}) DEF FreeChain
  <2> QED
    BY <1>0, <1>4, <2>1, <2>2, <2>3, <2>4 DEF DriverTypes
<1>13. Askers'
  <2>1. \A q \in Clients : vpc'[q] # "idle" => q # p /\ vpc[q] # "idle" /\ blk'[q] = blk[q]
    BY <1>0, <1>3 DEF Awake, DriverTypes
  <2>2. \A q \in Clients : vpc'[q] # "idle" => blk'[q] \in Sectors
    BY <1>0, <2>1 DEF Askers
  <2>3. \A q, x \in Clients : vpc'[q] # "idle" /\ vpc'[x] # "idle" /\ x # q => blk'[x] # blk'[q]
    BY <1>0, <2>1 DEF Askers
  <2> QED
    BY <2>2, <2>3 DEF Askers
<1>14. Signal'
  BY <1>0, <1>4 DEF Signal
<1> QED
  BY <1>3, <1>7, <1>8, <1>9, <1>10, <1>11, <1>12, <1>13, <1>14 DEF DriverInv, Requests

LEMMA DeviceTakeInv == ASSUME VirtioAssumption, DriverInv, DeviceTake PROVE DriverInv'
<1>0. DriverTypes /\ Askers /\ Links /\ Apart /\ Shared /\ Places /\ Busy /\ Done /\ Signal /\ ~panicked
  BY DEF DriverInv, Requests
<1>1. PICK d : d = availRing[taken % NUM]
  OBVIOUS
<1>2. /\ taken # availIdx /\ inflight' = inflight \cup {d} /\ taken' = (taken + 1) % MOD
      /\ UNCHANGED <<driver, usedRing, usedIdx, dma, platter, irq, intr, vpc, blk, write, panicked>>
  BY <1>1 DEF DeviceTake
<1>3. /\ taken' \in 0 .. MOD - 1 /\ d \in Desc /\ Once(availRing, taken', availIdx)
      /\ d \in Queued /\ Held(availRing, taken', availIdx) = Queued \ {d}
  <2>1. PICK r \in [Desc -> Desc], lo \in 0 .. MOD - 1, hi \in 0 .. MOD - 1 :
          r = availRing /\ lo = taken /\ hi = availIdx
    BY <1>0 DEF DriverTypes
  <2>2. PICK next : next = taken'
    OBVIOUS
  <2>3. Once(r, lo, hi) /\ lo # hi /\ next = (lo + 1) % MOD /\ d = r[lo % NUM]
    BY <1>0, <1>1, <1>2, <2>1, <2>2 DEF Places
  <2>4. /\ next \in 0 .. MOD - 1 /\ d \in Desc /\ Once(r, next, hi)
        /\ d \in Held(r, lo, hi) /\ Held(r, next, hi) = Held(r, lo, hi) \ {d}
    BY ONLY VirtioAssumption, r \in [Desc -> Desc], lo \in 0 .. MOD - 1, hi \in 0 .. MOD - 1,
            <2>3, Pop
  <2> QED
    BY <2>1, <2>2, <2>4 DEF Queued
<1>4. Queued' = Queued \ {d} /\ Reported' = Reported
  BY <1>2, <1>3 DEF Queued, Reported, Held, Entry, Count, driver
<1>5. /\ free' = free /\ desc' = desc /\ ops' = ops /\ info' = info /\ availIdx' = availIdx
      /\ availRing' = availRing /\ lookedIdx' = lookedIdx /\ head' = head /\ busy' = busy
      /\ usedRing' = usedRing /\ usedIdx' = usedIdx /\ dma' = dma /\ platter' = platter
      /\ vpc' = vpc /\ blk' = blk /\ write' = write /\ panicked' = panicked
      /\ irq' = irq /\ intr' = intr
  BY <1>2 DEF driver
<1>6. Places'
  <2>1. Once(availRing, taken, availIdx)' /\ Once(usedRing, lookedIdx, usedIdx)'
    BY <1>0, <1>3, <1>5 DEF Places, Once, Entry, Count
  <2> QED
    BY <1>0, <1>2, <1>3, <1>4, <2>1 DEF Places
<1>7. Busy'
  <2>1. Queued' \cup inflight' \cup Reported' = Queued \cup inflight \cup Reported
    BY <1>2, <1>3, <1>4
  <2> QED
    BY <1>0, <1>5, <2>1 DEF Busy, Submitted
<1>8. Submitted' = Submitted
  BY <1>5 DEF Submitted
<1>9. \A q : Second(q)' = Second(q) /\ Third(q)' = Third(q) /\ Three(q)' = Three(q)
  BY <1>5 DEF Second, Third, Three
<1>10. Links' /\ Apart' /\ Shared'
  BY <1>0, <1>5, <1>8, <1>9 DEF Links, Linked, Apart, Shared
<1>11. Done'
  BY <1>0, <1>4, <1>5, <1>8 DEF Done
<1>12. DriverTypes' /\ Askers' /\ Signal'
  <2>1. inflight' \subseteq Desc
    BY <1>0, <1>2, <1>3 DEF DriverTypes
  <2> QED
    BY <1>0, <1>3, <1>5, <2>1 DEF DriverTypes, Askers, Signal
<1> QED
  BY <1>0, <1>5, <1>6, <1>7, <1>10, <1>11, <1>12 DEF DriverInv, Requests

LEMMA DeviceDoneInv == ASSUME VirtioAssumption, DriverInv, NEW d \in Desc, DeviceDone(d) PROVE DriverInv'
<1>0. DriverTypes /\ Askers /\ Links /\ Apart /\ Shared /\ Places /\ Busy /\ Done /\ Signal /\ ~panicked
  BY DEF DriverInv, Requests
<1>1. d \in inflight
  BY DEF DeviceDone
<1>2. PICK p \in Submitted : busy[p] /\ head[p] = d
  BY <1>0, <1>1, Owner
<1>3. /\ p \in Clients /\ Second(p) \in Desc /\ Third(p) \in Desc
      /\ d # Second(p) /\ d # Third(p) /\ Second(p) # Third(p)
      /\ desc[d].next = Second(p) /\ desc[Second(p)].of = p /\ desc[Second(p)].next = Third(p)
      /\ desc[Third(p)].of = d /\ ops[d].write = write[p] /\ ops[d].sector = blk[p]
  <2>1. p \in Clients /\ Linked(p)
    BY <1>0 DEF Links, Submitted
  <2>2. Second(p) = desc[d].next /\ Third(p) = desc[Second(p)].next
    BY <1>2 DEF Second, Third
  <2>3. ops[d] = [write |-> write[p], sector |-> blk[p]]
    BY <1>2, <2>1 DEF Linked
  <2> QED
    BY <1>2, <2>1, <2>2, <2>3 DEF Linked
<1>4. /\ inflight' = inflight \ {d}
      /\ platter' = IF write[p] THEN [platter EXCEPT ![blk[p]] = dma[p]] ELSE platter
      /\ dma' = IF write[p] THEN dma ELSE [dma EXCEPT ![p] = platter[blk[p]]]
      /\ info' = [info EXCEPT ![d].status = 0]
      /\ usedRing' = [usedRing EXCEPT ![usedIdx % NUM] = d]
      /\ usedIdx' = (usedIdx + 1) % MOD
      /\ irq' = TRUE
  <2>1. /\ inflight' = inflight \ {d}
        /\ platter' = IF ops[d].write THEN [platter EXCEPT ![ops[d].sector] = dma[desc[desc[d].next].of]]
                   ELSE platter
        /\ dma' = IF ops[d].write THEN dma
                   ELSE [dma EXCEPT ![desc[desc[d].next].of] = platter[ops[d].sector]]
        /\ info' = [info EXCEPT ![desc[desc[desc[d].next].next].of].status = 0]
        /\ usedRing' = [usedRing EXCEPT ![usedIdx % NUM] = d]
        /\ usedIdx' = (usedIdx + 1) % MOD
        /\ irq' = TRUE
    BY DEF DeviceDone
  <2>2. desc[desc[d].next].of = p /\ desc[desc[desc[d].next].next].of = d
    BY <1>3
  <2>3. info' = [info EXCEPT ![d].status = 0]
    BY <2>1, <2>2
  <2>4. platter' = IF write[p] THEN [platter EXCEPT ![blk[p]] = dma[p]] ELSE platter
    BY <1>3, <2>1, <2>2
  <2>5. dma' = IF write[p] THEN dma ELSE [dma EXCEPT ![p] = platter[blk[p]]]
    BY <1>3, <2>1, <2>2
  <2> QED
    BY <2>1, <2>3, <2>4, <2>5
<1>5. /\ free' = free /\ desc' = desc /\ ops' = ops /\ availIdx' = availIdx
      /\ availRing' = availRing /\ lookedIdx' = lookedIdx /\ head' = head /\ busy' = busy
      /\ taken' = taken /\ intr' = intr
      /\ vpc' = vpc /\ blk' = blk /\ write' = write /\ panicked' = panicked
  BY DEF DeviceDone
<1>6. Submitted' = Submitted /\ Queued' = Queued
  BY <1>5 DEF Submitted, Queued, Held, Entry, Count
\* The head joins the used ring.
<1>7. /\ usedRing' \in [Desc -> Desc] /\ usedIdx' \in 0 .. MOD - 1
      /\ Once(usedRing', lookedIdx, usedIdx')
      /\ Held(usedRing', lookedIdx, usedIdx') = Reported \cup {d}
  <2>1. PICK r \in [Desc -> Desc], lo \in 0 .. MOD - 1, hi \in 0 .. MOD - 1 :
          r = usedRing /\ lo = lookedIdx /\ hi = usedIdx
    BY <1>0 DEF DriverTypes
  <2>2. PICK s, top : s = usedRing' /\ top = usedIdx'
    OBVIOUS
  <2>3. Once(r, lo, hi) /\ Held(r, lo, hi) = Reported
    BY <1>0, <2>1 DEF Places, Reported
  <2>4. PICK d1 \in Desc, d2 \in Desc : d1 = Second(p) /\ d2 = Third(p)
    BY <1>3
  <2>5. \A c \in Reported : c # d /\ c # d1 /\ c # d2
    <3> TAKE c \in Reported
    <3>1. PICK q \in Submitted : head[q] = c
      BY <1>0, Owner
    <3>2. c # d
      BY <1>0, <1>1 DEF Places
    <3>3. q # p
      BY <1>2, <3>1, <3>2
    <3>4. c \notin Three(p)
      BY <1>0, <3>1, <3>3, OneHead
    <3> QED
      BY <2>4, <3>2, <3>4 DEF Three
  <2>6. DriverOutside(r, lo, hi, d, d1, d2)
    BY <1>3, <2>3, <2>4, <2>5 DEF DriverOutside
  <2>7. Put(r, hi, d, s, top)
    BY <1>4, <2>1, <2>2 DEF Put
  <2>8. /\ s \in [Desc -> Desc] /\ top \in 0 .. MOD - 1 /\ Once(s, lo, top)
        /\ Held(s, lo, top) = Held(r, lo, hi) \cup {d}
    BY ONLY VirtioAssumption, r \in [Desc -> Desc], lo \in 0 .. MOD - 1, hi \in 0 .. MOD - 1,
            d \in Desc, d1 \in Desc, d2 \in Desc, <2>3, <2>6, <2>7, Push
  <2> QED
    BY <2>1, <2>2, <2>3, <2>8
<1>8. Reported' = Reported \cup {d}
  BY <1>5, <1>7 DEF Reported, Held, Entry, Count
<1>9. Places'
  <2>1. Once(availRing, taken, availIdx)' /\ Once(usedRing, lookedIdx, usedIdx)'
    BY <1>0, <1>5, <1>7 DEF Places, Once, Entry, Count
  <2>2. d \notin Queued
    BY <1>0, <1>1 DEF Places
  <2> QED
    BY <1>0, <1>4, <1>6, <1>8, <2>1, <2>2 DEF Places
<1>10. Busy'
  <2>1. Queued' \cup inflight' \cup Reported' = Queued \cup inflight \cup Reported
    BY <1>1, <1>4, <1>6, <1>8
  <2> QED
    BY <1>0, <1>5, <1>6, <2>1 DEF Busy
<1>11. \A q : Second(q)' = Second(q) /\ Third(q)' = Third(q) /\ Three(q)' = Three(q)
  BY <1>5 DEF Second, Third, Three
<1>12. /\ \A c \in Desc : info'[c].b = info[c].b /\ (c # d => info'[c] = info[c])
       /\ info'[d].status = 0
       /\ info' \in [Desc -> [b : Clients \cup {Unset}, status : {0, 255}]]
  <2>1. /\ info \in [Desc -> [b : Clients \cup {Unset}, status : {0, 255}]]
        /\ info' = [info EXCEPT ![d] = [@ EXCEPT !.status = 0]]
    BY <1>0, <1>4 DEF DriverTypes
  <2>2. PICK x \in [b : Clients \cup {Unset}, status : {0, 255}] :
          x = [info[d] EXCEPT !.status = 0]
    BY <2>1
  <2>3. x.b = info[d].b /\ x.status = 0
    BY <2>1, <2>2
  <2>4. info' = [info EXCEPT ![d] = x]
    BY <2>1, <2>2
  <2> QED
    BY <2>1, <2>3, <2>4
<1>13. Links' /\ Apart' /\ Shared'
  <2>1. \A q \in Submitted : head[q] \in Desc
    BY <1>0 DEF DriverTypes, Submitted
  <2>2. Links'
    BY <1>0, <1>5, <1>6, <1>11, <1>12, <2>1 DEF Links, Linked
  <2>3. Apart' /\ Shared'
    BY <1>0, <1>5, <1>6, <1>11 DEF Apart, Shared
  <2> QED
    BY <2>2, <2>3
\* The block of p is transferred, and no other buffer or block is touched.
<1>14. /\ dma'[p] = platter'[blk[p]]
       /\ \A q \in Submitted : q # p => dma'[q] = dma[q] /\ platter'[blk[q]] = platter[blk[q]]
  <2>1. vpc[p] # "idle" /\ \A q \in Submitted : q \in Clients /\ vpc[q] # "idle"
    BY DEF Submitted
  <2>2. blk[p] \in Sectors /\ \A q \in Submitted : q # p => blk[q] \in Sectors /\ blk[q] # blk[p]
    BY <1>0, <1>3, <2>1 DEF Askers
  <2>3. CASE write[p]
    BY <1>0, <1>3, <1>4, <2>2, <2>3 DEF DriverTypes
  <2>4. CASE ~write[p]
    BY <1>0, <1>3, <1>4, <2>1, <2>2, <2>4 DEF DriverTypes
  <2> QED
    BY <2>3, <2>4
<1>15. Done'
  <2> SUFFICES ASSUME NEW q \in Submitted, head[q] \in Reported' \/ ~busy[q]
               PROVE  info'[head[q]].status = 0 /\ dma'[q] = platter'[blk[q]]
    BY <1>5, <1>6 DEF Done
  <2>1. CASE q = p
    BY <1>2, <1>12, <1>14, <2>1
  <2>2. CASE q # p
    <3>1. head[q] # d /\ head[q] \in Desc
      BY <1>0, <1>2, <2>2, OneHead DEF DriverTypes, Submitted
    <3>2. head[q] \in Reported \/ ~busy[q]
      BY <1>8, <3>1
    <3> QED
      BY <1>0, <1>12, <1>14, <2>2, <3>1, <3>2 DEF Done
  <2> QED
    BY <2>1, <2>2
<1>16. DriverTypes'
  <2>1. dma' \in [Clients -> Values] /\ platter' \in [Sectors -> Values]
    <3>1. blk[p] \in Sectors
      BY <1>0, <1>3 DEF Askers, Submitted
    <3> QED
      BY <1>0, <1>3, <1>4, <3>1 DEF DriverTypes
  <2>2. inflight' \subseteq Desc /\ irq' \in BOOLEAN
    BY <1>0, <1>4 DEF DriverTypes
  <2> QED
    BY <1>0, <1>5, <1>7, <1>12, <2>1, <2>2 DEF DriverTypes
<1>17. Askers' /\ Signal'
  BY <1>0, <1>4, <1>5 DEF Askers, Signal
<1> QED
  BY <1>0, <1>5, <1>9, <1>10, <1>13, <1>15, <1>16, <1>17 DEF DriverInv, Requests

LEMMA IntrOneInv == ASSUME VirtioAssumption, DriverInv, IntrOne PROVE DriverInv'
<1>0. DriverTypes /\ Askers /\ Links /\ Apart /\ Shared /\ Places /\ Busy /\ Done /\ Signal /\ ~panicked
  BY DEF DriverInv, Requests
<1>1. PICK d, next : d = usedRing[lookedIdx % NUM] /\ next = (lookedIdx + 1) % MOD
  OBVIOUS
<1>2. lookedIdx # usedIdx /\ intr
  BY DEF IntrOne
<1>3. /\ next \in 0 .. MOD - 1 /\ d \in Desc /\ Once(usedRing, next, usedIdx)
      /\ d \in Reported /\ Held(usedRing, next, usedIdx) = Reported \ {d}
  <2>1. PICK r \in [Desc -> Desc], lo \in 0 .. MOD - 1, hi \in 0 .. MOD - 1 :
          r = usedRing /\ lo = lookedIdx /\ hi = usedIdx
    BY <1>0 DEF DriverTypes
  <2>2. Once(r, lo, hi) /\ lo # hi /\ next = (lo + 1) % MOD /\ d = r[lo % NUM]
    BY <1>0, <1>1, <1>2, <2>1 DEF Places
  <2>3. /\ next \in 0 .. MOD - 1 /\ d \in Desc /\ Once(r, next, hi)
        /\ d \in Held(r, lo, hi) /\ Held(r, next, hi) = Held(r, lo, hi) \ {d}
    BY ONLY VirtioAssumption, r \in [Desc -> Desc], lo \in 0 .. MOD - 1, hi \in 0 .. MOD - 1,
            <2>2, Pop
  <2> QED
    BY <2>1, <2>3 DEF Reported
<1>4. PICK p \in Submitted : busy[p] /\ head[p] = d
  BY <1>0, <1>3, Owner
<1>5. p \in Clients /\ info[d].b = p /\ info[d].status = 0
  BY <1>0, <1>3, <1>4 DEF Links, Linked, Done, Submitted
<1>6. /\ busy' = [busy EXCEPT ![p] = FALSE] /\ lookedIdx' = next
      /\ vpc' = [vpc EXCEPT ![p] = IF @ = "iosleep" THEN "wait" ELSE @]
      /\ panicked' = panicked
  BY <1>1, <1>5 DEF IntrOne, Completed, Advanced
<1>7. /\ free' = free /\ desc' = desc /\ ops' = ops /\ info' = info /\ availIdx' = availIdx
      /\ availRing' = availRing /\ head' = head /\ usedRing' = usedRing /\ usedIdx' = usedIdx
      /\ taken' = taken /\ inflight' = inflight /\ dma' = dma /\ platter' = platter
      /\ irq' = irq /\ intr' = intr /\ blk' = blk /\ write' = write
  BY DEF IntrOne, device
<1>8. vpc' \in [Clients -> Labels] /\ \A q \in Clients : vpc'[q] # "idle" <=> vpc[q] # "idle"
  BY <1>0, <1>6 DEF DriverTypes, Labels
<1>9. Submitted' = Submitted
  BY <1>0, <1>6 DEF Submitted, DriverTypes
<1>10. Queued' = Queued /\ Reported' = Reported \ {d}
  BY <1>3, <1>6, <1>7 DEF Queued, Reported, Held, Entry, Count
<1>11. Places'
  <2>1. Once(availRing, taken, availIdx)' /\ Once(usedRing, lookedIdx, usedIdx)'
    BY <1>0, <1>3, <1>6, <1>7 DEF Places, Once, Entry, Count
  <2> QED
    BY <1>0, <1>7, <1>10, <2>1 DEF Places
<1>12. \A q \in Clients : busy'[q] <=> busy[q] /\ q # p
  BY <1>0, <1>6 DEF DriverTypes
<1>13. Busy'
  <2>1. \A q \in Clients : busy'[q] => q \in Submitted'
    BY <1>0, <1>9, <1>12 DEF Busy
  <2>2. \A q \in Clients : busy[q] /\ q # p => head[q] # d
    BY <1>0, <1>4, OneHead DEF Busy
  <2>3. {head[q] : q \in {x \in Clients : busy'[x]}} = {head[q] : q \in {x \in Clients : busy[x]}} \ {d}
    BY <1>4, <1>12, <2>2
  <2>4. d \notin Queued /\ d \notin inflight
    BY <1>0, <1>3 DEF Places
  <2>5. Queued' \cup inflight' \cup Reported' = {head[q] : q \in {x \in Clients : busy'[x]}}
    BY <1>0, <1>7, <1>10, <2>3, <2>4 DEF Busy
  <2> QED
    BY <1>7, <2>1, <2>5 DEF Busy
<1>14. \A q : Second(q)' = Second(q) /\ Third(q)' = Third(q) /\ Three(q)' = Three(q)
  BY <1>7 DEF Second, Third, Three
<1>15. Links' /\ Apart' /\ Shared'
  <2>1. Links'
    BY <1>0, <1>7, <1>9, <1>14 DEF Links, Linked
  <2>2. Apart' /\ Shared'
    BY <1>0, <1>7, <1>9, <1>14 DEF Apart, Shared
  <2> QED
    BY <2>1, <2>2
<1>16. Done'
  <2>1. \A q \in Submitted : q \in Clients
    BY DEF Submitted
  <2> QED
    BY <1>0, <1>3, <1>4, <1>7, <1>9, <1>10, <1>12, <2>1 DEF Done
<1>17. DriverTypes'
  <2>1. busy' \in [Clients -> BOOLEAN] /\ panicked' \in BOOLEAN
    BY <1>0, <1>6 DEF DriverTypes
  <2> QED
    BY <1>0, <1>3, <1>6, <1>7, <1>8, <2>1 DEF DriverTypes
<1>18. Askers' /\ Signal'
  BY <1>0, <1>2, <1>7, <1>8 DEF Askers, Signal
<1> QED
  BY <1>0, <1>6, <1>11, <1>13, <1>15, <1>16, <1>17, <1>18 DEF DriverInv, Requests

-----------------------------------------------------------------------------
LEMMA DriverNextInv == ASSUME VirtioAssumption, DriverInv, [DriverNext]_driverVars PROVE DriverInv'
<1>1. CASE UNCHANGED driverVars
  <2>1. /\ UNCHANGED <<driver, device, blk, write, panicked>>
        /\ vpc' = vpc /\ irq' = irq /\ intr' = intr
    BY <1>1 DEF driverVars
  <2>2. Signal'
    BY <2>1 DEF DriverInv, Signal, driver, device
  <2> QED
    BY <2>1, <2>2, MoveInv DEF DriverInv, DriverTypes
<1>2. CASE DriverNext
  <2>1. ASSUME NEW p \in Clients, Rw(p) PROVE DriverInv'
    BY <2>1, DriverMoveSteps, SubmitInv, FreeChainInv DEF Rw
  <2>2. ASSUME NEW p \in Clients, NEW k \in Sectors, Read(p, k) \/ \E v \in Values : Write(p, k, v)
        PROVE  DriverInv'
    BY <2>2, AskInv
  <2>3. CASE Intr
    BY <2>3, DriverMoveSteps, IntrOneInv DEF Intr
  <2>4. CASE Device
    BY <2>4, DeviceTakeInv, DeviceDoneInv DEF Device
  <2> QED
    BY <1>2, <2>1, <2>2, <2>3, <2>4 DEF DriverNext
<1> QED
  BY <1>1, <1>2

LEMMA DriverInvAlways == ASSUME VirtioAssumption PROVE DriverSpec => []DriverInv
<1> QED
  BY DriverInitInv, DriverNextInv, PTL DEF DriverSpec

\* virtio_disk.c shares its descriptors out exactly, whatever the order in
\* which requests end: each is free or in the chain of one request, and
\* neither "free_desc 2" nor "virtio_disk_intr status" is reached.
THEOREM DescriptorsArePartitioned ==
    ASSUME VirtioAssumption PROVE DriverSpec => []ChainsPartition
<1>1. DriverInv => ChainsPartition
  <2> HAVE DriverInv
  <2>1. \A p \in Submitted : Chain(head[p]) = Three(p) /\ Three(p) \subseteq Desc
    BY ChainIs DEF DriverInv, Requests
  <2>2. Apart /\ Shared /\ free \subseteq Desc /\ ~panicked
    BY DEF DriverInv, Requests, DriverTypes
  <2>3. \A p, q \in Submitted : p # q => Chain(head[p]) \cap Chain(head[q]) = {}
    BY <2>1, <2>2 DEF Apart
  <2>4. free = Desc \ UNION {Chain(head[p]) : p \in Submitted}
    BY <2>1, <2>2 DEF Shared
  <2> QED
    BY <2>2, <2>3, <2>4 DEF ChainsPartition
<1> QED
  BY <1>1, DriverInvAlways, PTL

\* virtio_disk_rw() returns with its own block transferred, although requests
\* complete out of order and ring indices wrap around; and a completion that
\* races with the acknowledgement of the interrupt is not overlooked.
THEOREM TransfersAreRight ==
    ASSUME VirtioAssumption PROVE DriverSpec => []TransferRight
<1>1. DriverInv => TransferRight
  BY DEF DriverInv, Requests, Done, Signal, TransferRight
<1> QED
  BY <1>1, DriverInvAlways, PTL
=============================================================================
