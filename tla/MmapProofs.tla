----------------------------- MODULE MmapProofs -----------------------------
(***************************************************************************)
(* Proofs about memory-mapped files, for any number of processes, files    *)
(* and slots, any window and any length of a file.                         *)
(*                                                                         *)
(* f->ref covers descriptors and mappings: with the types this is          *)
(* inductive.  That pages are in place rests on how a slot is filled: what *)
(* is left of a mapping, the pages below used_length in memory, is all the *)
(* program has in the slot's window.                                       *)
(***************************************************************************)
EXTENDS Mmap, NumberFacts, FiniteSetTheorems, TLAPS

Window(s) == Start(s) .. Start(s) + W - 1

\* The pages of slot s that the program of First has mapped and not unmapped.
Left(s) == mine[First] \cap Window(s)

\* A slot holds what is left of one mapping: len pages.  It has been filled up
\* to used_length, and nothing above has been unmapped.
SlotTidy(s) ==
    LET v == vma[First][s]
    IN  /\ v.start \in {0, Start(s)}
        /\ v.file = NoFile => v.len = 0 /\ Left(s) = {}
        /\ v.file # NoFile => v.start = Start(s) /\ v.len = Cardinality(Left(s)) /\ v.len > 0
        /\ \A a \in Left(s) : pte[First][a] = Absent <=> a >= Start(s) + v.used
        /\ \A a \in Left(s) : Start(s) + v.used .. a \subseteq Left(s)
        /\ writable = {} =>
             \A a \in Left(s) : pte[First][a] # Absent => pte[First][a][1] = a - Start(s)

\* No habits: only First runs, its slots are tidy, and it has nothing else.
Alone ==
    /\ ~crashed /\ state[First] = "running"
    /\ \A p \in Procs \ {First} : state[p] = "unused" /\ pte[p] = NoPages /\ mine[p] = {}
    /\ \A s \in Slots : SlotTidy(s)
    /\ \A a \in mine[First] : \E s \in Slots : a \in Window(s)
    /\ \A a \in Addrs : pte[First][a] # Absent => a \in mine[First]
    /\ writable = {} => \A f \in Files : \A k \in 0 .. MaxOff : fdata[f][k][1] = k

Inv == TypeOK /\ (habits = {} => Alone)

-----------------------------------------------------------------------------
(* Counting *)

\* A set with at most one element more than another, or one less.
LEMMA Counting ==
    ASSUME NEW S, NEW T, NEW x, IsFiniteSet(S)
    PROVE  /\ Cardinality(S) \in Nat
           /\ T \subseteq S => Cardinality(T) \in Nat /\ Cardinality(T) =< Cardinality(S)
           /\ T \subseteq S \cup {x} => Cardinality(T) \in Nat /\ Cardinality(T) =< Cardinality(S) + 1
           /\ x \in S /\ T \subseteq S \ {x} =>
                Cardinality(T) \in Nat /\ Cardinality(T) =< Cardinality(S) - 1
<1>1. Cardinality(S) \in Nat
  BY FS_CardinalityType
<1>2. ASSUME NEW U, IsFiniteSet(U), T \subseteq U
      PROVE  Cardinality(T) \in Nat /\ Cardinality(T) =< Cardinality(U)
  BY <1>2, FS_Subset, FS_CardinalityType
<1>3. /\ IsFiniteSet(S \cup {x})
      /\ Cardinality(S \cup {x}) = Cardinality(S) \/ Cardinality(S \cup {x}) = Cardinality(S) + 1
  BY FS_AddElement
<1>4. /\ IsFiniteSet(S \ {x})
      /\ x \in S => Cardinality(S \ {x}) = Cardinality(S) - 1
  BY FS_RemoveElement
<1>5. T \subseteq S \cup {x} => Cardinality(T) \in Nat /\ Cardinality(T) =< Cardinality(S) + 1
  BY <1>1, <1>2, <1>3
<1>6. x \in S /\ T \subseteq S \ {x} => Cardinality(T) \in Nat /\ Cardinality(T) =< Cardinality(S) - 1
  BY <1>1, <1>2, <1>4
<1> QED
  BY <1>1, <1>2, <1>5, <1>6

Owners(f) == {p \in Procs : f \in ofile[p]}
Maps(f) == {t \in Procs \X Slots : vma[t[1]][t[2]].file = f}

LEMMA HoldersFinite ==
    ASSUME MmapAssumption, NEW f
    PROVE  /\ IsFiniteSet(Owners(f)) /\ IsFiniteSet(Maps(f))
           /\ Holders(f) = Cardinality(Owners(f)) + Cardinality(Maps(f))
<1>1. IsFiniteSet(Slots)
  <2>1. 0 \in Int /\ VMASIZE - 1 \in Int
    BY DEF MmapAssumption
  <2> QED
    BY <2>1, FS_Interval DEF Slots
<1>2. IsFiniteSet(Procs) /\ IsFiniteSet(Procs \X Slots)
  BY <1>1, FS_Product DEF MmapAssumption
<1> QED
  BY <1>2, FS_Subset DEF Owners, Maps, Holders

\* The first empty slot, the first slot whose window holds a page.
LEMMA FirstSlot ==
    ASSUME MmapAssumption, NEW S, S \subseteq Slots, S # {}
    PROVE  Min(S) \in S
<1>1. IsFiniteSet(S)
  <2>1. 0 \in Int /\ VMASIZE - 1 \in Int
    BY DEF MmapAssumption
  <2> QED
    BY <2>1, FS_Interval, FS_Subset DEF Slots
<1>2. S \in SUBSET Nat
  BY DEF Slots, MmapAssumption
<1>3. \E n \in S : \A m \in S : n =< m
  BY <1>1, <1>2, Least
<1> QED
  BY <1>3 DEF Min

\* One entry is added to a table, or one is changed but for its file.
LEMMA CoversStep ==
    ASSUME MmapAssumption, NEW f \in Files, ref[f] \in Int, ref[f] >= Holders(f), ref'[f] \in Int
    PROVE  /\ Owners(f)' \subseteq Owners(f) /\ Maps(f)' \subseteq Maps(f) /\ ref'[f] >= ref[f] =>
                ref'[f] >= Holders(f)'
           /\ \A t : Owners(f)' \subseteq Owners(f) /\ Maps(f)' \subseteq Maps(f) \cup {t}
                     /\ ref'[f] = ref[f] + 1 => ref'[f] >= Holders(f)'
           /\ \A t : Owners(f)' \subseteq Owners(f) /\ t \in Maps(f) /\ Maps(f)' \subseteq Maps(f) \ {t}
                     /\ ref'[f] = ref[f] - 1 => ref'[f] >= Holders(f)'
           /\ \A p : Owners(f)' \subseteq Owners(f) \cup {p} /\ Maps(f)' \subseteq Maps(f)
                     /\ ref'[f] = ref[f] + 1 => ref'[f] >= Holders(f)'
           /\ \A p : p \in Owners(f) /\ Owners(f)' \subseteq Owners(f) \ {p} /\ Maps(f)' \subseteq Maps(f)
                     /\ ref'[f] = ref[f] - 1 => ref'[f] >= Holders(f)'
<1> DEFINE O == Owners(f)
           M == Maps(f)
<1>1. IsFiniteSet(O) /\ IsFiniteSet(M) /\ Holders(f) = Cardinality(O) + Cardinality(M)
  BY HoldersFinite
<1>2. Holders(f)' = Cardinality(O') + Cardinality(M')
  BY HoldersFinite DEF Holders, Owners, Maps
<1>3. \A x : /\ Cardinality(O) \in Nat
             /\ O' \subseteq O => Cardinality(O') \in Nat /\ Cardinality(O') =< Cardinality(O)
             /\ O' \subseteq O \cup {x} => Cardinality(O') \in Nat /\ Cardinality(O') =< Cardinality(O) + 1
             /\ x \in O /\ O' \subseteq O \ {x} =>
                  Cardinality(O') \in Nat /\ Cardinality(O') =< Cardinality(O) - 1
  BY <1>1, Counting
<1>4. \A x : /\ Cardinality(M) \in Nat
             /\ M' \subseteq M => Cardinality(M') \in Nat /\ Cardinality(M') =< Cardinality(M)
             /\ M' \subseteq M \cup {x} => Cardinality(M') \in Nat /\ Cardinality(M') =< Cardinality(M) + 1
             /\ x \in M /\ M' \subseteq M \ {x} =>
                  Cardinality(M') \in Nat /\ Cardinality(M') =< Cardinality(M) - 1
  BY <1>1, Counting
<1> HIDE DEF O, M
<1>5. O = Owners(f) /\ O' = Owners(f)' /\ M = Maps(f) /\ M' = Maps(f)'
  BY DEF O, M
<1>6. ref[f] >= Cardinality(O) + Cardinality(M)
  BY <1>1
<1>7. O' \subseteq O /\ M' \subseteq M /\ ref'[f] >= ref[f] => ref'[f] >= Holders(f)'
  BY <1>2, <1>3, <1>4, <1>6
<1>8. ASSUME NEW t, O' \subseteq O, M' \subseteq M \cup {t}, ref'[f] = ref[f] + 1
      PROVE  ref'[f] >= Holders(f)'
  <2>1. Cardinality(O) \in Nat /\ Cardinality(O') \in Nat /\ Cardinality(O') =< Cardinality(O)
    BY <1>3, <1>8
  <2>2. Cardinality(M) \in Nat /\ Cardinality(M') \in Nat /\ Cardinality(M') =< Cardinality(M) + 1
    BY <1>4, <1>8
  <2> QED
    BY <1>2, <1>6, <1>8, <2>1, <2>2
<1>9. ASSUME NEW t, O' \subseteq O, t \in M, M' \subseteq M \ {t}, ref'[f] = ref[f] - 1
      PROVE  ref'[f] >= Holders(f)'
  <2>1. Cardinality(O) \in Nat /\ Cardinality(O') \in Nat /\ Cardinality(O') =< Cardinality(O)
    BY <1>3, <1>9
  <2>2. Cardinality(M) \in Nat /\ Cardinality(M') \in Nat /\ Cardinality(M') =< Cardinality(M) - 1
    BY <1>4, <1>9
  <2> QED
    BY <1>2, <1>6, <1>9, <2>1, <2>2
<1>10. ASSUME NEW p, O' \subseteq O \cup {p}, M' \subseteq M, ref'[f] = ref[f] + 1
       PROVE  ref'[f] >= Holders(f)'
  <2>1. Cardinality(O) \in Nat /\ Cardinality(O') \in Nat /\ Cardinality(O') =< Cardinality(O) + 1
    BY <1>3, <1>10
  <2>2. Cardinality(M) \in Nat /\ Cardinality(M') \in Nat /\ Cardinality(M') =< Cardinality(M)
    BY <1>4, <1>10
  <2> QED
    BY <1>2, <1>6, <1>10, <2>1, <2>2
<1>11. ASSUME NEW p, p \in O, O' \subseteq O \ {p}, M' \subseteq M, ref'[f] = ref[f] - 1
       PROVE  ref'[f] >= Holders(f)'
  <2>1. Cardinality(O) \in Nat /\ Cardinality(O') \in Nat /\ Cardinality(O') =< Cardinality(O) - 1
    BY <1>3, <1>11
  <2>2. Cardinality(M) \in Nat /\ Cardinality(M') \in Nat /\ Cardinality(M') =< Cardinality(M)
    BY <1>4, <1>11
  <2> QED
    BY <1>2, <1>6, <1>11, <2>1, <2>2
<1> QED
  BY <1>5, <1>7, <1>8, <1>9, <1>10, <1>11

-----------------------------------------------------------------------------
(* Windows *)

LEMMA Products ==
    ASSUME MmapAssumption
    PROVE  /\ TRAPFRAME \in Nat /\ TRAPFRAME >= W
           /\ \A s \in Slots : Start(s) \in Nat /\ Start(s) >= W /\ Start(s) + W =< TRAPFRAME
           /\ \A s, t \in Slots : s < t => Start(t) + W =< Start(s)
<1> USE DEF MmapAssumption
<1>1. PICK P \in Int : P = W * (VMASIZE + 1)
  OBVIOUS
<1>2. TRAPFRAME = P
  BY <1>1 DEF TRAPFRAME
<1>3. \A s \in Slots : s \in Int /\ 0 =< s /\ s < VMASIZE
  BY DEF Slots
<1>4. \A s \in Slots : /\ W * (s + 1) \in Int /\ W * (s + 1) >= W /\ P >= W * (s + 1) + W
                       /\ Start(s) = P - W * (s + 1)
  <2> TAKE s \in Slots
  <2>1. s \in Int /\ 0 =< s /\ s < VMASIZE
    BY <1>3
  <2>2. s + 1 \in Int /\ s + 1 > 0 /\ VMASIZE + 1 \in Int /\ VMASIZE + 1 > s + 1
    BY <2>1
  <2>3. W * (s + 1) >= W * 0 + W
    BY <2>2, Scale
  <2>4. W * (VMASIZE + 1) >= W * (s + 1) + W
    BY <2>2, Scale
  <2>5. W * (s + 1) \in Int /\ W * (s + 1) = (s + 1) * W
    BY <2>2
  <2>6. PICK x \in Int : x = W * (s + 1) /\ x = (s + 1) * W
    BY <2>5
  <2>7. W * 0 = 0
    OBVIOUS
  <2>8. x >= W /\ P >= x + W /\ Start(s) = P - x
    BY <1>1, <1>2, <2>3, <2>4, <2>6, <2>7 DEF Start
  <2> QED
    BY <2>6, <2>8
<1>5. ASSUME NEW s \in Slots, NEW t \in Slots, s < t
      PROVE  Start(t) + W =< Start(s)
  <2>1. s + 1 \in Int /\ t + 1 \in Int /\ t + 1 > s + 1
    BY <1>3, <1>5
  <2>2. W * (t + 1) >= W * (s + 1) + W
    BY <2>1, Scale
  <2>3. PICK x \in Int, y \in Int : x = W * (s + 1) /\ y = W * (t + 1)
    BY <1>4
  <2>4. y >= x + W
    BY <2>2, <2>3
  <2>5. Start(s) = P - x /\ Start(t) = P - y
    BY <1>4, <2>3
  <2> QED
    BY <2>4, <2>5
<1>6. 0 \in Slots
  BY DEF Slots
<1>7. \A s \in Slots : Start(s) \in Nat /\ Start(s) >= W /\ Start(s) + W =< TRAPFRAME
  <2> TAKE s \in Slots
  <2>1. PICK x \in Int : x = W * (s + 1)
    BY <1>4
  <2>2. x >= W /\ P >= x + W /\ Start(s) = P - x
    BY <1>4, <2>1
  <2> QED
    BY <1>2, <2>2
<1>8. TRAPFRAME \in Nat /\ TRAPFRAME >= W
  BY <1>2, <1>6, <1>7
<1> HIDE DEF MmapAssumption
<1> QED
  BY <1>5, <1>7, <1>8

LEMMA Windows ==
    ASSUME MmapAssumption
    PROVE  /\ \A s \in Slots : Start(s) \in Nat /\ Window(s) \subseteq Addrs
           /\ \A s, t \in Slots : \A a \in Window(s) : a \in Window(t) => s = t
           /\ \A s \in Slots : \A a \in Window(s) : a \in Nat /\ a >= W
           /\ Addrs \subseteq Nat
<1>1. /\ TRAPFRAME \in Nat
      /\ \A s \in Slots : Start(s) \in Nat /\ Start(s) >= W /\ Start(s) + W =< TRAPFRAME
      /\ \A s, t \in Slots : s < t => Start(t) + W =< Start(s)
  BY Products
<1>2. W \in Nat /\ \A s \in Slots : s \in Int
  BY DEF MmapAssumption, Slots
<1>3. \A s \in Slots : \A a \in Window(s) :
         a \in Nat /\ a >= W /\ a >= Start(s) /\ a < Start(s) + W /\ a < TRAPFRAME
  BY <1>1, <1>2 DEF Window
<1>4. ASSUME NEW s \in Slots, NEW t \in Slots, NEW a \in Window(s), a \in Window(t)
      PROVE  s = t
  <2>1. a \in Nat /\ a >= Start(s) /\ a < Start(s) + W /\ a >= Start(t) /\ a < Start(t) + W
    BY <1>3, <1>4
  <2>2. ~(s < t) /\ ~(t < s)
    BY <1>1, <1>2, <2>1
  <2> QED
    BY <1>2, <2>2
<1> QED
  BY <1>1, <1>3, <1>4 DEF Addrs

-----------------------------------------------------------------------------
(* Types *)

LEMMA MmapInitTypes ==
    ASSUME MmapAssumption, MmapInit
    PROVE  TypeOK
<1>1. EmptyVma \in Vma
  BY DEF EmptyVma, Vma, Starts
<1>2. vma \in [Procs -> [Slots -> Vma]]
  BY <1>1 DEF MmapInit
<1>3. pte \in [Procs -> [Addrs -> Contents \cup {Absent}]]
  BY DEF MmapInit, NoPages
<1>4. fdata \in [Files -> [0 .. MaxOff -> Contents]]
  <2>1. \A k \in 0 .. MaxOff : <<k, "old">> \in Contents
    BY DEF Contents, MmapAssumption
  <2> QED
    BY <2>1 DEF MmapInit
<1>5. /\ habits \in SUBSET {"fork", "fill", "untouched", "evicted"} /\ writable \subseteq Files
      /\ parent \in [Procs -> Procs] /\ ofile \in [Procs -> SUBSET Files]
  <2>1. habits \in Habits /\ Habits \subseteq SUBSET {"fork", "fill", "untouched", "evicted"}
    BY DEF MmapInit, MmapAssumption
  <2>2. ofile \in [Procs -> SUBSET Files]
    BY DEF MmapInit
  <2>3. parent \in [Procs -> Procs] /\ writable \subseteq Files
    BY DEF MmapInit, MmapAssumption
  <2> QED
    BY <2>1, <2>2, <2>3
<1>8. state \in [Procs -> {"unused", "running", "zombie"}]
  BY DEF MmapInit
<1>6. ref \in [Files -> Int] /\ foff \in [Files -> Nat]
  BY DEF MmapInit
<1>9. crashed \in BOOLEAN
  BY DEF MmapInit
<1>7. mine \in [Procs -> SUBSET Addrs]
  BY DEF MmapInit
<1> QED
  BY <1>2, <1>3, <1>4, <1>5, <1>6, <1>7, <1>8, <1>9 DEF TypeOK

\* A slot of a process is overwritten.
LEMMA SlotTypes ==
    ASSUME MmapAssumption, TypeOK, NEW p \in Procs, NEW s \in Slots, NEW v \in Vma
    PROVE  [vma EXCEPT ![p][s] = v] \in [Procs -> [Slots -> Vma]]
  BY DEF TypeOK

LEMMA RecordTypes ==
    ASSUME NEW v \in Vma
    PROVE  /\ v.file \in Files \cup {NoFile} /\ v.len \in Int /\ v.used \in Nat
           /\ v.start \in Starts
           /\ v.shared \in BOOLEAN /\ v.write \in BOOLEAN
           /\ [v EXCEPT !.used = 0] \in Vma /\ [v EXCEPT !.used = @ + 1] \in Vma
           /\ \A n \in Int : Unmapped(v, n) \in Vma
<1>1. /\ v.file \in Files \cup {NoFile} /\ v.len \in Int /\ v.used \in Nat
      /\ v.start \in Starts
      /\ v.shared \in BOOLEAN /\ v.write \in BOOLEAN
  BY DEF Vma
<1>2. \A u \in Nat : [v EXCEPT !.used = u] \in Vma
  BY DEF Vma
<1>3. ASSUME NEW n \in Int
      PROVE  Unmapped(v, n) \in Vma
  <2>1. [v EXCEPT !.file = NoFile, !.len = 0] \in Vma
    <3>1. PICK w : w = [v EXCEPT !.file = NoFile]
      OBVIOUS
    <3>2. w \in Vma
      BY <3>1 DEF Vma
    <3>3. [w EXCEPT !.len = 0] \in Vma
      BY <3>2 DEF Vma
    <3>4. [v EXCEPT !.file = NoFile, !.len = 0] = [w EXCEPT !.len = 0]
      BY <3>1
    <3> QED
      BY <3>3, <3>4
  <2>2. v.len - n \in Int /\ [v EXCEPT !.len = @ - n] = [v EXCEPT !.len = v.len - n]
    BY <1>1, <1>3 DEF Vma
  <2>3. \A l \in Int : [v EXCEPT !.len = l] \in Vma
    BY DEF Vma
  <2> QED
    BY <2>1, <2>2, <2>3 DEF Unmapped
<1>4. [v EXCEPT !.used = @ + 1] = [v EXCEPT !.used = v.used + 1] /\ v.used + 1 \in Nat
  BY <1>1 DEF Vma
<1> QED
  BY <1>1, <1>2, <1>3, <1>4

LEMMA MappingTypes ==
    ASSUME MmapAssumption, TypeOK, NEW p \in Procs, NEW tbl \in [Slots -> Vma], NEW s \in Slots,
           MemoryMapping(p, tbl, s)
    PROVE  /\ vma' \in [Procs -> [Slots -> Vma]]
           /\ pte' \in [Procs -> [Addrs -> Contents \cup {Absent}]]
           /\ crashed' \in BOOLEAN
<1> DEFINE v == tbl[s]
           a == v.start + v.used
<1>1. CASE v.file = NoFile \/ a >= TRAPFRAME \/ pte[p][a] # Absent
  BY <1>1 DEF MemoryMapping, TypeOK
<1>2. CASE ~(v.file = NoFile \/ a >= TRAPFRAME \/ pte[p][a] # Absent)
  <2>1. /\ pte' = [pte EXCEPT ![p][a] = PageContent(v)]
        /\ vma' = [vma EXCEPT ![p] = [tbl EXCEPT ![s].used = @ + 1]]
        /\ crashed' = crashed
    BY <1>2 DEF MemoryMapping
  <2>2. v \in Vma /\ v.file \in Files /\ v.used \in Nat
    BY <1>2, RecordTypes
  <2>3. PageContent(v) \in Contents
    <3>1. CASE v.used < FilePages
      <4>1. v.used \in 0 .. MaxOff
        BY <2>2, <3>1 DEF MmapAssumption
      <4> QED
        BY <2>2, <3>1, <4>1 DEF PageContent, TypeOK
    <3>2. CASE ~(v.used < FilePages)
      BY <2>2, <3>2 DEF PageContent, Contents
    <3> QED
      BY <3>1, <3>2
  <2>4. pte' \in [Procs -> [Addrs -> Contents \cup {Absent}]]
    BY <2>1, <2>3 DEF TypeOK
  <2>5. [tbl EXCEPT ![s].used = @ + 1] \in [Slots -> Vma]
    <3>1. [v EXCEPT !.used = @ + 1] \in Vma
      BY <2>2, RecordTypes
    <3> QED
      BY <3>1
  <2> QED
    BY <2>1, <2>4, <2>5 DEF TypeOK
<1> QED
  BY <1>1, <1>2

LEMMA CoveringSlot ==
    ASSUME MmapAssumption, NEW p, NEW a, Covering(p, a) # {}
    PROVE  Min(Covering(p, a)) \in Covering(p, a) /\ Min(Covering(p, a)) \in Slots
<1>1. Covering(p, a) \subseteq Slots
  BY DEF Covering
<1> QED
  BY <1>1, FirstSlot

LEMMA EmptySlot ==
    ASSUME MmapAssumption, NEW p, EmptySlots(p) # {}
    PROVE  Min(EmptySlots(p)) \in EmptySlots(p) /\ Min(EmptySlots(p)) \in Slots
<1>1. EmptySlots(p) \subseteq Slots
  BY DEF EmptySlots
<1> QED
  BY <1>1, FirstSlot

\* The mapping a child takes over from its parent.
LEMMA InheritedTypes ==
    ASSUME MmapAssumption, TypeOK, NEW p \in Procs, NEW a, CanInherit(p, a)
    PROVE  /\ Inherited(p, a) \in [Slots -> Vma]
           /\ Inherited(p, a)[Min(EmptySlots(p))].file \in Files
           /\ \A s \in Slots : s # Min(EmptySlots(p)) => Inherited(p, a)[s] = vma[p][s]
<1> DEFINE v == vma[parent[p]][Min(Covering(parent[p], a))]
<1>1. /\ Min(EmptySlots(p)) \in Slots /\ Min(Covering(parent[p], a)) \in Slots
      /\ parent[p] \in Procs /\ v.file # NoFile
  BY EmptySlot, CoveringSlot DEF CanInherit, TypeOK
<1>2. v \in Vma /\ vma[p] \in [Slots -> Vma]
  BY <1>1 DEF TypeOK
<1>3. [v EXCEPT !.used = 0] \in Vma /\ v.file \in Files
  BY <1>1, <1>2, RecordTypes
<1>4. [v EXCEPT !.used = 0].file = v.file
  BY <1>2 DEF Vma
<1> HIDE DEF v
<1>5. Inherited(p, a) = [vma[p] EXCEPT ![Min(EmptySlots(p))] = [v EXCEPT !.used = 0]]
  BY DEF Inherited, v
<1> QED
  BY <1>1, <1>2, <1>3, <1>4, <1>5

LEMMA MmapFileTypes ==
    ASSUME MmapAssumption, TypeOK, NEW p \in Procs, NEW f \in Files, NEW n \in 1 .. MaxPages,
           NEW sh \in BOOLEAN, NEW w \in BOOLEAN, MmapFile(p, f, n, sh, w)
    PROVE  TypeOK'
<1>1. PICK s \in Slots : s = Min(EmptySlots(p))
  BY EmptySlot DEF MmapFile
<1>2. SetVma(vma[p][s], s, f, n, sh, w) \in Vma
  <2>1. Start(s) \in Starts
    BY DEF Starts
  <2> QED
    BY <2>1 DEF SetVma, Vma
<1>3. vma' \in [Procs -> [Slots -> Vma]]
  <2>1. vma' = [vma EXCEPT ![p][s] = SetVma(vma[p][s], s, f, n, sh, w)]
    BY <1>1 DEF MmapFile, TypeOK
  <2> QED
    BY <1>2, <2>1, SlotTypes
<1>4. mine' \in [Procs -> SUBSET Addrs]
  <2>1. Start(s) .. Start(s) + n - 1 \subseteq Addrs
    <3>1. Window(s) \subseteq Addrs /\ Start(s) \in Nat
      BY Windows
    <3>2. Start(s) .. Start(s) + n - 1 \subseteq Window(s)
      BY <3>1 DEF Window, MmapAssumption
    <3> QED
      BY <3>1, <3>2
  <2>2. mine' = [mine EXCEPT ![p] = @ \cup (Start(s) .. Start(s) + n - 1)]
    BY <1>1 DEF MmapFile
  <2> QED
    BY <2>1, <2>2 DEF TypeOK
<1>5. ref' \in [Files -> Int]
  BY DEF MmapFile, Filedup, TypeOK
<1> QED
  BY <1>3, <1>4, <1>5 DEF MmapFile, TypeOK, use

LEMMA FaultTypes ==
    ASSUME MmapAssumption, TypeOK, NEW p \in Procs, NEW a \in Addrs,
           Fault(p, a) \/ LazyCopy(p, a) \/ LazyCopyNoMemory(p, a)
    PROVE  TypeOK'
<1>1. CASE Fault(p, a)
  <2>1. Min(Covering(p, a)) \in Slots
    BY <1>1, CoveringSlot DEF Fault
  <2>2. vma[p] \in [Slots -> Vma]
    BY DEF TypeOK
  <2>3. /\ vma' \in [Procs -> [Slots -> Vma]]
        /\ pte' \in [Procs -> [Addrs -> Contents \cup {Absent}]]
        /\ crashed' \in BOOLEAN
    BY <1>1, <2>1, <2>2, MappingTypes DEF Fault
  <2> QED
    BY <1>1, <2>3 DEF Fault, TypeOK, use
<1>2. ASSUME CanInherit(p, a), ref' = Filedup(Inherited(p, a)[Min(EmptySlots(p))].file)
      PROVE  ref' \in [Files -> Int] /\ Min(EmptySlots(p)) \in Slots
  <2>1. Inherited(p, a)[Min(EmptySlots(p))].file \in Files
    BY <1>2, InheritedTypes
  <2>2. Min(EmptySlots(p)) \in Slots
    BY <1>2, EmptySlot DEF CanInherit
  <2> QED
    BY <1>2, <2>1, <2>2 DEF Filedup, TypeOK
<1>3. CASE LazyCopy(p, a)
  <2>1. ref' \in [Files -> Int] /\ Min(EmptySlots(p)) \in Slots
    BY <1>2, <1>3 DEF LazyCopy
  <2>2. Inherited(p, a) \in [Slots -> Vma]
    BY <1>3, InheritedTypes DEF LazyCopy
  <2>3. /\ vma' \in [Procs -> [Slots -> Vma]]
        /\ pte' \in [Procs -> [Addrs -> Contents \cup {Absent}]]
        /\ crashed' \in BOOLEAN
    BY <1>3, <2>1, <2>2, MappingTypes DEF LazyCopy
  <2> QED
    BY <1>3, <2>1, <2>3 DEF LazyCopy, TypeOK, use
<1>4. CASE LazyCopyNoMemory(p, a)
  <2>1. ref' \in [Files -> Int]
    BY <1>2, <1>4 DEF LazyCopyNoMemory
  <2>2. Inherited(p, a) \in [Slots -> Vma]
    BY <1>4, InheritedTypes DEF LazyCopyNoMemory
  <2>3. vma' \in [Procs -> [Slots -> Vma]]
    BY <1>4, <2>2 DEF LazyCopyNoMemory, TypeOK
  <2> QED
    BY <1>4, <2>1, <2>3 DEF LazyCopyNoMemory, TypeOK, use
<1> QED
  BY <1>1, <1>3, <1>4

LEMMA CoversBelow ==
    ASSUME MmapAssumption, TypeOK, NEW p \in Procs, NEW a \in Addrs, NEW s \in Covering(p, a)
    PROVE  /\ s \in Slots /\ vma[p][s] \in Vma /\ vma[p][s].start \in Nat
           /\ vma[p][s].start =< a /\ a < vma[p][s].start + W
<1>1. s \in Slots /\ vma[p][s].start =< a /\ a < vma[p][s].start + W
  BY DEF Covering
<1>2. vma[p][s] \in Vma
  BY <1>1 DEF TypeOK
<1>3. vma[p][s].start \in Nat
  <2>1. vma[p][s].start \in Starts
    BY <1>2, RecordTypes DEF Starts
  <2> QED
    BY <2>1, Windows DEF Starts
<1> QED
  BY <1>1, <1>2, <1>3

LEMMA StoreTypes ==
    ASSUME MmapAssumption, TypeOK, NEW p \in Procs, NEW a \in Addrs, Store(p, a)
    PROVE  TypeOK'
<1> DEFINE v == vma[p][Min(Covering(p, a))]
<1>1. v.start \in Nat /\ a \in Nat
  BY CoveringSlot, CoversBelow, Windows DEF Store
<1>2. pte' = [pte EXCEPT ![p][a] = <<a - v.start, "new">>]
  BY DEF Store
<1>3. <<a - v.start, "new">> \in Contents
  BY <1>1 DEF Contents
<1> HIDE DEF v
<1>4. pte' \in [Procs -> [Addrs -> Contents \cup {Absent}]]
  BY <1>2, <1>3 DEF TypeOK
<1> QED
  BY <1>4 DEF Store, TypeOK, use

LEMMA PresentTypes ==
    ASSUME TypeOK, NEW p \in Procs, NEW S \in SUBSET Addrs, NEW a \in Present(p, S)
    PROVE  a \in S /\ pte[p][a] \in Contents
BY DEF Present, TypeOK

LEMMA MunmapTypes ==
    ASSUME MmapAssumption, TypeOK, NEW p \in Procs, NEW a \in Addrs, NEW n \in 1 .. MaxPages,
           Munmap(p, a, n)
    PROVE  TypeOK'
<1> DEFINE S == a .. a + n - 1
           s == Min(Covering(p, a))
           v == vma[p][s]
<1>1. S \subseteq Addrs
  BY DEF Munmap, Unmaps, TypeOK
<1>2. mine' \in [Procs -> SUBSET Addrs]
  <2>1. mine' = [mine EXCEPT ![p] = @ \ S]
    BY DEF Munmap
  <2> QED
    BY <2>1 DEF TypeOK
<1>3. CASE Covering(p, a) = {}
  <2>1. UNCHANGED <<vma, pte, ref, foff, fdata>>
    BY <1>3 DEF Munmap
  <2> QED
    BY <1>2, <2>1 DEF Munmap, TypeOK, use
<1>4. CASE Covering(p, a) # {}
  <2>1. /\ v.file # NoFile
        /\ WriteBack(p, v.file, S)
        /\ pte' = Uvmunmap(p, S)
        /\ vma' = [vma EXCEPT ![p][s] = Unmapped(@, n)]
        /\ ref' = IF vma'[p][s].file = NoFile THEN [ref EXCEPT ![v.file] = @ - 1] ELSE ref
    BY <1>4 DEF Munmap
  <2>2. s \in Slots /\ v \in Vma
    BY <1>4, CoveringSlot, CoversBelow
  <2>3. v.file \in Files /\ Unmapped(v, n) \in Vma
    <3>1. n \in Int
      OBVIOUS
    <3> QED
      BY <2>1, <2>2, <3>1, RecordTypes
  <2>4. vma' \in [Procs -> [Slots -> Vma]]
    <3>1. vma' = [vma EXCEPT ![p][s] = Unmapped(v, n)]
      BY <2>1, <2>2 DEF TypeOK
    <3> HIDE DEF v, s
    <3> QED
      BY <2>2, <2>3, <3>1, SlotTypes
  <2>5. ref' \in [Files -> Int]
    <3> HIDE DEF v, s, S
    <3> QED
      BY <2>1, <2>3 DEF TypeOK
  <2>6. pte' \in [Procs -> [Addrs -> Contents \cup {Absent}]]
    <3> HIDE DEF v, s, S
    <3> QED
      BY <2>1 DEF Uvmunmap, TypeOK
  <2> HIDE DEF v, s, S
  <2>7. foff' \in [Files -> Nat] /\ fdata' \in [Files -> [0 .. MaxOff -> Contents]]
    <3>1. CASE v.file \notin writable
      BY <2>1, <3>1 DEF WriteBack, TypeOK
    <3>2. CASE v.file \in writable
      <4> DEFINE P == Present(p, S)
                 from == foff[v.file]
                 rank(b) == Cardinality({c \in P : c < b})
                 new == [k \in 0 .. MaxOff |->
                            IF \E b \in P : from + rank(b) = k
                            THEN pte[p][CHOOSE b \in P : from + rank(b) = k]
                            ELSE fdata[v.file][k]]
      <4>1. foff' = [foff EXCEPT ![v.file] = @ + Cardinality(P)]
        BY <2>1, <3>2 DEF WriteBack
      <4>2. fdata' = [fdata EXCEPT ![v.file] = new]
        BY <2>1, <2>3, <3>2 DEF WriteBack, TypeOK
      <4>3. Cardinality(P) \in Nat
        <5>1. IsFiniteSet(S)
          <6>1. a \in Int /\ a + n - 1 \in Int
            BY Windows
          <6> QED
            BY <6>1, FS_Interval DEF S
        <5> QED
          BY <5>1, FS_Subset, FS_CardinalityType DEF Present
      <4>4. foff' \in [Files -> Nat]
        <5> HIDE DEF P
        <5> QED
          BY <2>3, <4>1, <4>3 DEF TypeOK
      <4>5. \A b \in P : pte[p][b] \in Contents
        <5>1. S \in SUBSET Addrs
          BY <1>1
        <5> QED
          BY <5>1, PresentTypes
      <4>6. \A k \in 0 .. MaxOff : fdata[v.file][k] \in Contents
        BY <2>3 DEF TypeOK
      <4>7. \A k : (\E b \in P : from + rank(b) = k) => (CHOOSE b \in P : from + rank(b) = k) \in P
        OBVIOUS
      <4> HIDE DEF P, rank, from
      <4>8. new \in [0 .. MaxOff -> Contents]
        <5>1. \A k \in 0 .. MaxOff :
                (IF \E b \in P : from + rank(b) = k
                 THEN pte[p][CHOOSE b \in P : from + rank(b) = k]
                 ELSE fdata[v.file][k]) \in Contents
          BY <4>5, <4>6, <4>7
        <5> QED
          BY <5>1
      <4> HIDE DEF new
      <4>9. fdata' \in [Files -> [0 .. MaxOff -> Contents]]
        BY <4>2, <4>8 DEF TypeOK
      <4> QED
        BY <4>4, <4>9
    <3> QED
      BY <3>1, <3>2
  <2> QED
    BY <1>2, <2>4, <2>5, <2>6, <2>7 DEF Munmap, TypeOK, use
<1> QED
  BY <1>3, <1>4

LEMMA CrashTypes ==
    ASSUME TypeOK, Crash
    PROVE  TypeOK'
<1>1. crashed' \in BOOLEAN
  BY DEF Crash
<1> QED
  BY <1>1 DEF Crash, TypeOK, use

LEMMA ProcessTypes ==
    ASSUME MmapAssumption, TypeOK, NEW p \in Procs
    PROVE  /\ \A f \in Files : MmapDenied(p, f) \/ Close(p, f) => TypeOK'
           /\ \A c \in Procs : Fork(p, c) => TypeOK'
           /\ Exit(p) => TypeOK'
           /\ Wait(p) => TypeOK'
<1>1. ASSUME NEW f \in Files, MmapDenied(p, f)
      PROVE  TypeOK'
  BY <1>1 DEF MmapDenied, Filedup, TypeOK, use
<1>2. ASSUME NEW f \in Files, Close(p, f)
      PROVE  TypeOK'
  BY <1>2 DEF Close, TypeOK, use
<1>3. ASSUME NEW c \in Procs, Fork(p, c)
      PROVE  TypeOK'
  <2>1. state' \in [Procs -> {"unused", "running", "zombie"}] /\ parent' \in [Procs -> Procs]
    BY <1>3 DEF Fork, TypeOK
  <2>2. ofile' \in [Procs -> SUBSET Files] /\ ref' \in [Files -> Int]
    BY <1>3 DEF Fork, TypeOK
  <2>3. mine' \in [Procs -> SUBSET Addrs]
    BY <1>3 DEF Fork, TypeOK
  <2> QED
    BY <1>3, <2>1, <2>2, <2>3 DEF Fork, TypeOK, use
<1>4. ASSUME Exit(p)
      PROVE  TypeOK'
  <2>1. state' \in [Procs -> {"unused", "running", "zombie"}] /\ parent' \in [Procs -> Procs]
    BY <1>4 DEF Exit, TypeOK, MmapAssumption
  <2>2. ofile' \in [Procs -> SUBSET Files] /\ ref' \in [Files -> Int]
    BY <1>4 DEF Exit, TypeOK
  <2>3. mine' \in [Procs -> SUBSET Addrs]
    BY <1>4 DEF Exit, TypeOK
  <2> QED
    BY <1>4, <2>1, <2>2, <2>3 DEF Exit, TypeOK, use
<1>5. ASSUME Wait(p)
      PROVE  TypeOK'
  BY <1>5, CrashTypes DEF Wait, TypeOK, use
<1> QED
  BY <1>1, <1>2, <1>3, <1>4, <1>5

LEMMA TypesStep ==
    ASSUME MmapAssumption, TypeOK, [MmapNext]_mmapVars
    PROVE  TypeOK'
<1>1. CASE UNCHANGED mmapVars
  BY <1>1 DEF mmapVars, use, TypeOK
<1>2. ASSUME NEW p \in Procs, NEW f \in Files, MmapFull(p, f)
      PROVE  TypeOK'
  BY <1>2, CrashTypes DEF MmapFull
<1>3. ASSUME NEW p \in Procs, NEW a \in Addrs, FaultSleeps(p, a) \/ LazyCopyNull(p, a)
      PROVE  TypeOK'
  BY <1>3, CrashTypes DEF FaultSleeps, LazyCopyNull
<1>4. ASSUME NEW p \in Procs, NEW a \in Addrs, NEW n \in 1 .. MaxPages, MunmapNull(p, a, n)
      PROVE  TypeOK'
  BY <1>4, CrashTypes DEF MunmapNull
<1> QED
  BY <1>1, <1>2, <1>3, <1>4, MmapFileTypes, FaultTypes, StoreTypes, MunmapTypes, ProcessTypes
     DEF MmapNext

-----------------------------------------------------------------------------
(* References to files *)

\* The holders of a file are told by descriptors and by the files of slots.
LEMMA CoversRest ==
    ASSUME RefCovers, UNCHANGED <<ofile, ref>>,
           \A p \in Procs, s \in Slots : vma'[p][s].file = vma[p][s].file
    PROVE  RefCovers'
<1>1. \A f : {t \in Procs \X Slots : vma'[t[1]][t[2]].file = f}
             = {t \in Procs \X Slots : vma[t[1]][t[2]].file = f}
  OBVIOUS
<1>2. \A f \in Files : Holders(f)' = Holders(f) /\ ref'[f] = ref[f]
  BY <1>1 DEF Holders
<1> QED
  BY <1>2 DEF RefCovers

\* A file that a slot takes is counted.
LEMMA CoversMapped ==
    ASSUME MmapAssumption, TypeOK, TypeOK', RefCovers, NEW p \in Procs, NEW s \in Slots,
           NEW f \in Files, ref' = Filedup(f), ofile' = ofile,
           \A q \in Procs, t \in Slots :
               q # p \/ t # s => vma'[q][t].file = vma[q][t].file,
           vma'[p][s].file = vma[p][s].file \/ (vma[p][s].file = NoFile /\ vma'[p][s].file = f)
    PROVE  RefCovers'
<1> SUFFICES ASSUME NEW g \in Files
             PROVE  ref'[g] >= Holders(g)'
  BY DEF RefCovers
<1>1. ref[g] \in Int /\ ref'[g] \in Int /\ ref[g] >= Holders(g)
  BY DEF TypeOK, RefCovers
<1>2. Owners(g)' \subseteq Owners(g)
  BY DEF Owners
<1>3. ref'[f] = ref[f] + 1 /\ (g # f => ref'[g] = ref[g])
  BY DEF Filedup, TypeOK
<1>4. Maps(g)' \subseteq Maps(g) \cup {<<p, s>>}
  <2> SUFFICES ASSUME NEW q \in Procs, NEW t \in Slots, vma'[q][t].file = g, q # p \/ t # s
               PROVE  vma[q][t].file = g
    BY DEF Maps
  <2> QED
    OBVIOUS
<1>5. CASE g = f
  BY <1>1, <1>2, <1>3, <1>4, <1>5, CoversStep
<1>6. CASE g # f
  <2>1. Maps(g)' \subseteq Maps(g)
    <3> SUFFICES ASSUME NEW q \in Procs, NEW t \in Slots, vma'[q][t].file = g
                 PROVE  vma[q][t].file = g
      BY DEF Maps
    <3> QED
      BY <1>6
  <2> QED
    BY <1>1, <1>2, <1>3, <1>6, <2>1, CoversStep
<1> QED
  BY <1>5, <1>6

\* memory_mapping() takes over the files of the table it is given.
LEMMA MappingFiles ==
    ASSUME MmapAssumption, TypeOK, NEW p \in Procs, NEW tbl \in [Slots -> Vma], NEW s \in Slots,
           MemoryMapping(p, tbl, s)
    PROVE  vma' = vma \/ (/\ \A q \in Procs \ {p} : vma'[q] = vma[q]
                          /\ \A t \in Slots : vma'[p][t].file = tbl[t].file)
<1>1. CASE vma' = vma
  BY <1>1
<1>2. CASE vma' = [vma EXCEPT ![p] = [tbl EXCEPT ![s].used = @ + 1]]
  <2>1. tbl[s] \in Vma
    OBVIOUS
  <2>2. [tbl[s] EXCEPT !.used = @ + 1].file = tbl[s].file
    BY <2>1 DEF Vma
  <2>3. vma'[p] = [tbl EXCEPT ![s] = [tbl[s] EXCEPT !.used = @ + 1]]
    BY <1>2 DEF TypeOK
  <2>4. \A q \in Procs \ {p} : vma'[q] = vma[q]
    BY <1>2 DEF TypeOK
  <2>5. \A t \in Slots : vma'[p][t].file = tbl[t].file
    BY <2>2, <2>3
  <2> QED
    BY <2>4, <2>5
<1> QED
  BY <1>1, <1>2 DEF MemoryMapping

LEMMA MmapFileCovers ==
    ASSUME MmapAssumption, TypeOK, TypeOK', RefCovers, NEW p \in Procs, NEW f \in Files,
           NEW n \in 1 .. MaxPages, NEW sh \in BOOLEAN, NEW w \in BOOLEAN, MmapFile(p, f, n, sh, w)
    PROVE  RefCovers'
<1>1. PICK s \in Slots : s = Min(EmptySlots(p)) /\ s \in EmptySlots(p)
  BY EmptySlot DEF MmapFile
<1>2. vma[p][s].file = NoFile
  BY <1>1 DEF EmptySlots
<1>3. vma' = [vma EXCEPT ![p][s] = SetVma(vma[p][s], s, f, n, sh, w)]
  BY <1>1 DEF MmapFile, TypeOK
<1>4. SetVma(vma[p][s], s, f, n, sh, w).file = f
  BY DEF SetVma
<1>5. vma'[p][s].file = f
  BY <1>3, <1>4 DEF TypeOK
<1>6. \A q \in Procs, t \in Slots : q # p \/ t # s => vma'[q][t].file = vma[q][t].file
  BY <1>3 DEF TypeOK
<1>7. ref' = Filedup(f) /\ ofile' = ofile
  BY DEF MmapFile
<1> QED
  BY <1>2, <1>5, <1>6, <1>7, CoversMapped

LEMMA FaultCovers ==
    ASSUME MmapAssumption, TypeOK, TypeOK', RefCovers, NEW p \in Procs, NEW a \in Addrs,
           Fault(p, a) \/ LazyCopy(p, a) \/ LazyCopyNoMemory(p, a)
    PROVE  RefCovers'
<1>1. CASE Fault(p, a)
  <2>1. Min(Covering(p, a)) \in Slots /\ vma[p] \in [Slots -> Vma]
    BY <1>1, CoveringSlot DEF Fault, TypeOK
  <2>2. MemoryMapping(p, vma[p], Min(Covering(p, a)))
    BY <1>1 DEF Fault
  <2>3. \A q \in Procs, s \in Slots : vma'[q][s].file = vma[q][s].file
    BY <2>1, <2>2, MappingFiles
  <2> QED
    BY <1>1, <2>3, CoversRest DEF Fault
<1>2. ASSUME CanInherit(p, a), ofile' = ofile,
             ref' = Filedup(Inherited(p, a)[Min(EmptySlots(p))].file),
             \/ vma' = vma
             \/ /\ \A q \in Procs \ {p} : vma'[q] = vma[q]
                /\ \A t \in Slots : vma'[p][t].file = Inherited(p, a)[t].file
      PROVE  RefCovers'
  <2>1. PICK s \in Slots : s = Min(EmptySlots(p)) /\ s \in EmptySlots(p)
    BY <1>2, EmptySlot DEF CanInherit
  <2>2. PICK f \in Files : f = Inherited(p, a)[s].file
    BY <1>2, <2>1, InheritedTypes
  <2>3. vma[p][s].file = NoFile
    BY <2>1 DEF EmptySlots
  <2>4. \A t \in Slots : t # s => Inherited(p, a)[t] = vma[p][t]
    BY <1>2, <2>1, InheritedTypes
  <2>5. ref' = Filedup(f)
    BY <1>2, <2>1, <2>2
  <2>6. vma'[p][s].file = vma[p][s].file \/ (vma[p][s].file = NoFile /\ vma'[p][s].file = f)
    BY <1>2, <2>2, <2>3
  <2>7. \A q \in Procs, t \in Slots : q # p \/ t # s => vma'[q][t].file = vma[q][t].file
    BY <1>2, <2>4
  <2> QED
    BY <1>2, <2>5, <2>6, <2>7, CoversMapped
<1>3. CASE LazyCopy(p, a)
  <2>1. /\ CanInherit(p, a) /\ ofile' = ofile
        /\ ref' = Filedup(Inherited(p, a)[Min(EmptySlots(p))].file)
        /\ MemoryMapping(p, Inherited(p, a), Min(EmptySlots(p)))
    BY <1>3 DEF LazyCopy
  <2>2. Min(EmptySlots(p)) \in Slots /\ Inherited(p, a) \in [Slots -> Vma]
    BY <2>1, EmptySlot, InheritedTypes DEF CanInherit
  <2>3. vma' = vma \/ (/\ \A q \in Procs \ {p} : vma'[q] = vma[q]
                       /\ \A t \in Slots : vma'[p][t].file = Inherited(p, a)[t].file)
    BY <2>1, <2>2, MappingFiles
  <2> QED
    BY <1>2, <2>1, <2>3
<1>4. CASE LazyCopyNoMemory(p, a)
  <2>1. /\ CanInherit(p, a) /\ ofile' = ofile
        /\ ref' = Filedup(Inherited(p, a)[Min(EmptySlots(p))].file)
        /\ vma' = [vma EXCEPT ![p] = Inherited(p, a)]
    BY <1>4 DEF LazyCopyNoMemory
  <2>2. /\ \A q \in Procs \ {p} : vma'[q] = vma[q]
        /\ vma'[p] = Inherited(p, a)
    BY <2>1 DEF TypeOK
  <2> QED
    BY <1>2, <2>1, <2>2
<1> QED
  BY <1>1, <1>3, <1>4

\* munmap() gives the reference up with the last page of a mapping.
LEMMA MunmapCovers ==
    ASSUME MmapAssumption, TypeOK, TypeOK', RefCovers, NEW p \in Procs, NEW a \in Addrs,
           NEW n \in 1 .. MaxPages, Munmap(p, a, n)
    PROVE  RefCovers'
<1>1. CASE Covering(p, a) = {}
  BY <1>1, CoversRest DEF Munmap
<1>2. CASE Covering(p, a) # {}
  <2>1. PICK s \in Slots : s = Min(Covering(p, a)) /\ s \in Covering(p, a)
    BY <1>2, CoveringSlot
  <2>2. PICK v \in Vma : v = vma[p][s]
    BY <2>1, CoversBelow
  <2>3. /\ v.file # NoFile
        /\ vma' = [vma EXCEPT ![p][s] = Unmapped(@, n)]
        /\ ref' = IF vma'[p][s].file = NoFile THEN [ref EXCEPT ![v.file] = @ - 1] ELSE ref
        /\ ofile' = ofile
    BY <1>2, <2>1, <2>2 DEF Munmap
  <2>4. v.file \in Files /\ (Unmapped(v, n).file = NoFile \/ Unmapped(v, n).file = v.file)
    <3>1. v.file \in Files
      BY <2>2, <2>3, RecordTypes
    <3>2. [v EXCEPT !.len = @ - n].file = v.file
      BY DEF Vma
    <3>3. [v EXCEPT !.file = NoFile, !.len = 0].file = NoFile
      BY DEF Vma
    <3> QED
      BY <3>1, <3>2, <3>3 DEF Unmapped
  <2>5. vma'[p][s] = Unmapped(v, n)
    BY <2>2, <2>3 DEF TypeOK
  <2>6. \A q \in Procs, t \in Slots : q # p \/ t # s => vma'[q][t].file = vma[q][t].file
    BY <2>3 DEF TypeOK
  <2>7. CASE vma'[p][s].file # NoFile
    <3>1. ref' = ref /\ vma'[p][s].file = vma[p][s].file
      BY <2>2, <2>3, <2>4, <2>5, <2>7
    <3> QED
      BY <2>3, <2>6, <3>1, CoversRest
  <2>8. CASE vma'[p][s].file = NoFile
    <3> SUFFICES ASSUME NEW g \in Files
                 PROVE  ref'[g] >= Holders(g)'
      BY DEF RefCovers
    <3>1. ref[g] \in Int /\ ref'[g] \in Int /\ ref[g] >= Holders(g)
      BY DEF TypeOK, RefCovers
    <3>2. Owners(g)' \subseteq Owners(g)
      BY <2>3 DEF Owners
    <3>3. Maps(g)' \subseteq Maps(g) \ {<<p, s>>}
      <4>1. g # NoFile
        BY DEF MmapAssumption
      <4> SUFFICES ASSUME NEW q \in Procs, NEW t \in Slots, vma'[q][t].file = g
                   PROVE  vma[q][t].file = g /\ <<q, t>> # <<p, s>>
        BY DEF Maps
      <4> QED
        BY <2>6, <2>8, <4>1
    <3>4. CASE g = v.file
      <4>1. <<p, s>> \in Maps(g)
        BY <2>2, <3>4 DEF Maps
      <4>2. ref'[g] = ref[g] - 1
        BY <2>3, <2>4, <2>8, <3>4 DEF TypeOK
      <4> QED
        BY <3>1, <3>2, <3>3, <4>1, <4>2, CoversStep
    <3>5. CASE g # v.file
      <4>1. ref'[g] = ref[g] /\ Maps(g)' \subseteq Maps(g)
        BY <2>3, <2>4, <2>8, <3>3, <3>5 DEF TypeOK
      <4> QED
        BY <3>1, <3>2, <4>1, CoversStep
    <3> QED
      BY <3>4, <3>5
  <2> QED
    BY <2>7, <2>8
<1> QED
  BY <1>1, <1>2

LEMMA CloseCovers ==
    ASSUME MmapAssumption, TypeOK, TypeOK', RefCovers, NEW p \in Procs, NEW f \in Files, Close(p, f)
    PROVE  RefCovers'
<1> SUFFICES ASSUME NEW g \in Files
             PROVE  ref'[g] >= Holders(g)'
  BY DEF RefCovers
<1>1. ref[g] \in Int /\ ref'[g] \in Int /\ ref[g] >= Holders(g)
  BY DEF TypeOK, RefCovers
<1>2. Maps(g)' \subseteq Maps(g)
  BY DEF Close, Maps
<1>3. CASE g = f
  <2>1. p \in Owners(g) /\ Owners(g)' \subseteq Owners(g) \ {p}
    BY <1>3 DEF Close, Owners, TypeOK
  <2>2. ref'[g] = ref[g] - 1
    BY <1>3 DEF Close, TypeOK
  <2> QED
    BY <1>1, <1>2, <2>1, <2>2, CoversStep
<1>4. CASE g # f
  <2>1. Owners(g)' \subseteq Owners(g) /\ ref'[g] = ref[g]
    BY <1>4 DEF Close, Owners, TypeOK
  <2> QED
    BY <1>1, <1>2, <2>1, CoversStep
<1> QED
  BY <1>3, <1>4

LEMMA ForkCovers ==
    ASSUME MmapAssumption, TypeOK, TypeOK', RefCovers, NEW p \in Procs, NEW c \in Procs, Fork(p, c)
    PROVE  RefCovers'
<1> SUFFICES ASSUME NEW g \in Files
             PROVE  ref'[g] >= Holders(g)'
  BY DEF RefCovers
<1>1. ref[g] \in Int /\ ref'[g] \in Int /\ ref[g] >= Holders(g)
  BY DEF TypeOK, RefCovers
<1>2. Maps(g)' \subseteq Maps(g)
  BY DEF Fork, Maps
<1>3. CASE g \in ofile[p]
  <2>1. Owners(g)' \subseteq Owners(g) \cup {c}
    BY DEF Fork, Owners, TypeOK
  <2>2. ref'[g] = ref[g] + 1
    BY <1>3 DEF Fork
  <2> QED
    BY <1>1, <1>2, <2>1, <2>2, CoversStep
<1>4. CASE g \notin ofile[p]
  <2>1. Owners(g)' \subseteq Owners(g) /\ ref'[g] = ref[g]
    BY <1>4 DEF Fork, Owners, TypeOK
  <2> QED
    BY <1>1, <1>2, <2>1, CoversStep
<1> QED
  BY <1>3, <1>4

LEMMA ExitCovers ==
    ASSUME MmapAssumption, TypeOK, TypeOK', RefCovers, NEW p \in Procs, Exit(p)
    PROVE  RefCovers'
<1> SUFFICES ASSUME NEW g \in Files
             PROVE  ref'[g] >= Holders(g)'
  BY DEF RefCovers
<1>1. ref[g] \in Int /\ ref'[g] \in Int /\ ref[g] >= Holders(g)
  BY DEF TypeOK, RefCovers
<1>2. Maps(g)' \subseteq Maps(g)
  BY DEF Exit, Maps
<1>3. CASE g \in ofile[p]
  <2>1. p \in Owners(g) /\ Owners(g)' \subseteq Owners(g) \ {p}
    BY <1>3 DEF Exit, Owners, TypeOK
  <2>2. ref'[g] = ref[g] - 1
    BY <1>3 DEF Exit
  <2> QED
    BY <1>1, <1>2, <2>1, <2>2, CoversStep
<1>4. CASE g \notin ofile[p]
  <2>1. Owners(g)' \subseteq Owners(g) /\ ref'[g] = ref[g]
    BY <1>4 DEF Exit, Owners, TypeOK
  <2> QED
    BY <1>1, <1>2, <2>1, CoversStep
<1> QED
  BY <1>3, <1>4

LEMMA CoversInit ==
    ASSUME MmapAssumption, MmapInit
    PROVE  RefCovers
<1> SUFFICES ASSUME NEW f \in Files
             PROVE  ref[f] >= Holders(f)
  BY DEF RefCovers
<1>1. Owners(f) = {First}
  BY DEF MmapInit, Owners, MmapAssumption
<1>2. Maps(f) = {}
  BY DEF MmapInit, Maps, EmptyVma, MmapAssumption
<1>3. Cardinality(Owners(f)) = 1 /\ Cardinality(Maps(f)) = 0
  BY <1>1, <1>2, FS_Singleton, FS_EmptySet
<1>4. ref[f] = 1
  BY DEF MmapInit
<1> QED
  BY <1>3, <1>4, HoldersFinite

LEMMA CoversNext ==
    ASSUME MmapAssumption, TypeOK, TypeOK', RefCovers, [MmapNext]_mmapVars
    PROVE  RefCovers'
<1>1. ASSUME UNCHANGED <<ofile, ref, vma>>
      PROVE  RefCovers'
  BY <1>1, CoversRest
<1>2. CASE UNCHANGED mmapVars
  BY <1>1, <1>2 DEF mmapVars
<1>3. ASSUME Crash
      PROVE  RefCovers'
  BY <1>1, <1>3 DEF Crash
<1>4. ASSUME NEW p \in Procs, NEW f \in Files, MmapFull(p, f)
      PROVE  RefCovers'
  BY <1>3, <1>4 DEF MmapFull
<1>5. ASSUME NEW p \in Procs, NEW f \in Files, MmapDenied(p, f)
      PROVE  RefCovers'
  <2>1. ref' = Filedup(f) /\ ofile' = ofile /\ vma' = vma
    BY <1>5 DEF MmapDenied
  <2> SUFFICES ASSUME NEW g \in Files
               PROVE  ref'[g] >= Holders(g)'
    BY DEF RefCovers
  <2>2. ref[g] \in Int /\ ref'[g] \in Int /\ ref[g] >= Holders(g)
    BY DEF TypeOK, RefCovers
  <2>3. Owners(g)' \subseteq Owners(g) /\ Maps(g)' \subseteq Maps(g)
    BY <2>1 DEF Owners, Maps
  <2>4. ref'[g] >= ref[g]
    BY <2>1, <2>2 DEF Filedup, TypeOK
  <2> QED
    BY <2>2, <2>3, <2>4, CoversStep
<1>6. ASSUME NEW p \in Procs, NEW a \in Addrs, FaultSleeps(p, a) \/ LazyCopyNull(p, a)
      PROVE  RefCovers'
  BY <1>3, <1>6 DEF FaultSleeps, LazyCopyNull
<1>7. ASSUME NEW p \in Procs, NEW a \in Addrs, Store(p, a)
      PROVE  RefCovers'
  BY <1>1, <1>7 DEF Store
<1>8. ASSUME NEW p \in Procs, NEW a \in Addrs, NEW n \in 1 .. MaxPages, MunmapNull(p, a, n)
      PROVE  RefCovers'
  BY <1>3, <1>8 DEF MunmapNull
<1>9. ASSUME NEW p \in Procs, Wait(p)
      PROVE  RefCovers'
  BY <1>1, <1>3, <1>9 DEF Wait
<1> QED
  BY <1>2, <1>4, <1>5, <1>6, <1>7, <1>8, <1>9, MmapFileCovers, FaultCovers, MunmapCovers,
     CloseCovers, ForkCovers, ExitCovers
     DEF MmapNext

\* f->ref covers the descriptors and the mappings of a file, through mmap,
\* munmap, close, fork, lazy copies and exit: it is never released under one.
THEOREM FilesStayReferenced == ASSUME MmapAssumption PROVE MmapSpec => []RefCovers
<1>1. MmapInit => TypeOK /\ RefCovers
  BY MmapInitTypes, CoversInit
<1>2. TypeOK /\ RefCovers /\ [MmapNext]_mmapVars => (TypeOK /\ RefCovers)'
  BY TypesStep, CoversNext
<1> QED
  BY <1>1, <1>2, PTL DEF MmapSpec

-----------------------------------------------------------------------------
(* A process without habits *)

LEMMA AloneInit ==
    ASSUME MmapAssumption, MmapInit
    PROVE  Alone
<1>1. \A s \in Slots : SlotTidy(s)
  <2> SUFFICES ASSUME NEW s \in Slots
               PROVE  SlotTidy(s)
    OBVIOUS
  <2>1. vma[First][s] = EmptyVma /\ mine[First] = {} /\ pte[First] = NoPages
    BY DEF MmapInit, MmapAssumption
  <2>2. Left(s) = {}
    BY <2>1 DEF Left
  <2> QED
    BY <2>1, <2>2 DEF SlotTidy, EmptyVma
<1>2. \A f \in Files : \A k \in 0 .. MaxOff : fdata[f][k][1] = k
  BY DEF MmapInit
<1>3. /\ ~crashed /\ state[First] = "running"
      /\ \A p \in Procs \ {First} : state[p] = "unused" /\ pte[p] = NoPages /\ mine[p] = {}
      /\ \A a \in mine[First] : \E s \in Slots : a \in Window(s)
      /\ \A a \in Addrs : pte[First][a] # Absent => a \in mine[First]
  BY DEF MmapInit, MmapAssumption, NoPages
<1> QED
  BY <1>1, <1>2, <1>3 DEF Alone

\* A page that is left of a mapping is covered by its slot only.
LEMMA AloneCovering ==
    ASSUME MmapAssumption, TypeOK, Alone, NEW s \in Slots, NEW a \in Left(s)
    PROVE  /\ Covering(First, a) = {s} /\ Min(Covering(First, a)) = s
           /\ vma[First][s].file # NoFile /\ vma[First][s].start = Start(s)
<1>1. /\ a \in Window(s) /\ a \in Nat /\ a >= W /\ Start(s) \in Nat /\ W \in Nat
      /\ \A t \in Slots : a \in Window(t) => s = t
      /\ \A t \in Slots : Start(t) \in Nat
  BY Windows DEF Left, MmapAssumption
<1>2. vma[First][s].file # NoFile /\ vma[First][s].start = Start(s)
  BY DEF Alone, SlotTidy
<1>3. ASSUME NEW t \in Covering(First, a)
      PROVE  t = s
  <2>1. t \in Slots /\ vma[First][t].start =< a /\ a < vma[First][t].start + W
    BY DEF Covering
  <2>2. vma[First][t].start \in {0, Start(t)}
    BY <2>1 DEF Alone, SlotTidy
  <2>3. vma[First][t].start = Start(t)
    BY <1>1, <2>1, <2>2
  <2>4. a \in Window(t)
    BY <1>1, <2>1, <2>3 DEF Window
  <2> QED
    BY <1>1, <2>1, <2>4
<1>4. s \in Covering(First, a)
  BY <1>1, <1>2 DEF Covering, Window
<1>5. Covering(First, a) = {s}
  BY <1>3, <1>4
<1>6. Min(Covering(First, a)) = s
  <2>1. Min(Covering(First, a)) \in Covering(First, a)
    BY <1>5, CoveringSlot
  <2> QED
    BY <1>5, <2>1
<1> QED
  BY <1>2, <1>5, <1>6

LEMMA AloneMine ==
    ASSUME MmapAssumption, TypeOK, Alone, NEW a \in mine[First]
    PROVE  \E s \in Slots : a \in Left(s)
BY DEF Alone, Left

\* A step at one slot leaves the others tidy.
LEMMA OtherSlot ==
    ASSUME NEW t \in Slots, SlotTidy(t), vma'[First][t] = vma[First][t], Left(t)' = Left(t),
           \A a \in Left(t) : pte'[First][a] = pte[First][a], writable' = writable
    PROVE  SlotTidy(t)'
<1> DEFINE v == vma[First][t]
           L == Left(t)
<1>1. v' = v /\ L' = L /\ \A a \in L : pte'[First][a] = pte[First][a]
  OBVIOUS
<1>2. /\ v.start \in {0, Start(t)}
      /\ v.file = NoFile => v.len = 0 /\ L = {}
      /\ v.file # NoFile => v.start = Start(t) /\ v.len = Cardinality(L) /\ v.len > 0
      /\ \A a \in L : pte[First][a] = Absent <=> a >= Start(t) + v.used
      /\ \A a \in L : Start(t) + v.used .. a \subseteq L
      /\ writable = {} =>
           \A a \in L : pte[First][a] # Absent => pte[First][a][1] = a - Start(t)
  BY DEF SlotTidy
<1>3. SlotTidy(t)' <=>
      (/\ v'.start \in {0, Start(t)}
       /\ v'.file = NoFile => v'.len = 0 /\ L' = {}
       /\ v'.file # NoFile => v'.start = Start(t) /\ v'.len = Cardinality(L') /\ v'.len > 0
       /\ \A a \in L' : pte'[First][a] = Absent <=> a >= Start(t) + v'.used
       /\ \A a \in L' : Start(t) + v'.used .. a \subseteq L'
       /\ writable' = {} =>
            \A a \in L' : pte'[First][a] # Absent => pte'[First][a][1] = a - Start(t))
  BY DEF SlotTidy
<1> HIDE DEF v, L
<1> QED
  BY <1>1, <1>2, <1>3

\* What is left in the windows of other slots.
LEMMA OtherWindow ==
    ASSUME MmapAssumption, NEW s \in Slots, NEW t \in Slots, s # t, NEW S, S \subseteq Window(s),
           mine'[First] = mine[First] \cup S \/ mine'[First] = mine[First] \ S
    PROVE  Left(t)' = Left(t)
<1>1. \A a \in S : a \notin Window(t)
  BY Windows
<1>2. Left(t)' = mine'[First] \cap Window(t)
  BY DEF Left, Window
<1> QED
  BY <1>1, <1>2 DEF Left

LEMMA AloneRunning ==
    ASSUME Alone, NEW p \in Procs, Running(p)
    PROVE  p = First
BY DEF Alone, Running

LEMMA AloneMmap ==
    ASSUME MmapAssumption, TypeOK, Alone, NEW f \in Files, NEW n \in 1 .. MaxPages,
           NEW sh \in BOOLEAN, NEW w \in BOOLEAN, MmapFile(First, f, n, sh, w)
    PROVE  Alone'
<1>1. PICK s \in Slots : s = Min(EmptySlots(First)) /\ s \in EmptySlots(First)
  BY EmptySlot DEF MmapFile
<1> DEFINE S == Start(s) .. Start(s) + n - 1
<1>2. /\ vma' = [vma EXCEPT ![First][s] = SetVma(vma[First][s], s, f, n, sh, w)]
      /\ mine' = [mine EXCEPT ![First] = @ \cup S]
      /\ pte' = pte /\ state' = state /\ crashed' = crashed /\ fdata' = fdata /\ writable' = writable
  BY <1>1 DEF MmapFile, TypeOK, use
<1>3. First \in Procs /\ Start(s) \in Nat /\ n \in Nat /\ n >= 1
  BY Windows DEF MmapAssumption
<1>4. S \subseteq Window(s)
  BY <1>3 DEF Window, MmapAssumption
<1>5. mine'[First] = mine[First] \cup S
  BY <1>2, <1>3 DEF TypeOK
<1>6. Left(s) = {}
  BY <1>1 DEF EmptySlots, Alone, SlotTidy
<1>7. Left(s)' = S
  <2>1. Left(s)' = mine'[First] \cap Window(s)
    BY DEF Left, Window
  <2> QED
    BY <1>4, <1>5, <1>6, <2>1 DEF Left
<1>8. \A a \in S : pte[First][a] = Absent
  <2> SUFFICES ASSUME NEW a \in S, pte[First][a] # Absent
               PROVE  FALSE
    OBVIOUS
  <2>1. a \in Addrs /\ a \in Window(s)
    BY <1>4, Windows
  <2>2. a \in mine[First]
    BY <2>1 DEF Alone
  <2> QED
    BY <1>6, <2>1, <2>2 DEF Left
<1>9. Cardinality(S) = n
  <2>1. Start(s) \in Int /\ Start(s) + n - 1 \in Int /\ ~(Start(s) > Start(s) + n - 1)
    BY <1>3
  <2>2. Cardinality(S) = Start(s) + n - 1 - Start(s) + 1
    BY <2>1, FS_Interval
  <2> QED
    BY <1>3, <2>2
<1>10. /\ vma'[First][s] = SetVma(vma[First][s], s, f, n, sh, w)
       /\ \A t \in Slots \ {s} : vma'[First][t] = vma[First][t]
  BY <1>2, <1>3 DEF TypeOK
<1>11. SlotTidy(s)'
  <2> DEFINE v == vma'[First][s]
  <2>1. v.start = Start(s) /\ v.file = f /\ v.len = n /\ v.used = 0
    BY <1>10 DEF SetVma
  <2>2. f # NoFile
    BY DEF MmapAssumption
  <2> HIDE DEF v
  <2>3. SlotTidy(s)' <=>
      (/\ v.start \in {0, Start(s)}
       /\ v.file = NoFile => v.len = 0 /\ Left(s)' = {}
       /\ v.file # NoFile => v.start = Start(s) /\ v.len = Cardinality(Left(s)') /\ v.len > 0
       /\ \A a \in Left(s)' : pte'[First][a] = Absent <=> a >= Start(s) + v.used
       /\ \A a \in Left(s)' : Start(s) + v.used .. a \subseteq Left(s)'
       /\ writable' = {} =>
            \A a \in Left(s)' : pte'[First][a] # Absent => pte'[First][a][1] = a - Start(s))
    BY DEF SlotTidy, v
  <2>4. \A a \in S : a >= Start(s) + 0 /\ Start(s) + 0 .. a \subseteq S
    BY <1>3
  <2> HIDE DEF S
  <2> QED
    BY <1>2, <1>3, <1>7, <1>8, <1>9, <2>1, <2>2, <2>3, <2>4
<1>12. ASSUME NEW t \in Slots, t # s
       PROVE  SlotTidy(t)'
  <2>1. Left(t)' = Left(t)
    BY <1>4, <1>5, <1>12, OtherWindow
  <2>2. SlotTidy(t)
    BY DEF Alone
  <2> QED
    BY <1>2, <1>10, <1>12, <2>1, <2>2, OtherSlot
<1>13. \A a \in mine'[First] : \E t \in Slots : a \in Window(t)'
  <2>1. \A t \in Slots : Window(t)' = Window(t)
    BY DEF Window
  <2> QED
    BY <1>4, <1>5, <2>1 DEF Alone
<1>14. \A p \in Procs \ {First} : mine'[p] = mine[p]
  BY <1>2 DEF TypeOK
<1> QED
  BY <1>2, <1>5, <1>11, <1>12, <1>13, <1>14 DEF Alone, NoPages

\* One page of a slot changes its content; what is left stays.
LEMMA OnePage ==
    ASSUME MmapAssumption, TypeOK, Alone, NEW s \in Slots, NEW b \in Left(s), NEW c,
           pte' = [pte EXCEPT ![First][b] = c], mine' = mine, writable' = writable,
           \A t \in Slots \ {s} : vma'[First][t] = vma[First][t],
           state' = state, crashed' = crashed, fdata' = fdata, SlotTidy(s)'
    PROVE  Alone'
<1>1. First \in Procs /\ b \in mine[First] /\ b \in Window(s) /\ b \in Addrs
  BY Windows DEF Left, MmapAssumption
<1>2. \A t \in Slots : Left(t)' = Left(t) /\ Window(t)' = Window(t)
  BY DEF Left, Window
<1>3. ASSUME NEW t \in Slots, t # s
      PROVE  SlotTidy(t)'
  <2>1. b \notin Left(t)
    BY <1>1, <1>3, Windows DEF Left
  <2>2. \A a \in Left(t) : pte'[First][a] = pte[First][a]
    BY <1>1, <2>1 DEF TypeOK
  <2>3. SlotTidy(t) /\ vma'[First][t] = vma[First][t]
    BY <1>3 DEF Alone
  <2> QED
    BY <1>2, <2>2, <2>3, OtherSlot
<1>4. \A a \in Addrs : pte'[First][a] # Absent => a \in mine'[First]
  BY <1>1 DEF Alone, TypeOK
<1>5. \A p \in Procs \ {First} : pte'[p] = pte[p]
  BY DEF TypeOK
<1> QED
  BY <1>2, <1>3, <1>4, <1>5 DEF Alone, NoPages

LEMMA ContentPresent ==
    ASSUME NEW c \in Contents
    PROVE  c # Absent
BY DEF Contents, Absent

LEMMA AloneFault ==
    ASSUME MmapAssumption, TypeOK, Alone, NEW a \in Addrs, Fault(First, a)
    PROVE  Alone'
<1>1. PICK s \in Slots : a \in Left(s)
  BY AloneMine DEF Fault
<1>2. Min(Covering(First, a)) = s
  BY <1>1, AloneCovering
<1>3. PICK v : v = vma[First][s]
  OBVIOUS
<1>4. v \in Vma /\ v.file \in Files /\ v.start = Start(s) /\ v.used \in Nat
  <2>1. v \in Vma
    BY <1>1, <1>3 DEF TypeOK, MmapAssumption
  <2> QED
    BY <1>1, <1>3, <2>1, AloneCovering, RecordTypes
<1>5. PICK b : b = Start(s) + v.used
  OBVIOUS
<1>6. b \in Left(s) /\ pte[First][b] = Absent /\ b < TRAPFRAME /\ b \in Nat
  <2>1. pte[First][a] = Absent /\ a \in Nat /\ Start(s) \in Nat
    BY Windows DEF Fault
  <2>2. a >= b
    BY <1>1, <1>3, <1>5, <2>1 DEF Alone, SlotTidy
  <2>3. b \in b .. a
    BY <1>4, <1>5, <2>1, <2>2
  <2>4. b \in Left(s)
    BY <1>1, <1>3, <1>5, <2>3 DEF Alone, SlotTidy
  <2>5. pte[First][b] = Absent
    <3>1. b >= b
      BY <1>4, <1>5, <2>1
    <3> QED
      BY <1>3, <1>5, <2>4, <3>1 DEF Alone, SlotTidy
  <2>6. b \in Addrs
    BY <2>4, Windows DEF Left
  <2>7. TRAPFRAME \in Nat
    BY Products
  <2> QED
    BY <2>4, <2>5, <2>6, <2>7 DEF Addrs
<1>7. /\ pte' = [pte EXCEPT ![First][b] = PageContent(v)]
      /\ vma' = [vma EXCEPT ![First] = [vma[First] EXCEPT ![s].used = @ + 1]]
      /\ crashed' = crashed
      /\ state' = state /\ mine' = mine /\ fdata' = fdata /\ writable' = writable
  <2>1. MemoryMapping(First, vma[First], s)
    BY <1>2 DEF Fault
  <2>2. v.file # NoFile
    BY <1>4 DEF MmapAssumption
  <2>3. ~(b >= TRAPFRAME)
    <3>1. TRAPFRAME \in Nat
      BY Products
    <3> QED
      BY <1>6, <3>1
  <2>4. /\ pte' = [pte EXCEPT ![First][b] = PageContent(v)]
        /\ vma' = [vma EXCEPT ![First] = [vma[First] EXCEPT ![s].used = @ + 1]]
        /\ crashed' = crashed
    BY <1>3, <1>4, <1>5, <1>6, <2>1, <2>2, <2>3 DEF MemoryMapping
  <2> QED
    BY <2>4 DEF Fault, use
<1>8. PageContent(v) # Absent /\ (writable = {} => PageContent(v)[1] = b - Start(s))
  <2>1. b - Start(s) = v.used
    <3>1. Start(s) \in Nat
      BY Windows
    <3> QED
      BY <1>4, <1>5, <3>1
  <2>2. CASE v.used < FilePages
    <3>1. v.used \in 0 .. MaxOff
      BY <1>4, <2>2 DEF MmapAssumption
    <3>2. fdata[v.file][v.used] \in Contents
      BY <1>4, <3>1 DEF TypeOK
    <3>3. writable = {} => fdata[v.file][v.used][1] = v.used
      BY <1>4, <3>1 DEF Alone
    <3> QED
      BY <2>1, <2>2, <3>2, <3>3, ContentPresent DEF PageContent
  <2>3. CASE ~(v.used < FilePages)
    <3>1. <<v.used, "zero">> \in Contents
      BY <1>4 DEF Contents
    <3> QED
      BY <2>1, <2>3, <3>1, ContentPresent DEF PageContent
  <2> QED
    BY <2>2, <2>3
<1>9. /\ vma'[First][s] = [v EXCEPT !.used = v.used + 1]
      /\ \A t \in Slots \ {s} : vma'[First][t] = vma[First][t]
  <2>1. First \in Procs /\ vma[First] \in [Slots -> Vma]
    BY DEF TypeOK, MmapAssumption
  <2>2. vma'[First] = [vma[First] EXCEPT ![s].used = @ + 1]
    BY <1>7, <2>1 DEF TypeOK
  <2>3. [vma[First] EXCEPT ![s].used = @ + 1] = [vma[First] EXCEPT ![s] = [v EXCEPT !.used = v.used + 1]]
    BY <1>3, <1>4, <2>1 DEF Vma
  <2> QED
    BY <2>1, <2>2, <2>3
<1>10. /\ vma'[First][s].file = v.file /\ vma'[First][s].len = v.len
       /\ vma'[First][s].start = v.start /\ vma'[First][s].used = v.used + 1
  BY <1>4, <1>9 DEF Vma
<1>11. SlotTidy(s)'
  <2> DEFINE u == vma'[First][s]
             L == Left(s)
  <2>1. /\ v.start \in {0, Start(s)}
        /\ v.file = NoFile => v.len = 0 /\ L = {}
        /\ v.file # NoFile => v.start = Start(s) /\ v.len = Cardinality(L) /\ v.len > 0
        /\ \A x \in L : pte[First][x] = Absent <=> x >= Start(s) + v.used
        /\ \A x \in L : Start(s) + v.used .. x \subseteq L
        /\ writable = {} =>
             \A x \in L : pte[First][x] # Absent => pte[First][x][1] = x - Start(s)
    BY <1>3 DEF Alone, SlotTidy
  <2>2. L' = L
    BY <1>7 DEF Left, Window
  <2>3. SlotTidy(s)' <=>
      (/\ u.start \in {0, Start(s)}
       /\ u.file = NoFile => u.len = 0 /\ L' = {}
       /\ u.file # NoFile => u.start = Start(s) /\ u.len = Cardinality(L') /\ u.len > 0
       /\ \A x \in L' : pte'[First][x] = Absent <=> x >= Start(s) + u.used
       /\ \A x \in L' : Start(s) + u.used .. x \subseteq L'
       /\ writable' = {} =>
            \A x \in L' : pte'[First][x] # Absent => pte'[First][x][1] = x - Start(s))
    BY DEF SlotTidy
  <2>4. u.file = v.file /\ u.len = v.len /\ u.start = v.start /\ u.used = v.used + 1
    BY <1>10
  <2>5. /\ pte'[First][b] = PageContent(v)
        /\ \A x \in L \ {b} : pte'[First][x] = pte[First][x]
    <3>1. b \in Addrs /\ First \in Procs
      BY <1>6, Windows DEF Left, MmapAssumption
    <3> QED
      BY <1>7, <3>1 DEF TypeOK
  <2>6. Start(s) \in Nat /\ \A x \in L : x \in Nat
    BY Windows DEF Left
  <2> HIDE DEF u, L
  <2>7. \A x \in L : pte'[First][x] = Absent <=> x >= Start(s) + (v.used + 1)
    BY <1>4, <1>5, <1>8, <2>1, <2>5, <2>6
  <2>8. \A x \in L : Start(s) + (v.used + 1) .. x \subseteq L
    <3> SUFFICES ASSUME NEW x \in L, NEW y \in Start(s) + (v.used + 1) .. x
                 PROVE  y \in L
      OBVIOUS
    <3>1. y \in Start(s) + v.used .. x
      BY <1>4, <2>6
    <3> QED
      BY <2>1, <3>1
  <2>9. writable' = {} =>
            \A x \in L : pte'[First][x] # Absent => pte'[First][x][1] = x - Start(s)
    BY <1>7, <1>8, <2>1, <2>5
  <2> QED
    BY <2>1, <2>2, <2>3, <2>4, <2>7, <2>8, <2>9
<1> QED
  BY <1>6, <1>7, <1>9, <1>11, OnePage

LEMMA AloneStore ==
    ASSUME MmapAssumption, TypeOK, Alone, NEW a \in Addrs, Store(First, a)
    PROVE  Alone'
<1>1. PICK s \in Slots : a \in Left(s)
  BY AloneMine DEF Store
<1>2. Min(Covering(First, a)) = s /\ vma[First][s].start = Start(s)
  BY <1>1, AloneCovering
<1>3. /\ pte' = [pte EXCEPT ![First][a] = <<a - Start(s), "new">>]
      /\ vma' = vma /\ crashed' = crashed /\ state' = state /\ mine' = mine /\ fdata' = fdata
      /\ writable' = writable /\ pte[First][a] # Absent
  BY <1>2 DEF Store, use
<1>4. <<a - Start(s), "new">> # Absent
  <2>1. <<a - Start(s), "new">> \in Contents
    BY Windows DEF Contents
  <2> QED
    BY <2>1, ContentPresent
<1>5. SlotTidy(s)'
  <2> DEFINE v == vma[First][s]
             L == Left(s)
  <2>1. /\ v.start \in {0, Start(s)}
        /\ v.file = NoFile => v.len = 0 /\ L = {}
        /\ v.file # NoFile => v.start = Start(s) /\ v.len = Cardinality(L) /\ v.len > 0
        /\ \A x \in L : pte[First][x] = Absent <=> x >= Start(s) + v.used
        /\ \A x \in L : Start(s) + v.used .. x \subseteq L
        /\ writable = {} =>
             \A x \in L : pte[First][x] # Absent => pte[First][x][1] = x - Start(s)
    BY DEF Alone, SlotTidy
  <2>2. L' = L /\ v' = v
    BY <1>3 DEF Left, Window
  <2>3. SlotTidy(s)' <=>
      (/\ v'.start \in {0, Start(s)}
       /\ v'.file = NoFile => v'.len = 0 /\ L' = {}
       /\ v'.file # NoFile => v'.start = Start(s) /\ v'.len = Cardinality(L') /\ v'.len > 0
       /\ \A x \in L' : pte'[First][x] = Absent <=> x >= Start(s) + v'.used
       /\ \A x \in L' : Start(s) + v'.used .. x \subseteq L'
       /\ writable' = {} =>
            \A x \in L' : pte'[First][x] # Absent => pte'[First][x][1] = x - Start(s))
    BY DEF SlotTidy
  <2>4. /\ pte'[First][a] = <<a - Start(s), "new">>
        /\ \A x \in L \ {a} : pte'[First][x] = pte[First][x]
    <3>1. First \in Procs
      BY DEF MmapAssumption
    <3> QED
      BY <1>3, <3>1 DEF TypeOK
  <2> HIDE DEF v, L
  <2>5. \A x \in L : pte'[First][x] = Absent <=> pte[First][x] = Absent
    BY <1>3, <1>4, <2>4
  <2>6. <<a - Start(s), "new">>[1] = a - Start(s)
    OBVIOUS
  <2>7. writable' = {} =>
            \A x \in L : pte'[First][x] # Absent => pte'[First][x][1] = x - Start(s)
    BY <1>3, <2>1, <2>4, <2>6
  <2> QED
    BY <2>1, <2>2, <2>3, <2>5, <2>7
<1> QED
  BY <1>1, <1>3, <1>5, OnePage

\* What a call of munmap() leaves of the mapping.
LEMMA LeftOver ==
    ASSUME MmapAssumption, TypeOK, Alone, habits = {}, NEW a \in Addrs, NEW n \in 1 .. MaxPages,
           Unmaps(First, a .. a + n - 1)
    PROVE  \E s \in Slots :
             /\ a .. a + n - 1 \subseteq Left(s) /\ a \in Left(s)
             /\ \A b \in a .. a + n - 1 : pte[First][b] # Absent
             /\ Cardinality(Left(s) \ (a .. a + n - 1)) = vma[First][s].len - n
             /\ vma[First][s].len - n >= 0
             /\ vma[First][s].len - n = 0 => Left(s) \ (a .. a + n - 1) = {}
<1> DEFINE S == a .. a + n - 1
<1>1. a \in Nat /\ n \in Nat /\ n >= 1
  BY Windows DEF MmapAssumption
<1>2. /\ S \subseteq mine[First] /\ Present(First, S) = S
      /\ \E t \in Slots : S \subseteq Start(t) .. Start(t) + W - 1
  BY DEF Unmaps
<1>3. PICK s \in Slots : S \subseteq Window(s)
  BY <1>2 DEF Window
<1>4. S \subseteq Left(s) /\ a \in Left(s)
  <2>1. a \in S
    BY <1>1
  <2> QED
    BY <1>2, <1>3, <2>1 DEF Left
<1>5. \A b \in S : pte[First][b] # Absent
  BY <1>2 DEF Present
<1>6. Cardinality(S) = n
  <2>1. a \in Int /\ a + n - 1 \in Int /\ ~(a > a + n - 1)
    BY <1>1
  <2>2. Cardinality(S) = a + n - 1 - a + 1
    BY <2>1, FS_Interval
  <2> QED
    BY <1>1, <2>2
<1>7. IsFiniteSet(Left(s)) /\ vma[First][s].len = Cardinality(Left(s))
  <2>1. Start(s) \in Int /\ Start(s) + W - 1 \in Int
    BY Windows DEF MmapAssumption
  <2>2. IsFiniteSet(Window(s))
    BY <2>1, FS_Interval DEF Window
  <2>3. vma[First][s].file # NoFile
    BY <1>4, AloneCovering
  <2> QED
    BY <2>2, <2>3, FS_Subset DEF Left, Alone, SlotTidy
<1> HIDE DEF S
<1>8. IsFiniteSet(Left(s) \ S) /\ Cardinality(Left(s) \ S) = Cardinality(Left(s)) - Cardinality(S)
  <2>1. Left(s) \cap S = S
    BY <1>4
  <2>2. IsFiniteSet(S)
    BY <1>4, <1>7, FS_Subset
  <2>3. /\ IsFiniteSet(Left(s) \ S)
        /\ Cardinality(Left(s) \ S) = Cardinality(Left(s)) - Cardinality(Left(s) \cap S)
    BY <1>7, <2>2, FS_Difference
  <2> QED
    BY <2>1, <2>3
<1>9. Cardinality(Left(s) \ S) \in Nat /\ (Cardinality(Left(s) \ S) = 0 => Left(s) \ S = {})
  BY <1>8, FS_CardinalityType, FS_EmptySet
<1>10. /\ Cardinality(Left(s) \ S) = vma[First][s].len - n
       /\ vma[First][s].len - n >= 0
       /\ vma[First][s].len - n = 0 => Left(s) \ S = {}
  BY <1>6, <1>7, <1>8, <1>9
<1> QED
  BY <1>4, <1>5, <1>10 DEF S

LEMMA AloneMunmap ==
    ASSUME MmapAssumption, TypeOK, Alone, habits = {}, NEW a \in Addrs, NEW n \in 1 .. MaxPages,
           Munmap(First, a, n)
    PROVE  Alone'
<1> DEFINE S == a .. a + n - 1
<1>1. PICK s \in Slots :
             /\ S \subseteq Left(s) /\ a \in Left(s)
             /\ \A b \in S : pte[First][b] # Absent
             /\ Cardinality(Left(s) \ S) = vma[First][s].len - n
             /\ vma[First][s].len - n >= 0
             /\ vma[First][s].len - n = 0 => Left(s) \ S = {}
  BY LeftOver DEF Munmap
<1>2. /\ Covering(First, a) = {s} /\ Min(Covering(First, a)) = s
      /\ vma[First][s].file # NoFile /\ vma[First][s].start = Start(s)
  BY <1>1, AloneCovering
<1>3. PICK v \in Vma : v = vma[First][s]
  BY DEF TypeOK, MmapAssumption
<1>4. /\ WriteBack(First, v.file, S)
      /\ pte' = Uvmunmap(First, S)
      /\ vma' = [vma EXCEPT ![First][s] = Unmapped(@, n)]
      /\ mine' = [mine EXCEPT ![First] = @ \ S]
      /\ state' = state /\ crashed' = crashed /\ writable' = writable
  BY <1>2, <1>3 DEF Munmap, use
<1>5. First \in Procs /\ n \in Int /\ S \subseteq Addrs
  BY <1>1, Windows DEF Left, MmapAssumption
<1> HIDE DEF S
<1>6. mine'[First] = mine[First] \ S /\ \A p \in Procs \ {First} : mine'[p] = mine[p]
  BY <1>4, <1>5 DEF TypeOK
<1>7. /\ \A b \in S : pte'[First][b] = Absent
      /\ \A b \in Addrs \ S : pte'[First][b] = pte[First][b]
      /\ \A p \in Procs \ {First} : pte'[p] = pte[p]
  BY <1>4, <1>5 DEF Uvmunmap, TypeOK
<1>8. /\ vma'[First][s] = Unmapped(v, n)
      /\ \A t \in Slots \ {s} : vma'[First][t] = vma[First][t]
  BY <1>3, <1>4, <1>5 DEF TypeOK
<1>9. \A t \in Slots : Window(t)' = Window(t)
  BY DEF Window
<1>10. Left(s)' = Left(s) \ S
  <2>1. Left(s)' = mine'[First] \cap Window(s)
    BY <1>9 DEF Left
  <2> QED
    BY <1>6, <2>1 DEF Left
<1>11. \A b \in Left(s) \ S : pte'[First][b] = pte[First][b]
  <2>1. Left(s) \subseteq Addrs
    BY Windows DEF Left
  <2> QED
    BY <1>7, <2>1
<1>12. writable = {} => fdata' = fdata
  BY <1>4 DEF WriteBack
<1>13. SlotTidy(s)'
  <2> DEFINE u == vma'[First][s]
             L == Left(s)
  <2>1. /\ v.file # NoFile /\ v.start = Start(s)
        /\ \A x \in L : pte[First][x] = Absent <=> x >= Start(s) + v.used
        /\ \A x \in L : Start(s) + v.used .. x \subseteq L
        /\ writable = {} =>
             \A x \in L : pte[First][x] # Absent => pte[First][x][1] = x - Start(s)
    BY <1>2, <1>3 DEF Alone, SlotTidy
  <2>2. SlotTidy(s)' <=>
      (/\ u.start \in {0, Start(s)}
       /\ u.file = NoFile => u.len = 0 /\ L' = {}
       /\ u.file # NoFile => u.start = Start(s) /\ u.len = Cardinality(L') /\ u.len > 0
       /\ \A x \in L' : pte'[First][x] = Absent <=> x >= Start(s) + u.used
       /\ \A x \in L' : Start(s) + u.used .. x \subseteq L'
       /\ writable' = {} =>
            \A x \in L' : pte'[First][x] # Absent => pte'[First][x][1] = x - Start(s))
    BY DEF SlotTidy
  <2>3. /\ u.start = v.start /\ u.used = v.used
        /\ v.len - n =< 0 => u.file = NoFile /\ u.len = 0
        /\ ~(v.len - n =< 0) => u.file = v.file /\ u.len = v.len - n
    BY <1>8 DEF Unmapped, Vma
  <2>4. /\ Cardinality(L \ S) = v.len - n /\ v.len - n >= 0
        /\ v.len - n = 0 => L \ S = {}
        /\ v.len \in Int /\ n \in Int
    BY <1>1, <1>3, <1>5, RecordTypes
  <2>5. Start(s) \in Nat /\ v.used \in Nat /\ \A x \in L : x \in Nat
    BY <1>3, Windows, RecordTypes DEF Left
  <2>6. \A b \in S : b \in L /\ pte[First][b] # Absent
    BY <1>1
  <2>7. L' = L \ S
    BY <1>10
  <2> HIDE DEF u, L
  <2>8. \A x \in L \ S : Start(s) + v.used .. x \subseteq L \ S
    <3> SUFFICES ASSUME NEW x \in L \ S, NEW y \in Start(s) + v.used .. x
                 PROVE  y \in L /\ y \notin S
      OBVIOUS
    <3>1. y \in L
      BY <2>1
    <3>2. y >= Start(s) + v.used
      BY <2>5
    <3>3. pte[First][y] = Absent
      BY <2>1, <3>1, <3>2
    <3> QED
      BY <2>6, <3>1, <3>3
  <2>9. \A x \in L \ S : pte'[First][x] = pte[First][x]
    BY <1>11 DEF L
  <2>10. u.file = NoFile => u.len = 0 /\ L \ S = {}
    BY <2>1, <2>3, <2>4
  <2>11. u.file # NoFile => u.len = Cardinality(L \ S) /\ u.len > 0
    BY <2>3, <2>4
  <2> QED
    BY <1>4, <2>1, <2>2, <2>3, <2>7, <2>8, <2>9, <2>10, <2>11
<1>14. ASSUME NEW t \in Slots, t # s
       PROVE  SlotTidy(t)'
  <2>1. S \subseteq Window(s)
    BY <1>1 DEF Left
  <2>2. Left(t)' = Left(t)
    BY <1>6, <1>14, <2>1, OtherWindow
  <2>3. \A b \in Left(t) : b \in Addrs /\ b \notin S
    BY <1>14, <2>1, Windows DEF Left
  <2>4. SlotTidy(t)
    BY DEF Alone
  <2> QED
    BY <1>4, <1>7, <1>8, <1>14, <2>2, <2>3, <2>4, OtherSlot
<1>15. \A b \in Addrs : pte'[First][b] # Absent => b \in mine'[First]
  BY <1>6, <1>7 DEF Alone
<1>16. \A b \in mine'[First] : \E t \in Slots : b \in Window(t)'
  BY <1>6, <1>9 DEF Alone
<1> QED
  BY <1>4, <1>6, <1>7, <1>12, <1>13, <1>14, <1>15, <1>16 DEF Alone, NoPages

LEMMA AloneNext ==
    ASSUME MmapAssumption, TypeOK, habits = {}, Alone, [MmapNext]_mmapVars
    PROVE  Alone'
<1>1. ASSUME UNCHANGED <<state, pte, vma, mine, fdata, writable, crashed>>
      PROVE  Alone'
  <2>1. \A s \in Slots : SlotTidy(s)' = SlotTidy(s) /\ Window(s)' = Window(s)
    BY <1>1 DEF SlotTidy, Left, Window
  <2> QED
    BY <1>1, <2>1 DEF Alone, NoPages
<1>2. CASE UNCHANGED mmapVars
  BY <1>1, <1>2 DEF mmapVars, use
<1>3. ASSUME NEW p \in Procs, NEW f \in Files, MmapFull(p, f)
      PROVE  FALSE
  BY <1>3 DEF MmapFull
<1>4. ASSUME NEW p \in Procs, NEW f \in Files, MmapDenied(p, f) \/ Close(p, f)
      PROVE  Alone'
  BY <1>1, <1>4 DEF MmapDenied, Close, use
<1>5. ASSUME NEW p \in Procs, NEW f \in Files, NEW n \in 1 .. MaxPages, NEW sh \in BOOLEAN,
             NEW w \in BOOLEAN, MmapFile(p, f, n, sh, w)
      PROVE  Alone'
  <2>1. p = First
    BY <1>5, AloneRunning DEF MmapFile
  <2> QED
    BY <1>5, <2>1, AloneMmap
<1>6. ASSUME NEW p \in Procs, NEW a \in Addrs, Fault(p, a) \/ Store(p, a)
      PROVE  Alone'
  <2>1. p = First
    BY <1>6, AloneRunning DEF Fault, Store
  <2> QED
    BY <1>6, <2>1, AloneFault, AloneStore
<1>7. ASSUME NEW p \in Procs, NEW a \in Addrs, FaultSleeps(p, a)
      PROVE  FALSE
  BY <1>7 DEF FaultSleeps
<1>8. ASSUME NEW p \in Procs, NEW a \in Addrs,
             LazyCopy(p, a) \/ LazyCopyNoMemory(p, a) \/ LazyCopyNull(p, a)
      PROVE  FALSE
  <2>1. Inherits(p, a)
    BY <1>8 DEF LazyCopy, LazyCopyNoMemory, LazyCopyNull
  <2>2. p = First
    BY <2>1, AloneRunning DEF Inherits
  <2>3. a \in mine[First] /\ Covering(First, a) = {}
    BY <2>1, <2>2 DEF Inherits
  <2>4. PICK s \in Slots : a \in Left(s)
    BY <2>3, AloneMine
  <2> QED
    BY <2>3, <2>4, AloneCovering
<1>9. ASSUME NEW p \in Procs, NEW a \in Addrs, NEW n \in 1 .. MaxPages, Munmap(p, a, n)
      PROVE  Alone'
  <2>1. p = First
    BY <1>9, AloneRunning DEF Munmap, Unmaps
  <2> QED
    BY <1>9, <2>1, AloneMunmap
<1>10. ASSUME NEW p \in Procs, NEW a \in Addrs, NEW n \in 1 .. MaxPages, MunmapNull(p, a, n)
       PROVE  FALSE
  <2>1. p = First
    BY <1>10, AloneRunning DEF MunmapNull, Unmaps
  <2>2. PICK s \in Slots : a \in Left(s)
    BY <1>10, <2>1, LeftOver DEF MunmapNull
  <2>3. Min(Covering(First, a)) = s /\ vma[First][s].file # NoFile
    BY <2>2, AloneCovering
  <2> QED
    BY <1>10, <2>1, <2>3 DEF MunmapNull
<1>11. ASSUME NEW p \in Procs, NEW c \in Procs, Fork(p, c)
       PROVE  FALSE
  BY <1>11 DEF Fork
<1>12. ASSUME NEW p \in Procs, Exit(p)
       PROVE  FALSE
  <2>1. p = First
    BY <1>12, AloneRunning DEF Exit
  <2> QED
    BY <1>12, <2>1 DEF Exit
<1>13. ASSUME NEW p \in Procs, Wait(p)
       PROVE  FALSE
  <2>1. state[p] = "zombie"
    BY <1>13 DEF Wait
  <2>2. state[p] = "unused" \/ state[p] = "running"
    BY DEF Alone
  <2> QED
    BY <2>1, <2>2
<1> QED
  BY <1>2, <1>3, <1>4, <1>5, <1>6, <1>7, <1>8, <1>9, <1>10, <1>11, <1>12, <1>13 DEF MmapNext

LEMMA HabitsStay ==
    ASSUME [MmapNext]_mmapVars
    PROVE  habits' = habits
<1>1. Crash => habits' = habits
  BY DEF Crash, use
<1>2. \A p : /\ \A f, n, sh, w : MmapFile(p, f, n, sh, w) => habits' = habits
             /\ \A f : MmapDenied(p, f) \/ Close(p, f) => habits' = habits
             /\ \A f : MmapFull(p, f) => habits' = habits
  BY <1>1 DEF MmapFile, MmapDenied, Close, MmapFull, use
<1>3. \A p : /\ \A a : Fault(p, a) \/ LazyCopy(p, a) \/ LazyCopyNoMemory(p, a) => habits' = habits
             /\ \A a : Store(p, a) => habits' = habits
             /\ \A a : FaultSleeps(p, a) \/ LazyCopyNull(p, a) => habits' = habits
  BY <1>1 DEF Fault, LazyCopy, LazyCopyNoMemory, Store, FaultSleeps, LazyCopyNull, use
<1>4. \A p, a, n : Munmap(p, a, n) \/ MunmapNull(p, a, n) => habits' = habits
  BY <1>1 DEF Munmap, MunmapNull, use
<1>5. \A p : /\ \A c : Fork(p, c) => habits' = habits
             /\ Exit(p) \/ Wait(p) => habits' = habits
  BY <1>1 DEF Fork, Exit, Wait, use
<1>6. UNCHANGED mmapVars => habits' = habits
  BY DEF mmapVars, use
<1> QED
  BY <1>2, <1>3, <1>4, <1>5, <1>6 DEF MmapNext

LEMMA AlonePlaces ==
    ASSUME MmapAssumption, Inv
    PROVE  PageInPlace
<1> SUFFICES ASSUME habits = {}
             PROVE  NothingLeft /\ KernelSurvives /\ (writable = {} => InPlace)
  BY DEF PageInPlace
<1>1. TypeOK /\ Alone
  BY DEF Inv
<1>2. NothingLeft
  <2> SUFFICES ASSUME NEW p \in Procs, NEW a \in Addrs, pte[p][a] # Absent
               PROVE  a \in mine[p]
    BY DEF NothingLeft
  <2>1. CASE p = First
    BY <1>1, <2>1 DEF Alone
  <2>2. CASE p # First
    BY <1>1, <2>2 DEF Alone, NoPages
  <2> QED
    BY <2>1, <2>2
<1>3. KernelSurvives
  BY <1>1 DEF Alone, KernelSurvives
<1>4. ASSUME writable = {}
      PROVE  InPlace
  <2> SUFFICES ASSUME NEW p \in Procs, NEW a \in mine[p], pte[p][a] # Absent
               PROVE  pte[p][a][1] = a - vma[p][Min(Covering(p, a))].start
    BY DEF InPlace
  <2>1. p = First
    BY <1>1 DEF Alone
  <2>2. PICK s \in Slots : a \in Left(s)
    BY <1>1, <2>1, AloneMine
  <2>3. Min(Covering(First, a)) = s /\ vma[First][s].start = Start(s)
    BY <1>1, <2>2, AloneCovering
  <2>4. pte[First][a][1] = a - Start(s)
    BY <1>1, <1>4, <2>1, <2>2 DEF Alone, SlotTidy
  <2> QED
    BY <2>1, <2>3, <2>4
<1> QED
  BY <1>2, <1>3, <1>4

\* For a process of no habits the kernel does not go down, munmap() leaves no
\* page behind, and every page memory_mapping() fills from a file opened for
\* reading is the one that belongs at its address.
THEOREM PagesInPlace == ASSUME MmapAssumption PROVE MmapSpec => []PageInPlace
<1>1. MmapInit => Inv
  BY MmapInitTypes, AloneInit DEF Inv
<1>2. Inv /\ [MmapNext]_mmapVars => Inv'
  <2> SUFFICES ASSUME Inv, [MmapNext]_mmapVars
               PROVE  Inv'
    OBVIOUS
  <2>1. TypeOK'
    BY TypesStep DEF Inv
  <2>2. habits' = habits
    BY HabitsStay
  <2>3. habits = {} => Alone'
    BY AloneNext DEF Inv
  <2> QED
    BY <2>1, <2>2, <2>3 DEF Inv
<1>3. Inv => PageInPlace
  BY AlonePlaces
<1> QED
  BY <1>1, <1>2, <1>3, PTL DEF MmapSpec
=============================================================================
