---------------------------- MODULE NumberFacts ----------------------------
(***************************************************************************)
(* Facts about numbers that the proofs about rings and tables need: the    *)
(* provers do not reason about remainders, so what is needed of them is    *)
(* derived from the quotient.                                              *)
(***************************************************************************)
EXTENDS Integers, FiniteSetTheorems, WellFoundedInduction, TLAPS

-----------------------------------------------------------------------------
(* Remainders *)

LEMMA ModCases ==
    ASSUME NEW m \in Nat \ {0}, NEW x \in Int
    PROVE  /\ (x % m) \in 0 .. m - 1
           /\ x \in 0 .. m - 1 => (x % m) = x
           /\ x \in m .. m + m - 1 => (x % m) = x - m
           /\ x \in -m .. -1 => (x % m) = x + m
OBVIOUS

LEMMA ModDef ==
    ASSUME NEW m \in Nat \ {0}, NEW x \in Int
    PROVE  \E q \in Int : x = m * q + (x % m)
<1>1. x \div m \in Int /\ x = m * (x \div m) + (x % m)
  OBVIOUS
<1> QED
  BY <1>1

LEMMA Scale ==
    ASSUME NEW m \in Nat \ {0}, NEW a \in Int, NEW b \in Int, a > b
    PROVE  m * a >= m * b + m
<1>1. PICK d \in Nat : a = b + 1 + d
  <2>1. a - b - 1 \in Nat /\ a = b + 1 + (a - b - 1)
    OBVIOUS
  <2> QED
    BY <2>1
<1>2. m * (b + 1 + d) = m * b + m + m * d
  OBVIOUS
<1>3. m * d >= 0 /\ m * d \in Int /\ m * b \in Int
  OBVIOUS
<1> QED
  BY <1>1, <1>2, <1>3

LEMMA ModUnique ==
    ASSUME NEW m \in Nat \ {0}, NEW x \in Int, NEW q \in Int, NEW t \in 0 .. m - 1, x = m * q + t
    PROVE  x % m = t
<1>1. PICK p \in Int : x = m * p + (x % m)
  BY ModDef
<1>2. x % m \in 0 .. m - 1
  OBVIOUS
<1>3. p > q => m * p >= m * q + m
  BY Scale
<1>4. q > p => m * q >= m * p + m
  BY Scale
<1>5. m * p \in Int /\ m * q \in Int
  OBVIOUS
<1>6. p = q
  BY <1>1, <1>2, <1>3, <1>4, <1>5
<1> QED
  BY <1>1, <1>2, <1>5, <1>6

LEMMA ModShift ==
    ASSUME NEW m \in Nat \ {0}, NEW k \in Int, k % m = 0, NEW x \in Int
    PROVE  (x - k) % m = x % m
<1>1. PICK q \in Int : x = m * q + (x % m)
  BY ModDef
<1>2. PICK p \in Int : k = m * p + (k % m)
  BY ModDef
<1>3. m * (q - p) = m * q - m * p /\ m * q \in Int /\ m * p \in Int /\ q - p \in Int
  OBVIOUS
<1>4. x % m \in 0 .. m - 1
  OBVIOUS
<1>5. x - k = m * (q - p) + (x % m)
  BY <1>1, <1>2, <1>3, <1>4
<1>6. \A y \in Int, d \in Int, t \in 0 .. m - 1 : y = m * d + t => y % m = t
  BY ModUnique
<1> QED
  BY ONLY <1>3, <1>4, <1>5, <1>6, x - k \in Int

LEMMA ModDistinct ==
    ASSUME NEW m \in Nat \ {0}, NEW x \in Int, NEW y \in x .. x + m - 1, x % m = y % m
    PROVE  x = y
<1>1. PICK q \in Int : x = m * q + (x % m)
  BY ModDef
<1> y \in Int
  OBVIOUS
<1>2. PICK p \in Int : y = m * p + (y % m)
  BY ModDef
<1>3. p > q => m * p >= m * q + m
  BY Scale
<1>4. q > p => m * q >= m * p + m
  BY Scale
<1>5. m * p \in Int /\ m * q \in Int /\ x % m \in 0 .. m - 1
  OBVIOUS
<1> QED
  BY <1>1, <1>2, <1>3, <1>4, <1>5

-----------------------------------------------------------------------------
(* Counters modulo m that index the cells of a ring of n cells *)

\* Advancing the head b by k makes b - a, in unsigned arithmetic, larger by k.
LEMMA Forward ==
    ASSUME NEW m \in Nat \ {0}, NEW a \in 0 .. m - 1, NEW b \in 0 .. m - 1,
           NEW k \in Nat, ((b - a) % m) + k < m
    PROVE  /\ ((b + k) % m) \in 0 .. m - 1
           /\ (((b + k) % m) - a) % m = ((b - a) % m) + k
<1> b - a \in Int /\ b + k \in Int
  OBVIOUS
<1>m. \A x \in Int : /\ x \in 0 .. m - 1 => (x % m) = x
                     /\ x \in m .. m + m - 1 => (x % m) = x - m
                     /\ x \in -m .. -1 => (x % m) = x + m
  BY ModCases
<1>1. ((b - a) % m) = IF b >= a THEN b - a ELSE b - a + m
  BY <1>m
<1>2. ((b + k) % m) = IF b + k < m THEN b + k ELSE b + k - m
  BY <1>1, <1>m
<1>3. (((b + k) % m) - a) \in Int
  BY <1>2
<1> QED
  BY <1>1, <1>2, <1>3, <1>m

\* Advancing the tail a by k makes it smaller by k.
LEMMA Backward ==
    ASSUME NEW m \in Nat \ {0}, NEW a \in 0 .. m - 1, NEW b \in 0 .. m - 1,
           NEW k \in Nat, k =< ((b - a) % m)
    PROVE  /\ ((a + k) % m) \in 0 .. m - 1
           /\ (b - ((a + k) % m)) % m = ((b - a) % m) - k
<1> b - a \in Int /\ a + k \in Int
  OBVIOUS
<1>m. \A x \in Int : /\ x \in 0 .. m - 1 => (x % m) = x
                     /\ x \in m .. m + m - 1 => (x % m) = x - m
                     /\ x \in -m .. -1 => (x % m) = x + m
  BY ModCases
<1>1. ((b - a) % m) = IF b >= a THEN b - a ELSE b - a + m
  BY <1>m
<1>2. ((a + k) % m) = IF a + k < m THEN a + k ELSE a + k - m
  BY <1>1, <1>m
<1>3. (b - ((a + k) % m)) \in Int
  BY <1>2
<1> QED
  BY <1>1, <1>2, <1>3, <1>m

\* The head is the tail advanced by their difference.
LEMMA Ahead ==
    ASSUME NEW m \in Nat \ {0}, NEW a \in 0 .. m - 1, NEW b \in 0 .. m - 1
    PROVE  b = (a + ((b - a) % m)) % m
<1>1. \A x \in Int : /\ x \in 0 .. m - 1 => (x % m) = x
                     /\ x \in m .. m + m - 1 => (x % m) = x - m
                     /\ x \in -m .. -1 => (x % m) = x + m
  BY ModCases
<1>2. PICK d \in Int, x \in Int, N \in Int : d = b - a /\ N = d % m /\ x = a + N
  OBVIOUS
<1>4. CASE b >= a
  <2>1. d \in 0 .. m - 1
    BY <1>2, <1>4
  <2>2. N = d
    BY <1>1, <1>2, <2>1
  <2>3. x = b /\ x \in 0 .. m - 1
    BY <1>2, <2>2
  <2> QED
    BY <1>1, <1>2, <2>3
<1>5. CASE b < a
  <2>1. d \in -m .. -1
    BY <1>2, <1>5
  <2>2. N = d + m
    BY <1>1, <1>2, <2>1
  <2>3. x - m = b /\ x \in m .. m + m - 1
    BY <1>2, <2>2
  <2> QED
    BY <1>1, <1>2, <2>3
<1> QED
  BY <1>4, <1>5

\* A counter that wraps names the same cell as one that does not, because m
\* is a multiple of n.
LEMMA SameCell ==
    ASSUME NEW m \in Nat \ {0}, NEW n \in Nat \ {0}, (m % n) = 0
    PROVE  \A a, k \in 0 .. m - 1 : \A j \in Int :
             (((a + k) % m) + j) % n = (a + k + j) % n
<1> TAKE a, k \in 0 .. m - 1
<1> TAKE j \in Int
<1> a + k \in Int /\ a + k + j \in Int
  OBVIOUS
<1>m. \A x \in Int : /\ x \in 0 .. m - 1 => (x % m) = x
                     /\ x \in m .. m + m - 1 => (x % m) = x - m
                     /\ x \in -m .. -1 => (x % m) = x + m
  BY ModCases
<1>1. CASE a + k < m
  <2>1. ((a + k) % m) = a + k
    BY <1>1, <1>m
  <2> QED
    BY <2>1
<1>2. CASE a + k >= m
  <2>1. ((a + k) % m) = a + k - m
    BY <1>2, <1>m
  <2>2. ((a + k) % m) + j = a + k + j - m
    BY <2>1
  <2>3. PICK x \in Int : x = a + k + j
    OBVIOUS
  <2>4. m \in Int
    OBVIOUS
  <2>5. (x - m) % n = x % n
    BY <2>4, ModShift
  <2> QED
    BY <2>2, <2>3, <2>5
<1> QED
  BY <1>1, <1>2

-----------------------------------------------------------------------------
(* Finite sets of numbers *)

\* A non-empty finite set of naturals has a least element: from the
\* well-foundedness of strict inclusion, as for any finite set.
LEMMA Least ==
    ASSUME NEW S \in SUBSET Nat, S # {}, IsFiniteSet(S)
    PROVE  \E n \in S : \A m \in S : n =< m
<1> DEFINE Below(n) == {m \in S : m < n}
           T == {Below(n) : n \in S}
<1>1. \A m \in S : m \in Nat
  OBVIOUS
<1>2. T \subseteq FiniteSubsetsOf(S)
  BY FS_Subset DEF FiniteSubsetsOf
<1>3. T # {}
  OBVIOUS
<1>4. IsWellFoundedOn(StrictSubsetOrdering(S), FiniteSubsetsOf(S))
  BY FS_StrictSubsetOrderingWellFounded
<1> HIDE DEF T
<1>5. PICK U \in T : \A V \in T : <<V, U>> \notin StrictSubsetOrdering(S)
  BY <1>2, <1>3, <1>4, WFMin
<1> USE DEF T
<1>6. PICK n \in S : U = Below(n)
  BY <1>5
<1>7. Below(n) = {}
  <2> SUFFICES ASSUME NEW m \in S, m < n
               PROVE  FALSE
    OBVIOUS
  <2>1. Below(m) \in T
    OBVIOUS
  <2>2. m \in Below(n) /\ m \notin Below(m)
    <3>1. m \in Nat /\ ~(m < m)
      BY <1>1
    <3> QED
      BY <3>1
  <2>3. Below(m) \subseteq Below(n)
    <3>1. \A k \in S : k < m => k < n
      BY <1>1
    <3> QED
      BY <3>1
  <2>4. <<Below(m), U>> \in StrictSubsetOrdering(S)
    BY <1>6, <2>2, <2>3 DEF StrictSubsetOrdering
  <2> QED
    BY <1>5, <2>1, <2>4
<1>8. \A m \in S : n =< m
  BY <1>1, <1>7
<1> QED
  BY <1>8

=============================================================================
