----------------------------- MODULE PipeProofs -----------------------------
(***************************************************************************)
(* Proofs about the pipe (module Pipe), for every ring size, every width   *)
(* of the counters that is a multiple of it, and any number of processes.  *)
(***************************************************************************)
EXTENDS Pipe, NumberFacts, SequenceTheorems, TLAPS

\* SameCell for the pipe's ring.
LEMMA PipeCell ==
    ASSUME PipeAssumption
    PROVE  \A a, k \in 0 .. MOD - 1 : \A j \in Int :
             (((a + k) % MOD) + j) % PIPESIZE = (a + k + j) % PIPESIZE
<1>1. MOD \in Nat \ {0} /\ PIPESIZE \in Nat \ {0} /\ (MOD % PIPESIZE) = 0
  BY DEF PipeAssumption
<1>2. \A m, n \in Nat \ {0} : (m % n) = 0 =>
        \A a, k \in 0 .. m - 1 : \A j \in Int :
          (((a + k) % m) + j) % n = (a + k + j) % n
  BY SameCell
<1>3. \A n \in Nat \ {0} : (MOD % n) = 0 =>
        \A a, k \in 0 .. MOD - 1 : \A j \in Int :
          (((a + k) % MOD) + j) % n = (a + k + j) % n
  BY <1>1, <1>2, Zenon
<1>4. (MOD % PIPESIZE) = 0 =>
        \A a, k \in 0 .. MOD - 1 : \A j \in Int :
          (((a + k) % MOD) + j) % PIPESIZE = (a + k + j) % PIPESIZE
  BY <1>1, <1>3, Zenon
<1> QED
  BY <1>1, <1>4, Zenon

-----------------------------------------------------------------------------
(* The inductive invariant *)

Thread == [pc : {"idle", "read", "sleep_read", "write", "sleep_write"}, left : 0 .. MaxN]

Types ==
    /\ data \in [Cells -> Byte]
    /\ nread \in 0 .. MOD - 1 /\ nwrite \in 0 .. MOD - 1
    /\ readopen \in BOOLEAN /\ writeopen \in BOOLEAN /\ freed \in BOOLEAN
    /\ readers \subseteq Procs /\ writers \subseteq Procs
    /\ op \in [Procs -> Thread]
    /\ killed \in [Procs -> BOOLEAN] /\ cut \in BOOLEAN

\* An end is open while some process holds it, and the page is freed with the
\* last end.
Ends ==
    /\ readopen <=> readers # {}
    /\ writeopen <=> writers # {}
    /\ freed <=> ~readopen /\ ~writeopen

\* A process inside the pipe holds the end it uses.
Inside ==
    \A p \in Procs :
      /\ op[p].pc = "idle" => op[p] = Idle
      /\ op[p].pc \in {"read", "sleep_read"} => p \in readers
      /\ op[p].pc \in {"write", "sleep_write"} => p \in writers

Inv == Types /\ Ends /\ Inside /\ Count =< PIPESIZE /\ NoLostWakeup

LEMMA CountType ==
    ASSUME PipeAssumption, Types
    PROVE  Count \in 0 .. MOD - 1 /\ (Count = 0 <=> nread = nwrite)
<1> MOD \in Nat \ {0} /\ nwrite - nread \in Int
  BY DEF PipeAssumption, Types
<1>1. \A x \in Int : /\ (x % MOD) \in 0 .. MOD - 1
                     /\ x \in 0 .. MOD - 1 => (x % MOD) = x
                     /\ x \in -MOD .. -1 => (x % MOD) = x + MOD
  BY ModCases
<1> QED
  BY <1>1 DEF Count, Types

LEMMA StringsAreSeqs ==
    ASSUME PipeAssumption, NEW s \in Strings
    PROVE  s \in Seq(Byte) /\ Len(s) \in 0 .. MaxN
<1>1. PICK k \in 0 .. MaxN : s \in [1 .. k -> Byte]
  BY DEF Strings
<1> QED
  BY <1>1 DEF PipeAssumption

\* What the ring holds, as a sequence.
LEMMA ContentsIsSeq ==
    ASSUME PipeAssumption, Types
    PROVE  /\ Contents \in Seq(Byte) /\ Len(Contents) = Count
           /\ \A j \in 1 .. Count : Contents[j] = data[(nread + j - 1) % PIPESIZE]
<1>1. Count \in Nat
  BY CountType
<1>2. \A x \in Int : (x % PIPESIZE) \in Cells
  BY ModCases DEF Cells, PipeAssumption
<1>3. \A j \in 1 .. Count : data[(nread + j - 1) % PIPESIZE] \in Byte
  BY <1>1, <1>2 DEF Types
<1> QED
  BY <1>1, <1>3 DEF Contents

\* pipewrite() appends the bytes it stores to the contents of the ring: their
\* cells are distinct, and none holds a byte that is still to be read.
LEMMA StoreAppends ==
    ASSUME PipeAssumption, Types, Count =< PIPESIZE,
           NEW p \in Procs, NEW s \in Seq(Byte), Len(s) =< Room, Store(p, s)
    PROVE  /\ nwrite' \in 0 .. MOD - 1 /\ data' \in [Cells -> Byte]
           /\ Count' = Count + Len(s)
           /\ Contents' = Contents \o s
<1> DEFINE k == Len(s)
           N == Count
           cell(j) == (nread + j - 1) % PIPESIZE
<1>1. /\ PIPESIZE \in Nat \ {0} /\ MOD \in Nat \ {0} /\ PIPESIZE < MOD
      /\ N \in 0 .. PIPESIZE /\ k \in Nat /\ N + k =< PIPESIZE
      /\ nread \in 0 .. MOD - 1 /\ nwrite \in 0 .. MOD - 1
  BY CountType DEF PipeAssumption, Types, Room
<1>2. nread' = nread /\ nwrite' = (nwrite + k) % MOD
  BY DEF Store
<1>3. nwrite' \in 0 .. MOD - 1 /\ Count' = N + k
  <2>1. ((nwrite - nread) % MOD) + k < MOD
    BY <1>1 DEF Count
  <2> QED
    BY <1>1, <1>2, <2>1, Forward DEF Count
\* The cell of the j-th byte stored is the one N + j places after the oldest.
<1>4. \A j \in Int : (nwrite + j - 1) % PIPESIZE = cell(N + j)
  <2>1. nwrite = (nread + N) % MOD
    BY <1>1, Ahead DEF Count
  <2>2. TAKE j \in Int
  <2> PICK i \in Int : i = j - 1
    OBVIOUS
  <2>3. (((nread + N) % MOD) + i) % PIPESIZE = (nread + N + i) % PIPESIZE
    <3>1. PICK c \in 0 .. MOD - 1 : c = N
      BY <1>1
    <3>2. (((nread + c) % MOD) + i) % PIPESIZE = (nread + c + i) % PIPESIZE
      BY <1>1, PipeCell
    <3> QED
      BY <3>1, <3>2
  <2>4. /\ nwrite + j - 1 = ((nread + N) % MOD) + i
        /\ nread + (N + j) - 1 = nread + N + i
    BY <1>1, <2>1
  <2> QED
    BY <2>3, <2>4
<1>5. \A i, j \in 1 .. N + k : cell(i) = cell(j) => i = j
  <2>1. SUFFICES ASSUME NEW i \in 1 .. N + k, NEW j \in i .. N + k, cell(i) = cell(j)
                 PROVE  i = j
    BY <1>1
  <2>2. \A x \in Int : \A y \in x .. x + PIPESIZE - 1 : (x % PIPESIZE) = (y % PIPESIZE) => x = y
    BY <1>1, ModDistinct
  <2>3. /\ nread + i - 1 \in Int
        /\ nread + j - 1 \in (nread + i - 1) .. (nread + i - 1) + PIPESIZE - 1
    BY <1>1
  <2>4. nread + i - 1 = nread + j - 1
    BY <2>1, <2>2, <2>3
  <2> QED
    BY <1>1, <2>4
<1>6. \A j \in Int : cell(j) \in Cells
  <2>1. TAKE j \in Int
  <2>2. PICK x \in Int : x = nread + j - 1
    BY <1>1
  <2>3. (x % PIPESIZE) \in 0 .. PIPESIZE - 1
    BY <1>1, ModCases
  <2> QED
    BY <2>2, <2>3 DEF Cells
<1> HIDE DEF cell
<1>7. data' = [x \in Cells |-> IF \E j \in 1 .. k : (nwrite + j - 1) % PIPESIZE = x
                               THEN s[CHOOSE j \in 1 .. k : (nwrite + j - 1) % PIPESIZE = x]
                               ELSE data[x]]
  BY DEF Store
<1>8. \A x \in Cells : \A j \in 1 .. k : cell(N + j) = x => data'[x] = s[j]
  <2>1. TAKE x \in Cells
  <2>2. TAKE j \in 1 .. k
  <2>3. HAVE cell(N + j) = x
  <2>4. ASSUME NEW i \in 1 .. k, (nwrite + i - 1) % PIPESIZE = x
        PROVE  i = j
    <3>1. N + i \in 1 .. N + k /\ N + j \in 1 .. N + k
      BY <1>1
    <3>2. cell(N + i) = x
      BY <1>4, <2>4
    <3>3. N + i = N + j
      BY <1>5, <2>3, <3>1, <3>2
    <3> QED
      BY <1>1, <3>3
  <2>5. (nwrite + j - 1) % PIPESIZE = x
    BY <1>4, <2>3
  <2>6. (CHOOSE i \in 1 .. k : (nwrite + i - 1) % PIPESIZE = x) = j
    BY <2>4, <2>5
  <2> QED
    BY <1>7, <2>5, <2>6
<1>9. \A x \in Cells : (\A j \in 1 .. k : cell(N + j) # x) => data'[x] = data[x]
  BY <1>4, <1>7
<1>10. data' \in [Cells -> Byte]
  <2>1. \A x \in Cells : data'[x] \in Byte
    BY <1>1, <1>8, <1>9 DEF Types
  <2> QED
    BY <1>7, <2>1
<1>11. /\ Contents' \in Seq(Byte) /\ Len(Contents') = N + k
       /\ \A j \in 1 .. N + k : Contents'[j] = data'[cell(j)]
  <2>1. Contents' = [j \in 1 .. N + k |-> data'[cell(j)]]
    BY <1>2, <1>3 DEF Contents, cell
  <2>2. \A j \in 1 .. N + k : data'[cell(j)] \in Byte
    BY <1>1, <1>6, <1>10
  <2> QED
    BY <1>1, <2>1, <2>2
<1>12. /\ Contents \in Seq(Byte) /\ Len(Contents) = N
       /\ \A j \in 1 .. N : Contents[j] = data[cell(j)]
  BY ContentsIsSeq DEF cell
<1>13. /\ Contents \o s \in Seq(Byte) /\ Len(Contents \o s) = N + k
       /\ \A j \in 1 .. N + k : (Contents \o s)[j] =
                     IF j =< N THEN Contents[j] ELSE s[j - N]
  BY <1>12, ConcatProperties
<1>14. \A j \in 1 .. N + k : Contents'[j] = (Contents \o s)[j]
  <2>1. TAKE j \in 1 .. N + k
  <2>2. CASE j =< N
    <3>1. \A i \in 1 .. k : N + i \in 1 .. N + k /\ N + i # j
      BY <1>1, <2>2
    <3>2. \A i \in 1 .. k : cell(N + i) # cell(j)
      BY <1>5, <3>1
    <3>3. data'[cell(j)] = data[cell(j)]
      BY <1>1, <1>6, <1>9, <3>2
    <3> QED
      BY <1>1, <1>11, <1>12, <1>13, <2>2, <3>3
  <2>3. CASE j > N
    <3>1. j - N \in 1 .. k /\ N + (j - N) = j
      BY <1>1, <2>3
    <3>2. data'[cell(j)] = s[j - N]
      BY <1>1, <1>6, <1>8, <3>1
    <3> QED
      BY <1>1, <1>11, <1>13, <2>3, <3>2
  <2>4. j =< N \/ j > N
    BY <1>1
  <2> QED
    BY <2>2, <2>3, <2>4
<1>15. Contents' = Contents \o s
  BY <1>11, <1>13, <1>14, SeqEqual
<1> QED
  BY <1>3, <1>10, <1>15

\* piperead() takes the bytes it returns from the head of the contents.
LEMMA ReadTakes ==
    ASSUME PipeAssumption, Types, Count =< PIPESIZE,
           NEW p \in Procs, NEW k \in 0 .. MaxN, ReadData(p, k)
    PROVE  /\ nread' \in 0 .. MOD - 1 /\ Count' = Count - k
           /\ k \in 0 .. Len(Contents)
           /\ out' = SubSeq(Contents, 1, k)
           /\ Contents' = SubSeq(Contents, k + 1, Len(Contents))
<1> DEFINE N == Count
           cell(j) == (nread + j - 1) % PIPESIZE
<1>1. /\ PIPESIZE \in Nat \ {0} /\ MOD \in Nat \ {0} /\ PIPESIZE < MOD
      /\ N \in 0 .. PIPESIZE /\ k \in 0 .. N
      /\ nread \in 0 .. MOD - 1 /\ nwrite \in 0 .. MOD - 1
  BY CountType DEF PipeAssumption, Types, ReadData
<1>2. /\ nread' = (nread + k) % MOD /\ nwrite' = nwrite /\ data' = data
      /\ out' = [j \in 1 .. k |-> data[(nread + j - 1) % PIPESIZE]]
  BY DEF ReadData
<1>3. nread' \in 0 .. MOD - 1 /\ Count' = N - k
  <2>1. k =< (nwrite - nread) % MOD /\ k \in Nat
    BY <1>1 DEF Count
  <2> QED
    BY <1>1, <1>2, <2>1, Backward DEF Count
<1>4. \A j \in Int : (nread' + j - 1) % PIPESIZE = cell(k + j)
  <2>1. TAKE j \in Int
  <2> PICK i \in Int : i = j - 1
    OBVIOUS
  <2>2. (((nread + k) % MOD) + i) % PIPESIZE = (nread + k + i) % PIPESIZE
    <3>1. k \in 0 .. MOD - 1
      BY <1>1
    <3> QED
      BY <1>1, <3>1, PipeCell
  <2>3. /\ nread' + j - 1 = ((nread + k) % MOD) + i
        /\ nread + (k + j) - 1 = nread + k + i
    BY <1>1, <1>2, <1>3
  <2> QED
    BY <2>2, <2>3
<1>5. /\ Contents \in Seq(Byte) /\ Len(Contents) = N
      /\ \A j \in 1 .. N : Contents[j] = data[cell(j)] /\ Contents[j] \in Byte
  <2>1. /\ Contents \in Seq(Byte) /\ Len(Contents) = N
        /\ \A j \in 1 .. N : Contents[j] = data[cell(j)]
    BY ContentsIsSeq
  <2> QED
    BY <2>1
<1>6. out' = [j \in 1 .. k |-> data[cell(j)]]
  BY <1>2
<1>7. Contents' = [j \in 1 .. N - k |-> data[cell(k + j)]]
  <2>1. Contents' = [j \in 1 .. N - k |-> data[(nread' + j - 1) % PIPESIZE]]
    BY <1>2, <1>3 DEF Contents
  <2>2. \A j \in 1 .. N - k : (nread' + j - 1) % PIPESIZE = cell(k + j)
    BY <1>4
  <2> QED
    BY <2>1, <2>2
<1> HIDE DEF cell
<1>8. out' = SubSeq(Contents, 1, k)
  <2>1. /\ SubSeq(Contents, 1, k) \in Seq(Byte) /\ Len(SubSeq(Contents, 1, k)) = k
        /\ \A j \in 1 .. k : SubSeq(Contents, 1, k)[j] = Contents[j]
    BY <1>1, <1>5
  <2>2. /\ out' \in Seq(Byte) /\ Len(out') = k
        /\ \A j \in 1 .. k : out'[j] = Contents[j]
    <3>1. k \in Nat /\ \A j \in 1 .. k : data[cell(j)] \in Byte /\ data[cell(j)] = Contents[j]
      BY <1>1, <1>5
    <3> QED
      BY <1>6, <3>1
  <2> QED
    BY <2>1, <2>2, SeqEqual
<1>9. Contents' = SubSeq(Contents, k + 1, N)
  <2>1. /\ SubSeq(Contents, k + 1, N) \in Seq(Byte)
        /\ Len(SubSeq(Contents, k + 1, N)) = N - k
        /\ \A j \in 1 .. N - k : SubSeq(Contents, k + 1, N)[j] = Contents[k + j]
    BY <1>1, <1>5
  <2>2. /\ Contents' \in Seq(Byte) /\ Len(Contents') = N - k
        /\ \A j \in 1 .. N - k : Contents'[j] = Contents[k + j]
    <3>1. \A j \in 1 .. N - k : k + j \in 1 .. N
      BY <1>1
    <3>2. /\ N - k \in Nat
          /\ \A j \in 1 .. N - k : /\ data[cell(k + j)] \in Byte
                                   /\ data[cell(k + j)] = Contents[k + j]
      BY <1>1, <1>5, <3>1
    <3> QED
      BY <1>7, <3>2
  <2> QED
    BY <2>1, <2>2, SeqEqual
<1> QED
  BY <1>1, <1>3, <1>5, <1>8, <1>9

-----------------------------------------------------------------------------
(* The invariant is inductive *)

\* wakeup() changes the pc of sleepers only.
LEMMA Wakeups ==
    ASSUME Types
    PROVE  /\ WakeReaders(op) \in [Procs -> Thread]
           /\ WakeWriters(op) \in [Procs -> Thread]
           /\ \A q \in Procs :
                /\ WakeReaders(op)[q].pc = IF op[q].pc = "sleep_read" THEN "read" ELSE op[q].pc
                /\ WakeWriters(op)[q].pc = IF op[q].pc = "sleep_write" THEN "write" ELSE op[q].pc
                /\ op[q].pc = "idle" => WakeReaders(op)[q] = op[q] /\ WakeWriters(op)[q] = op[q]
<1>1. \A t \in Thread : \A l \in {"read", "write"} :
        [t EXCEPT !.pc = l] \in Thread /\ [t EXCEPT !.pc = l].pc = l
  <2>1. TAKE t \in Thread
  <2>2. TAKE l \in {"read", "write"}
  <2>3. PICK k \in 0 .. MaxN : [t EXCEPT !.pc = l] = [pc |-> l, left |-> k]
    BY DEF Thread
  <2>4. [pc |-> l, left |-> k] \in Thread /\ [pc |-> l, left |-> k].pc = l
    BY DEF Thread
  <2> QED
    BY ONLY <2>3, <2>4
<1>2. op \in [Procs -> Thread]
  BY DEF Types
<1>3. ASSUME NEW asleep \in {"sleep_read", "sleep_write"}, NEW to \in {"read", "write"}
      PROVE  /\ Woken(op, asleep, to) \in [Procs -> Thread]
             /\ \A q \in Procs :
                  /\ Woken(op, asleep, to)[q].pc = IF op[q].pc = asleep THEN to ELSE op[q].pc
                  /\ op[q].pc = "idle" => Woken(op, asleep, to)[q] = op[q]
  <2>1. \A q \in Procs : Woken(op, asleep, to)[q] =
                          IF op[q].pc = asleep THEN [op[q] EXCEPT !.pc = to] ELSE op[q]
    BY DEF Woken
  <2>2. Woken(op, asleep, to) \in [Procs -> Thread]
    BY <1>1, <1>2 DEF Woken
  <2>3. ASSUME NEW q \in Procs
        PROVE  /\ Woken(op, asleep, to)[q].pc = IF op[q].pc = asleep THEN to ELSE op[q].pc
               /\ op[q].pc = "idle" => Woken(op, asleep, to)[q] = op[q]
    <3>1. CASE op[q].pc = asleep
      <4>1. Woken(op, asleep, to)[q] = [op[q] EXCEPT !.pc = to]
        BY <2>1, <3>1
      <4>2. [op[q] EXCEPT !.pc = to].pc = to
        BY <1>1, <1>2
      <4> QED
        BY ONLY <3>1, <4>1, <4>2, asleep \in {"sleep_read", "sleep_write"}
    <3>2. CASE op[q].pc # asleep
      BY <2>1, <3>2
    <3> QED
      BY <3>1, <3>2
  <2> QED
    BY <2>2, <2>3
<1>4. /\ WakeReaders(op) = Woken(op, "sleep_read", "read")
      /\ WakeWriters(op) = Woken(op, "sleep_write", "write")
  BY DEF WakeReaders, WakeWriters
<1> QED
  BY <1>3, <1>4

LEMMA IdleThread ==
    ASSUME PipeAssumption
    PROVE  Idle \in Thread /\ Idle.pc = "idle" /\ Idle.left = 0
BY DEF PipeAssumption, Idle, Thread

LEMMA InitInv ==
    ASSUME PipeAssumption, Init
    PROVE  Inv
<1> USE DEF Init
<1>1. Types
  <2>1. PICK b \in Byte : data = [c \in Cells |-> b]
    OBVIOUS
  <2>2. data \in [Cells -> Byte]
    BY <2>1
  <2>3. 0 \in 0 .. MOD - 1 /\ Readers \subseteq Procs /\ Writers \subseteq Procs
    BY DEF PipeAssumption
  <2> QED
    BY <2>2, <2>3, IdleThread DEF Types
<1>2. Ends
  BY DEF Ends, PipeAssumption
<1>3. Inside
  BY DEF Inside, Idle
<1>4. Count = 0
  BY <1>1, CountType
<1>5. Count =< PIPESIZE
  BY <1>4 DEF PipeAssumption
<1>6. NoLostWakeup
  BY DEF NoLostWakeup, ReaderAsleepOnlyIfEmpty, WriterAsleepOnlyIfFull, Idle
<1> QED
  BY <1>1, <1>2, <1>3, <1>5, <1>6 DEF Inv

LEMMA WriteInv ==
    ASSUME PipeAssumption, Inv, NEW p \in Procs, NEW s \in Strings,
           WriteDone(p, s) \/ WriteFull(p, s) \/ WriteKilled(p, s)
    PROVE  Inv'
<1>1. /\ s \in Seq(Byte) /\ Len(s) \in 0 .. MaxN /\ Len(s) =< op[p].left
      /\ op[p] \in Thread
  <2>1. s \in Seq(Byte) /\ Len(s) \in 0 .. MaxN /\ op[p] \in Thread
    BY StringsAreSeqs DEF Inv, Types
  <2> QED
    BY <2>1 DEF WriteDone, WriteFull, WriteKilled, Thread, PipeAssumption
<1>2. Count \in 0 .. PIPESIZE /\ PIPESIZE \in Nat \ {0} /\ Room = PIPESIZE - Count
  BY CountType DEF Inv, PipeAssumption, Room
<1>3. Len(s) =< Room /\ Store(p, s)
  BY <1>1, <1>2 DEF WriteDone, WriteFull, WriteKilled
<1>4. nwrite' \in 0 .. MOD - 1 /\ data' \in [Cells -> Byte] /\ Count' = Count + Len(s)
  BY <1>1, <1>3, StoreAppends DEF Inv
<1>5. /\ op[p].pc = "write" /\ readopen
      /\ UNCHANGED <<nread, readopen, writeopen, freed, readers, writers>>
  BY <1>3 DEF Store
\* What becomes of the writer, and of the readers.
<1>6. /\ op' \in [Procs -> Thread] /\ killed' \in [Procs -> BOOLEAN] /\ cut' \in BOOLEAN
      /\ \A q \in Procs \ {p} :
           /\ op[q].pc = "idle" => op'[q] = op[q]
           /\ op'[q].pc = op[q].pc \/ (op[q].pc = "sleep_read" /\ op'[q].pc = "read")
           /\ op'[q].pc = "sleep_read" => (cut' /\ op[q].pc = "sleep_read")
      /\ op'[p] = Idle \/ (op'[p].pc = "sleep_write" /\ Len(s) = Room)
  <2>1. CASE WriteDone(p, s)
    <3>1. op' = [WakeReaders(op) EXCEPT ![p] = Idle] /\ UNCHANGED <<killed, cut>>
      BY <2>1 DEF WriteDone
    <3> QED
      BY <3>1, Wakeups, IdleThread DEF Inv, Types
  <2>2. CASE WriteFull(p, s)
    <3> DEFINE t == [pc |-> "sleep_write", left |-> op[p].left - Len(s)]
    <3>1. /\ op' = [WakeReaders(op) EXCEPT ![p] = t] /\ UNCHANGED <<killed, cut>>
          /\ Len(s) = Room
      BY <2>2 DEF WriteFull
    <3>2. t \in Thread /\ t.pc = "sleep_write"
      BY <1>1 DEF Thread, PipeAssumption
    <3> HIDE DEF t
    <3> QED
      BY <3>1, <3>2, Wakeups DEF Inv, Types
  <2>3. CASE WriteKilled(p, s)
    <3>1. /\ op' = [op EXCEPT ![p] = Idle] /\ cut' = TRUE
          /\ killed' = [killed EXCEPT ![p] = TRUE]
      BY <2>3 DEF WriteKilled
    <3> QED
      BY <3>1, IdleThread DEF Inv, Types
  <2> QED
    BY <2>1, <2>2, <2>3
<1>7. Types'
  BY <1>4, <1>5, <1>6 DEF Inv, Types
<1>8. Ends'
  BY <1>5 DEF Inv, Ends
<1>9. Inside'
  BY <1>5, <1>6, IdleThread DEF Inv, Inside
<1>10. Count' =< PIPESIZE
  BY <1>1, <1>2, <1>3, <1>4
<1>11. NoLostWakeup'
  <2>1. \A q \in Procs : op'[q].pc = "sleep_read" => writeopen' /\ (Count' = 0 \/ cut')
    BY <1>5, <1>6, IdleThread DEF Inv, NoLostWakeup, ReaderAsleepOnlyIfEmpty
  <2>2. \A q \in Procs : op'[q].pc = "sleep_write" => readopen' /\ Count' = PIPESIZE
    <3>1. TAKE q \in Procs
    <3>2. HAVE op'[q].pc = "sleep_write"
    <3>3. CASE q = p
      BY <1>1, <1>2, <1>4, <1>5, <1>6, <3>2, <3>3, IdleThread
    <3>4. CASE q # p
      <4>1. op[q].pc = "sleep_write"
        BY <1>6, <3>2, <3>4
      <4>2. Count = PIPESIZE
        BY <4>1 DEF Inv, NoLostWakeup, WriterAsleepOnlyIfFull
      <4> QED
        BY <1>1, <1>2, <1>3, <1>4, <1>5, <4>2
    <3> QED
      BY <3>3, <3>4
  <2> QED
    BY <2>1, <2>2 DEF NoLostWakeup, ReaderAsleepOnlyIfEmpty, WriterAsleepOnlyIfFull
<1> QED
  BY <1>7, <1>8, <1>9, <1>10, <1>11 DEF Inv

LEMMA ReadInv ==
    ASSUME PipeAssumption, Inv, NEW p \in Procs, NEW k \in 0 .. MaxN, ReadData(p, k)
    PROVE  Inv'
<1>1. nread' \in 0 .. MOD - 1 /\ Count' = Count - k
  BY ReadTakes DEF Inv
<1>2. Count \in 0 .. PIPESIZE /\ PIPESIZE \in Nat \ {0} /\ k \in 0 .. Count
  BY CountType DEF Inv, PipeAssumption, ReadData
<1>3. UNCHANGED <<data, nwrite, readopen, writeopen, freed, readers, writers, killed, cut>>
  BY DEF ReadData
<1>4. op' = [WakeWriters(op) EXCEPT ![p] = Idle]
  BY DEF ReadData
<1>5. /\ op' \in [Procs -> Thread] /\ op'[p] = Idle
      /\ \A q \in Procs \ {p} :
           /\ op[q].pc = "idle" => op'[q] = op[q]
           /\ op'[q].pc # "sleep_write"
           /\ op'[q].pc = op[q].pc \/ (op[q].pc = "sleep_write" /\ op'[q].pc = "write")
  BY <1>4, Wakeups, IdleThread DEF Inv, Types
<1>6. Types'
  BY <1>1, <1>3, <1>5 DEF Inv, Types
<1>7. Ends'
  BY <1>3 DEF Inv, Ends
<1>8. Inside'
  BY <1>3, <1>5, IdleThread DEF Inv, Inside
<1>9. Count' =< PIPESIZE /\ (Count = 0 => Count' = 0)
  BY <1>1, <1>2
<1>10. NoLostWakeup'
  <2>1. \A q \in Procs : op'[q].pc = "sleep_read" => writeopen' /\ (Count' = 0 \/ cut')
    <3>1. \A q \in Procs : op'[q].pc = "sleep_read" => op[q].pc = "sleep_read"
      BY <1>5, IdleThread
    <3> QED
      BY <1>3, <1>9, <3>1 DEF Inv, NoLostWakeup, ReaderAsleepOnlyIfEmpty
  <2>2. \A q \in Procs : op'[q].pc # "sleep_write"
    BY <1>5, IdleThread
  <2> QED
    BY <2>1, <2>2 DEF NoLostWakeup, ReaderAsleepOnlyIfEmpty, WriterAsleepOnlyIfFull
<1> QED
  BY <1>6, <1>7, <1>8, <1>9, <1>10 DEF Inv

\* A call starts, fails, or goes to sleep: only op[p] changes.
LEMMA MoveInv ==
    ASSUME PipeAssumption, Inv, NEW p \in Procs,
           \/ \E n \in 1 .. MaxN : WriteStart(p, n) \/ ReadStart(p, n)
           \/ WriteFails(p) \/ ReadEmpty(p)
    PROVE  Inv'
<1>1. /\ UNCHANGED <<data, nread, nwrite, readopen, writeopen, freed, readers, writers,
                     killed, cut>>
  BY DEF WriteStart, ReadStart, WriteFails, ReadEmpty
<1>2. PICK t \in Thread :
        /\ op' = [op EXCEPT ![p] = t]
        /\ \/ t = Idle
           \/ t.pc = "write" /\ p \in writers
           \/ t.pc = "read" /\ p \in readers
           \/ t.pc = "sleep_read" /\ p \in readers /\ writeopen /\ nread = nwrite
  <2>1. ASSUME NEW n \in 1 .. MaxN, WriteStart(p, n)
        PROVE  /\ op' = [op EXCEPT ![p] = [pc |-> "write", left |-> n]]
               /\ [pc |-> "write", left |-> n] \in Thread /\ p \in writers
    BY <2>1 DEF WriteStart, Thread, PipeAssumption
  <2>2. ASSUME NEW n \in 1 .. MaxN, ReadStart(p, n)
        PROVE  /\ op' = [op EXCEPT ![p] = [pc |-> "read", left |-> n]]
               /\ [pc |-> "read", left |-> n] \in Thread /\ p \in readers
    BY <2>2 DEF ReadStart, Thread, PipeAssumption
  <2>3. ASSUME WriteFails(p)
        PROVE  op' = [op EXCEPT ![p] = Idle]
    BY <2>3 DEF WriteFails
  <2>4. ASSUME ReadEmpty(p), killed[p]
        PROVE  op' = [op EXCEPT ![p] = Idle]
    BY <2>4 DEF ReadEmpty
  <2>5. ASSUME ReadEmpty(p), ~killed[p]
        PROVE  \E k \in 0 .. MaxN :
                 /\ op' = [op EXCEPT ![p] = [pc |-> "sleep_read", left |-> k]]
                 /\ [pc |-> "sleep_read", left |-> k] \in Thread
                 /\ p \in readers /\ writeopen /\ nread = nwrite
    <3>1. op[p] \in Thread
      BY DEF Inv, Types
    <3>2. PICK k \in 0 .. MaxN : [op[p] EXCEPT !.pc = "sleep_read"] = [pc |-> "sleep_read", left |-> k]
      BY <3>1 DEF Thread
    <3>3. /\ op' = [op EXCEPT ![p] = [op[p] EXCEPT !.pc = "sleep_read"]]
          /\ op[p].pc = "read" /\ writeopen /\ nread = nwrite
      BY <2>5 DEF ReadEmpty
    <3>4. p \in readers
      BY <3>3 DEF Inv, Inside
    <3>5. [pc |-> "sleep_read", left |-> k] \in Thread
      BY DEF Thread
    <3> QED
      BY <3>2, <3>3, <3>4, <3>5
  <2> QED
    BY <2>1, <2>2, <2>3, <2>4, <2>5, IdleThread
<1>3. op' \in [Procs -> Thread] /\ op'[p] = t /\ \A q \in Procs \ {p} : op'[q] = op[q]
  BY <1>2 DEF Inv, Types
<1>4. Types'
  BY <1>1, <1>3 DEF Inv, Types
<1>5. Ends'
  BY <1>1 DEF Inv, Ends
<1>6. Inside'
  BY <1>1, <1>2, <1>3, IdleThread DEF Inv, Inside
<1>7. Count' = Count
  BY <1>1 DEF Count
<1>8. NoLostWakeup'
  <2>1. t.pc = "sleep_read" => writeopen /\ Count = 0
    BY <1>2, CountType, IdleThread DEF Inv
  <2>2. t.pc # "sleep_write"
    BY <1>2, IdleThread
  <2> QED
    BY <1>1, <1>3, <1>7, <2>1, <2>2
       DEF Inv, NoLostWakeup, ReaderAsleepOnlyIfEmpty, WriterAsleepOnlyIfFull
<1> QED
  BY <1>4, <1>5, <1>6, <1>7, <1>8 DEF Inv

\* The last close of an end wakes those who sleep at the other.
LEMMA CloseInv ==
    ASSUME PipeAssumption, Inv, NEW p \in Procs, CloseRead(p) \/ CloseWrite(p)
    PROVE  Inv'
<1>1. /\ UNCHANGED <<data, nread, nwrite, killed, cut>> /\ op[p] = Idle
      /\ \/ CloseRead(p) /\ readers' = readers \ {p} /\ UNCHANGED <<writers, writeopen>>
         \/ CloseWrite(p) /\ writers' = writers \ {p} /\ UNCHANGED <<readers, readopen>>
  BY DEF CloseRead, CloseWrite
<1>2. /\ readopen' \in BOOLEAN /\ writeopen' \in BOOLEAN /\ freed' \in BOOLEAN
      /\ readopen' <=> readers' # {}
      /\ writeopen' <=> writers' # {}
      /\ freed' <=> ~readopen' /\ ~writeopen'
  <2>1. CASE CloseRead(p)
    BY <2>1 DEF CloseRead, Freed, Inv, Ends, Types
  <2>2. CASE CloseWrite(p)
    BY <2>2 DEF CloseWrite, Freed, Inv, Ends, Types
  <2> QED
    BY <2>1, <2>2
<1>3. /\ op' \in [Procs -> Thread] /\ op'[p] = op[p]
      /\ \A q \in Procs :
           /\ op[q].pc = "idle" => op'[q] = op[q]
           /\ op'[q].pc = "sleep_read" => op[q].pc = "sleep_read" /\ writeopen'
           /\ op'[q].pc = "sleep_write" => op[q].pc = "sleep_write" /\ readopen'
           /\ op'[q].pc \in {"read", "sleep_read"} => op[q].pc \in {"read", "sleep_read"}
           /\ op'[q].pc \in {"write", "sleep_write"} => op[q].pc \in {"write", "sleep_write"}
           /\ op'[q].pc = "idle" => op[q].pc = "idle"
  <2>1. /\ op \in [Procs -> Thread] /\ op[p].pc = "idle"
        /\ \A q \in Procs : /\ op[q].pc = "sleep_read" => writeopen
                            /\ op[q].pc = "sleep_write" => readopen
    BY <1>1, IdleThread DEF Inv, Types, NoLostWakeup, ReaderAsleepOnlyIfEmpty, WriterAsleepOnlyIfFull
  <2>2. CASE CloseRead(p)
    <3>1. /\ readopen' => op' = op
          /\ ~readopen' => op' = WakeWriters(op)
          /\ writeopen' <=> writeopen
      BY <2>2 DEF CloseRead
    <3>2. CASE readopen'
      BY <2>1, <3>1, <3>2
    <3>3. CASE ~readopen'
      <4>1. op' = WakeWriters(op)
        BY <3>1, <3>3
      <4>2. Types
        BY DEF Inv
      <4> QED
        BY <2>1, <3>1, <4>1, <4>2, Wakeups
    <3> QED
      BY <3>2, <3>3
  <2>3. CASE CloseWrite(p)
    <3>1. /\ writeopen' => op' = op
          /\ ~writeopen' => op' = WakeReaders(op)
          /\ readopen' <=> readopen
      BY <2>3 DEF CloseWrite
    <3>2. CASE writeopen'
      BY <2>1, <3>1, <3>2
    <3>3. CASE ~writeopen'
      <4>1. op' = WakeReaders(op)
        BY <3>1, <3>3
      <4>2. Types
        BY DEF Inv
      <4> QED
        BY <2>1, <3>1, <4>1, <4>2, Wakeups
    <3> QED
      BY <3>2, <3>3
  <2> QED
    BY <2>2, <2>3
<1>4. Types'
  BY <1>1, <1>2, <1>3 DEF Inv, Types
<1>5. Ends'
  BY <1>2 DEF Ends
<1>6. Inside'
  BY <1>1, <1>3, IdleThread DEF Inv, Inside
<1>7. Count' = Count
  BY <1>1 DEF Count
<1>8. NoLostWakeup'
  BY <1>1, <1>3, <1>7 DEF Inv, NoLostWakeup, ReaderAsleepOnlyIfEmpty, WriterAsleepOnlyIfFull
<1> QED
  BY <1>4, <1>5, <1>6, <1>7, <1>8 DEF Inv

LEMMA KillInv ==
    ASSUME PipeAssumption, Inv, NEW p \in Procs, Kill(p) \/ KillMissed(p)
    PROVE  Inv'
<1>1. /\ UNCHANGED <<data, nread, nwrite, readopen, writeopen, freed, readers, writers, cut>>
      /\ killed' = [killed EXCEPT ![p] = TRUE]
  BY DEF Kill, KillMissed
<1>2. PICK l : l = CASE op[p].pc = "sleep_read" -> "read"
                      [] op[p].pc = "sleep_write" -> "write"
                      [] OTHER -> op[p].pc
  OBVIOUS
<1>3. op' = op \/ op' = [op EXCEPT ![p] = [op[p] EXCEPT !.pc = l]]
  BY <1>2 DEF Kill, KillMissed
<1>4. /\ op \in [Procs -> Thread] /\ op[p] \in Thread
  BY DEF Inv, Types
<1>5. /\ [op[p] EXCEPT !.pc = l] \in Thread /\ [op[p] EXCEPT !.pc = l].pc = l
      /\ l = "idle" => [op[p] EXCEPT !.pc = l] = op[p] /\ op[p].pc = "idle"
  <2>1. PICK k \in 0 .. MaxN : /\ [op[p] EXCEPT !.pc = l] = [pc |-> l, left |-> k]
                               /\ op[p] = [pc |-> op[p].pc, left |-> k]
    BY <1>4 DEF Thread
  <2>2. /\ l \in {"idle", "read", "sleep_read", "write", "sleep_write"}
        /\ l = "idle" => op[p].pc = "idle"
    BY <1>2, <1>4 DEF Thread
  <2>3. [pc |-> l, left |-> k] \in Thread /\ [pc |-> l, left |-> k].pc = l
    BY <2>2 DEF Thread
  <2> QED
    BY ONLY <2>1, <2>2, <2>3
<1>6. /\ l # "sleep_read" /\ l # "sleep_write"
      /\ l = "read" => op[p].pc \in {"read", "sleep_read"}
      /\ l = "write" => op[p].pc \in {"write", "sleep_write"}
  BY <1>2
<1>7. /\ op' \in [Procs -> Thread]
      /\ \A q \in Procs :
           /\ op'[q].pc = "idle" => op'[q] = op[q]
           /\ op'[q].pc = "sleep_read" => op[q].pc = "sleep_read"
           /\ op'[q].pc = "sleep_write" => op[q].pc = "sleep_write"
           /\ op'[q].pc \in {"read", "sleep_read"} => op[q].pc \in {"read", "sleep_read"}
           /\ op'[q].pc \in {"write", "sleep_write"} => op[q].pc \in {"write", "sleep_write"}
  <2> DEFINE t == [op[p] EXCEPT !.pc = l]
  <2> HIDE DEF t
  <2>1. CASE op' = [op EXCEPT ![p] = t]
    <3>1. t \in Thread /\ t.pc = l /\ (l = "idle" => t = op[p] /\ op[p].pc = "idle")
      BY <1>5 DEF t
    <3> QED
      BY <1>4, <1>6, <2>1, <3>1
  <2>2. CASE op' = op
    BY <1>4, <2>2
  <2> QED
    BY <1>3, <2>1, <2>2 DEF t
<1>8. Types'
  BY <1>1, <1>7 DEF Inv, Types
<1>9. Ends'
  BY <1>1 DEF Inv, Ends
<1>10. Inside'
  BY <1>1, <1>7 DEF Inv, Inside
<1>11. Count' = Count
  BY <1>1 DEF Count
<1>12. NoLostWakeup'
  BY <1>1, <1>7, <1>11 DEF Inv, NoLostWakeup, ReaderAsleepOnlyIfEmpty, WriterAsleepOnlyIfFull
<1> QED
  BY <1>8, <1>9, <1>10, <1>11, <1>12 DEF Inv

LEMMA NextInv ==
    ASSUME PipeAssumption, Inv, [Next]_vars
    PROVE  Inv'
<1>1. CASE UNCHANGED vars
  BY <1>1 DEF vars, Inv, Types, Ends, Inside, Count, NoLostWakeup, ReaderAsleepOnlyIfEmpty,
              WriterAsleepOnlyIfFull
<1>2. CASE Next
  <2>1. PICK p \in Procs :
          \/ \E n \in 1 .. MaxN : WriteStart(p, n) \/ ReadStart(p, n)
          \/ Loop(p)
          \/ \E s \in Strings : WriteKilled(p, s)
          \/ CloseRead(p) \/ CloseWrite(p) \/ Kill(p) \/ KillMissed(p)
    BY <1>2 DEF Next
  <2> QED
    BY <2>1, WriteInv, ReadInv, MoveInv, CloseInv, KillInv DEF Loop
<1> QED
  BY <1>1, <1>2

LEMMA Invariant ==
    ASSUME PipeAssumption
    PROVE  Spec => []Inv
BY InitInv, NextInv, PTL DEF Spec

-----------------------------------------------------------------------------
(* What the pipe guarantees *)

\* No process is inside piperead() or pipewrite(), or holds an end, once
\* pipeclose() has freed the page, for any number of readers and writers that
\* close and are killed in any order.
THEOREM PipeNotUsedAfterFree ==
    ASSUME PipeAssumption
    PROVE  Spec => []NoUseAfterFree
<1>1. Inv => NoUseAfterFree
  <2>1. SUFFICES ASSUME Inv, freed
                 PROVE  readers = {} /\ writers = {} /\ \A p \in Procs : op[p] = Idle
    BY DEF NoUseAfterFree
  <2>2. readers = {} /\ writers = {}
    BY <2>1 DEF Inv, Ends
  <2>3. \A p \in Procs : op[p].pc = "idle"
    BY <2>1, <2>2 DEF Inv, Inside, Types, Thread
  <2> QED
    BY <2>1, <2>2, <2>3 DEF Inv, Inside
<1> QED
  BY <1>1, Invariant, PTL

\* piperead() sleeps only on an empty pipe with an open write end, pipewrite()
\* only on a full one with an open read end, through wakeups, closes and kills
\* in any order; the exception is a reader whose writer was killed between two
\* bytes.
THEOREM PipeLosesNoWakeup ==
    ASSUME PipeAssumption
    PROVE  Spec => []NoLostWakeup
<1>1. Inv => NoLostWakeup
  BY DEF Inv
<1> QED
  BY <1>1, Invariant, PTL

LEMMA ChannelInit ==
    ASSUME PipeAssumption, Init
    PROVE  Channel!Init
<1>1. Contents = << >>
  <2>1. Contents \in Seq(Byte) /\ Len(Contents) = Count /\ Count = 0
    BY InitInv, ContentsIsSeq, CountType DEF Init, Inv
  <2> QED
    BY <2>1
<1> QED
  BY <1>1 DEF Init, Channel!Init

LEMMA ChannelNext ==
    ASSUME PipeAssumption, Inv, [Next]_vars
    PROVE  [Channel!Next]_Channel!vars
<1>1. ASSUME NEW p \in Procs, NEW s \in Strings,
             WriteDone(p, s) \/ WriteFull(p, s) \/ WriteKilled(p, s)
      PROVE  Channel!Write
  <2>1. s \in Seq(Byte) /\ Len(s) \in 0 .. MaxN /\ op[p] \in Thread
    BY StringsAreSeqs DEF Inv, Types
  <2>2. Count \in 0 .. PIPESIZE /\ PIPESIZE \in Nat \ {0} /\ Room = PIPESIZE - Count
    BY CountType DEF Inv, PipeAssumption, Room
  <2>3. Len(s) =< Room /\ Store(p, s)
    BY <1>1, <2>1, <2>2 DEF WriteDone, WriteFull, WriteKilled, Thread
  <2>4. Contents' = Contents \o s /\ Len(Contents) = Count
    BY <2>1, <2>3, StoreAppends, ContentsIsSeq DEF Inv
  <2>5. s \in [1 .. Len(s) -> Byte] /\ Len(s) \in 0 .. PIPESIZE - Len(Contents)
    BY <2>1, <2>2, <2>3, <2>4
  <2>6. op[p].pc = "write" /\ readopen /\ UNCHANGED <<readopen, writeopen, out>>
    BY <2>3 DEF Store
  <2>7. writeopen
    BY <2>6 DEF Inv, Inside, Ends
  <2> QED
    BY <2>4, <2>5, <2>6, <2>7 DEF Channel!Write
<1>2. ASSUME NEW p \in Procs, NEW k \in 0 .. MaxN, ReadData(p, k)
      PROVE  Channel!Read
  <2>1. /\ k \in 0 .. Len(Contents) /\ out' = SubSeq(Contents, 1, k)
        /\ Contents' = SubSeq(Contents, k + 1, Len(Contents))
    BY <1>2, ReadTakes DEF Inv
  <2>2. op[p].pc = "read" /\ UNCHANGED <<readopen, writeopen>>
    BY <1>2 DEF ReadData
  <2>3. readopen
    BY <2>2 DEF Inv, Inside, Ends
  <2> QED
    BY <2>1, <2>2, <2>3 DEF Channel!Read
<1>3. ASSUME UNCHANGED <<data, nread, nwrite>>
      PROVE  Contents' = Contents
  BY <1>3 DEF Contents, Count
<1>4. ASSUME NEW p \in Procs, CloseRead(p)
      PROVE  [Channel!CloseRead]_Channel!vars
  <2>1. Contents' = Contents /\ UNCHANGED <<out, writeopen>>
    BY <1>3, <1>4 DEF CloseRead
  <2>2. readopen /\ readopen' \in BOOLEAN
    BY <1>4 DEF CloseRead, Inv, Ends
  <2>3. readopen \in BOOLEAN
    BY DEF Inv, Types
  <2>4. CASE readopen'
    BY <2>1, <2>2, <2>3, <2>4 DEF Channel!vars
  <2>5. CASE ~readopen'
    BY <2>1, <2>2, <2>3, <2>5 DEF Channel!CloseRead
  <2> QED
    BY <2>4, <2>5
<1>5. ASSUME NEW p \in Procs, CloseWrite(p)
      PROVE  [Channel!CloseWrite]_Channel!vars
  <2>1. Contents' = Contents /\ UNCHANGED <<out, readopen>>
    BY <1>3, <1>5 DEF CloseWrite
  <2>2. writeopen /\ writeopen' \in BOOLEAN
    BY <1>5 DEF CloseWrite, Inv, Ends
  <2>3. writeopen \in BOOLEAN
    BY DEF Inv, Types
  <2>4. CASE writeopen'
    BY <2>1, <2>2, <2>3, <2>4 DEF Channel!vars
  <2>5. CASE ~writeopen'
    BY <2>1, <2>2, <2>3, <2>5 DEF Channel!CloseWrite
  <2> QED
    BY <2>4, <2>5
\* Every other step leaves ring and ends alone.
<1>6. ASSUME NEW p \in Procs,
             \/ \E n \in 1 .. MaxN : WriteStart(p, n) \/ ReadStart(p, n)
             \/ WriteFails(p) \/ ReadEmpty(p) \/ Kill(p) \/ KillMissed(p)
      PROVE  UNCHANGED Channel!vars
  <2>1. UNCHANGED <<data, nread, nwrite, readopen, writeopen, out>>
    BY <1>6 DEF WriteStart, ReadStart, WriteFails, ReadEmpty, Kill, KillMissed
  <2> QED
    BY <1>3, <2>1 DEF Channel!vars
<1>7. CASE UNCHANGED vars
  <2>1. UNCHANGED <<data, nread, nwrite, readopen, writeopen, out>>
    BY <1>7 DEF vars
  <2> QED
    BY <1>3, <2>1 DEF Channel!vars
<1>8. CASE Next
  <2>1. PICK p \in Procs :
          \/ \E n \in 1 .. MaxN : WriteStart(p, n) \/ ReadStart(p, n)
          \/ Loop(p)
          \/ \E s \in Strings : WriteKilled(p, s)
          \/ CloseRead(p) \/ CloseWrite(p) \/ Kill(p) \/ KillMissed(p)
    BY <1>8 DEF Next
  <2> QED
    BY <1>1, <1>2, <1>4, <1>5, <1>6, <2>1 DEF Loop, Channel!Next
<1> QED
  BY <1>7, <1>8

\* piperead() and pipewrite() implement the byte channel: for every ring size
\* and counters that wrap, bytes come out once and in the order they went in,
\* through partial writes, failed copies, closes and kills.
THEOREM PipeIsFifo ==
    ASSUME PipeAssumption
    PROVE  Spec => Fifo
<1>1. Init => Channel!Init
  BY ChannelInit
<1>2. Inv /\ [Next]_vars => [Channel!Next]_Channel!vars
  BY ChannelNext
<1>3. Spec => Channel!Init /\ [][Channel!Next]_Channel!vars
  BY <1>1, <1>2, Invariant, PTL DEF Spec
<1> QED
  BY <1>3 DEF Fifo, Channel!Spec
=============================================================================
