----------------------------- MODULE LogProofs -----------------------------
(***************************************************************************)
(* Proofs about the log, for any number of processes and blocks and any    *)
(* geometry of the log.                                                    *)
(***************************************************************************)
EXTENDS Log, FiniteSetTheorems, TLAPS

\* log.outstanding counts the operations in progress; a commit excludes them
\* and every other commit; recovery runs before any other process.
Control ==
    /\ outstanding = Cardinality(Running)
    /\ committing => Running = {}
    /\ \A p \in Procs : pc[p] \in CommitPC => committing
    /\ \A p, q \in Procs : pc[p] \in CommitPC /\ pc[q] \in CommitPC => p = q
    /\ \A p, q \in Procs : pc[p] \in RecoverPC /\ p # q => pc[q] = "off"

\* The copy loops stay within log.lh, which fits the header.
Loops ==
    /\ Len(lh) =< LOGSIZE /\ Len(hdr) =< LOGSIZE
    /\ \A p \in Procs :
         /\ pc[p] \in {"write_log", "install", "rec_install"} => tail[p] < Len(lh)
         /\ pc[p] = "write_head" => tail[p] < Len(lh)
         /\ pc[p] = "read_head" => tail[p] = 0

\* What begin_op() reserved and the running operations have not used yet: one
\* token for each block an operation may still log.
Tokens == {t \in Running \X (1 .. MAXOPBLOCKS) : t[2] > Cardinality(wrote[t[1]])}

\* The log has room for all of them.
Reserve ==
    /\ Len(lh) + Cardinality(Tokens) =< LOGSIZE
    /\ \A p \in Running : wrote[p] \subseteq Logged

Inv == TypeOK /\ Control /\ Loops /\ Reserve

-----------------------------------------------------------------------------
\* Appending to lh.block: length, range and members.
LEMMA AppendFacts ==
    ASSUME NEW S, NEW s \in Seq(S), NEW e \in S
    PROVE  /\ Append(s, e) \in Seq(S)
           /\ Len(Append(s, e)) = Len(s) + 1
           /\ \A i \in 1 .. Len(s) : Append(s, e)[i] = s[i]
           /\ Append(s, e)[Len(s) + 1] = e
OBVIOUS

\* Finitely many operations run at a time.
LEMMA RunningFinite == IsFiniteSet(Running)
BY LogAssumption, FS_Subset DEF Running

\* The reservation of the running operations is a finite set.
LEMMA TokensFinite ==
    /\ IsFiniteSet(Tokens)
    /\ Cardinality(Tokens) \in Nat
    /\ Cardinality(Tokens) =< Cardinality(Running) * MAXOPBLOCKS
<1>1. IsFiniteSet(1 .. MAXOPBLOCKS) /\ Cardinality(1 .. MAXOPBLOCKS) = MAXOPBLOCKS
  BY LogAssumption, FS_Interval
<1>2. /\ IsFiniteSet(Running \X (1 .. MAXOPBLOCKS))
      /\ Cardinality(Running \X (1 .. MAXOPBLOCKS)) = Cardinality(Running) * MAXOPBLOCKS
  BY <1>1, RunningFinite, FS_Product
<1>3. Tokens \subseteq Running \X (1 .. MAXOPBLOCKS)
  BY DEF Tokens
<1> QED BY <1>2, <1>3, FS_Subset, FS_CardinalityType

\* Without operations in progress nothing is reserved.
LEMMA NoTokens == Running = {} => Cardinality(Tokens) = 0
BY FS_EmptySet DEF Tokens

\* The invariant holds when the machine is switched on.
LEMMA InitInv == Init => Inv
<1> SUFFICES ASSUME Init PROVE Inv OBVIOUS
<1>1. Running = {} BY DEF Init, BootPC, Running
<1>2. TypeOK
  <2>1. pc \in [Procs -> PC] BY DEF Init, BootPC, PC, RecoverPC
  <2>2. lh \in Seq(Blocks) /\ hdr \in Seq(Blocks) BY DEF Init
  <2>3. logblk \in [1 .. LOGSIZE -> Values] BY DEF Init
  <2>4. buf \in [Blocks -> Values \cup {NotCached}] /\ pins \in [Blocks -> Int]
    BY DEF Init
  <2>5. tail \in [Procs -> Nat] /\ wrote \in [Procs -> SUBSET Blocks]
    BY DEF Init
  <2> QED BY <2>1, <2>2, <2>3, <2>4, <2>5 DEF Init, TypeOK
<1>3. Control
  BY <1>1, FS_EmptySet DEF Init, BootPC, Control, CommitPC, RecoverPC
<1>4. Loops BY LogAssumption DEF Init, BootPC, Loops
<1>5. Reserve
  BY <1>1, NoTokens, LogAssumption DEF Init, Reserve
<1> QED BY <1>2, <1>3, <1>4, <1>5 DEF Inv

-----------------------------------------------------------------------------
\* The set of running operations after a step that moves process p only.
LEMMA RunningAdd ==
    ASSUME TypeOK, NEW p \in Procs, pc[p] # "op",
           pc' = [pc EXCEPT ![p] = "op"]
    PROVE  /\ Running' = Running \cup {p} /\ p \notin Running
           /\ Cardinality(Running') = Cardinality(Running) + 1
<1>1. Running' = Running \cup {p} /\ p \notin Running
  BY DEF TypeOK, Running
<1> QED BY <1>1, RunningFinite, FS_AddElement

\* The same when p's operation ends: one fewer is running.
LEMMA RunningRemove ==
    ASSUME TypeOK, NEW p \in Running, pc' \in [Procs -> PC], pc'[p] # "op",
           \A q \in Procs \ {p} : pc'[q] = "op" <=> pc[q] = "op"
    PROVE  /\ Running' = Running \ {p}
           /\ Cardinality(Running') = Cardinality(Running) - 1
<1>1. Running' = Running \ {p}
  BY DEF TypeOK, Running
<1> QED BY <1>1, RunningFinite, FS_RemoveElement

\* Tokens as a function of the variables it depends on.
LEMMA TokensSame ==
    ASSUME Running' = Running, wrote' = wrote
    PROVE  Tokens' = Tokens
BY DEF Tokens

\* end_op() keeps the invariant: the operation gives its whole reservation back.
LEMMA EndOpInv == ASSUME Inv, NEW p \in Procs, EndOp(p) PROVE Inv'
<1> USE DEF Inv
<1>1. pc' \in [Procs -> PC]
  BY DEF EndOp, Wakeup, TypeOK, PC, CommitPC
<1>2. p \in Running BY DEF EndOp, Running
<1>3. /\ Running' = Running \ {p}
      /\ Cardinality(Running') = Cardinality(Running) - 1
  <2>1. pc'[p] # "op"
    BY DEF EndOp, Wakeup, TypeOK
  <2>2. \A q \in Procs \ {p} : pc'[q] = "op" <=> pc[q] = "op"
    BY DEF EndOp, Wakeup, TypeOK
  <2> QED BY <1>1, <1>2, <2>1, <2>2, RunningRemove
<1>4. ~committing /\ \A q \in Procs : pc[q] \notin CommitPC
  BY <1>2 DEF Control
<1>5. Cardinality(Running') \in Nat
  BY <1>3, RunningFinite, FS_RemoveElement, FS_CardinalityType
<1>6. TypeOK'
  BY <1>1, <1>3, <1>5, <1>4 DEF EndOp, TypeOK, Control, diskVars
<1>7. Control'
  <2>1. outstanding' = Cardinality(Running')
    BY <1>3 DEF Control, EndOp
  <2>2. committing' => Running' = {}
    BY <2>1, <1>4, <1>3, RunningFinite, FS_EmptySet, FS_Subset DEF EndOp
  <2>3. \A q \in Procs : pc'[q] \in CommitPC => q = p /\ committing'
    BY <1>4 DEF EndOp, Wakeup, TypeOK, CommitPC
  <2>4. \A q \in Procs : pc'[q] \notin RecoverPC
    <3>1. \A q \in Procs : pc[q] \notin RecoverPC
      BY <1>2 DEF Control, Running, RecoverPC
    <3> QED BY <3>1 DEF EndOp, Wakeup, TypeOK, RecoverPC
  <2> QED BY <2>1, <2>2, <2>3, <2>4 DEF Control
<1>8. Loops'
  BY <1>4 DEF Loops, EndOp, Wakeup, TypeOK, CommitPC, diskVars
<1>9. Reserve'
  <2>1. Tokens' \subseteq Tokens BY <1>3 DEF Tokens, EndOp
  <2>2. Cardinality(Tokens') =< Cardinality(Tokens) /\ Cardinality(Tokens') \in Nat
    BY <2>1, TokensFinite, FS_Subset, FS_CardinalityType
  <2> QED BY <2>2, <1>3, TokensFinite, LogAssumption DEF Reserve, EndOp, TypeOK, Logged
<1> QED BY <1>6, <1>7, <1>8, <1>9

\* begin_op() keeps the invariant: its space test pays for MAXOPBLOCKS new tokens.
LEMMA BeginOpInv == ASSUME Inv, NEW p \in Procs, BeginOp(p) PROVE Inv'
<1> USE DEF Inv
<1>1. /\ Running' = Running \cup {p} /\ p \notin Running
      /\ Cardinality(Running') = Cardinality(Running) + 1
  BY RunningAdd DEF BeginOp
<1>2. TypeOK'
  BY DEF BeginOp, TypeOK, PC, diskVars
<1>3. ~committing BY DEF BeginOp, MustWait
<1>4. Control'
  <2>1. \A q \in Procs : pc[q] \notin RecoverPC
    BY DEF Control, BeginOp, RecoverPC
  <2>2. \A q \in Procs : pc'[q] \notin CommitPC \cup RecoverPC
    BY <1>3, <2>1 DEF Control, BeginOp, TypeOK, CommitPC, RecoverPC
  <2> QED BY <1>1, <1>3, <2>2 DEF Control, BeginOp
<1>5. Loops'
  BY DEF Loops, BeginOp, TypeOK, diskVars
<1>6. Reserve'
  <2>1. Tokens' \subseteq Running' \X (1 .. MAXOPBLOCKS)
    BY DEF Tokens
  <2>2. /\ IsFiniteSet(1 .. MAXOPBLOCKS)
        /\ Cardinality(1 .. MAXOPBLOCKS) = MAXOPBLOCKS
    BY LogAssumption, FS_Interval
  <2>3. IsFiniteSet(Running')
    BY <1>1, RunningFinite, FS_AddElement
  <2>4. /\ IsFiniteSet(Running' \X (1 .. MAXOPBLOCKS))
        /\ Cardinality(Running' \X (1 .. MAXOPBLOCKS))
             = Cardinality(Running') * MAXOPBLOCKS
    BY <2>2, <2>3, FS_Product
  <2>5. /\ Cardinality(Tokens') \in Nat
        /\ Cardinality(Tokens') =< Cardinality(Running') * MAXOPBLOCKS
    BY <2>1, <2>4, FS_Subset, FS_CardinalityType
  <2>6. Len(lh) + (outstanding + 1) * MAXOPBLOCKS =< LOGSIZE
    <3>1. (outstanding + 1) * MAXOPBLOCKS \in Int
      BY LogAssumption DEF TypeOK
    <3> QED BY <3>1, LogAssumption DEF BeginOp, MustWait, TypeOK
  <2>7. Cardinality(Running') = outstanding + 1
    BY <1>1 DEF Control
  <2>8. Len(lh') + Cardinality(Tokens') =< LOGSIZE
    <3>1. Cardinality(Tokens') =< (outstanding + 1) * MAXOPBLOCKS
      BY <2>5, <2>7
    <3>2. (outstanding + 1) * MAXOPBLOCKS \in Int
      BY LogAssumption DEF TypeOK
    <3>3. lh' = lh BY DEF BeginOp
    <3> QED BY <2>6, <2>5, <3>1, <3>2, <3>3, LogAssumption DEF TypeOK
  <2>9. \A q \in Running' : wrote'[q] \subseteq Logged'
    BY <1>1 DEF Reserve, BeginOp, TypeOK, Logged, Running
  <2> QED BY <2>8, <2>9 DEF Reserve
<1> QED BY <1>2, <1>4, <1>5, <1>6

\* An operation that has logged n blocks still holds MAXOPBLOCKS - n tokens.
LEMMA OwnTokens ==
    ASSUME Inv, NEW p \in Procs, pc[p] = "op",
           Cardinality(wrote[p]) =< MAXOPBLOCKS
    PROVE  /\ Cardinality(wrote[p]) \in Nat
           /\ MAXOPBLOCKS - Cardinality(wrote[p]) =< Cardinality(Tokens)
<1> DEFINE n == Cardinality(wrote[p])
           I == (n + 1) .. MAXOPBLOCKS
<1>1. IsFiniteSet(wrote[p]) /\ n \in Nat
  BY LogAssumption, FS_Subset, FS_CardinalityType DEF Inv, TypeOK
<1>2. IsFiniteSet(I) /\ Cardinality(I) = MAXOPBLOCKS - n
  <2>1. n + 1 =< MAXOPBLOCKS + 1 /\ n + 1 \in Int /\ MAXOPBLOCKS \in Int
    BY <1>1, LogAssumption
  <2> HIDE DEF n
  <2>2. IsFiniteSet(I)
    BY <2>1, FS_Interval
  <2>3. Cardinality(I) = IF n + 1 > MAXOPBLOCKS THEN 0 ELSE MAXOPBLOCKS - (n + 1) + 1
    BY <2>1, FS_Interval
  <2> QED BY <1>1, <2>1, <2>2, <2>3, LogAssumption
<1>3. IsFiniteSet({p}) /\ Cardinality({p}) = 1
  BY FS_Singleton
<1>4. IsFiniteSet({p} \X I) /\ Cardinality({p} \X I) = MAXOPBLOCKS - n
  <2> HIDE DEF I, n
  <2>1. IsFiniteSet({p} \X I) /\ Cardinality({p} \X I) = 1 * Cardinality(I)
    BY <1>2, <1>3, FS_Product
  <2> QED BY <2>1, <1>2, <1>1, LogAssumption
<1>5. {p} \X I \subseteq Tokens
  BY <1>1, LogAssumption DEF Tokens, Running
<1>6. Cardinality({p} \X I) =< Cardinality(Tokens)
  <2> HIDE DEF I
  <2> QED BY <1>5, TokensFinite, FS_Subset
<1> QED BY <1>1, <1>4, <1>6

\* log_write() keeps the invariant: a block new to the log costs one of p's tokens,
\* an absorbed one costs none.
LEMMA LogWriteInv ==
    ASSUME Inv, NEW p \in Procs, NEW b \in Blocks, NEW v \in Values,
           LogWrite(p, b, v)
    PROVE  Inv'
<1> USE DEF Inv
<1>1. /\ IsFiniteSet(wrote[p]) /\ Cardinality(wrote[p]) \in Nat
      /\ Cardinality(wrote[p]) =< Cardinality(wrote[p] \cup {b})
      /\ Cardinality(wrote[p] \cup {b})
           = IF b \in wrote[p] THEN Cardinality(wrote[p])
                               ELSE Cardinality(wrote[p]) + 1
  BY LogAssumption, FS_Subset, FS_CardinalityType, FS_AddElement DEF TypeOK
<1>2. Cardinality(wrote[p] \cup {b}) =< MAXOPBLOCKS
  BY <1>1, LogAssumption DEF LogWrite
<1>3. Running' = Running /\ p \in Running
  BY DEF LogWrite, Running
<1>4. lh' = lh \/ (b \notin Logged /\ Len(lh) < LOGSIZE /\ lh' = Append(lh, b))
  BY LogAssumption DEF LogWrite, LogFull, TypeOK
<1>5. TypeOK'
  <2>1. lh' \in Seq(Blocks)
    <3>1. Append(lh, b) \in Seq(Blocks) BY AppendFacts DEF TypeOK
    <3> QED BY <3>1, <1>4 DEF TypeOK
  <2>2. pins' = pins \/ pins' = [pins EXCEPT ![b] = @ + 1] BY DEF LogWrite
  <2>4. pins' \in [Blocks -> Int] BY <2>2 DEF TypeOK
  <2>5. wrote' \in [Procs -> SUBSET Blocks]
    <3>1. wrote' = wrote \/ wrote' = [wrote EXCEPT ![p] = @ \cup {b}]
      BY DEF LogWrite
    <3>2. wrote[p] \cup {b} \in SUBSET Blocks BY DEF TypeOK
    <3> QED BY <3>1, <3>2 DEF TypeOK
  <2>3. panicked' \in BOOLEAN BY DEF LogWrite, TypeOK
  <2> QED BY <2>1, <2>3, <2>4, <2>5 DEF LogWrite, TypeOK, diskVars
<1>6. Control'
  BY <1>3 DEF Control, LogWrite
<1>7. \A q \in Procs : pc[q] \notin CommitPC \cup RecoverPC
  BY <1>3 DEF Control, Running, RecoverPC
<1>8. Loops'
  <2>1. Len(lh') =< LOGSIZE /\ Len(lh') >= Len(lh)
    BY <1>4, LogAssumption DEF Loops, TypeOK
  <2> QED BY <1>7, <2>1 DEF Loops, LogWrite, CommitPC, RecoverPC, diskVars
<1>9. Reserve'
  <2>1. CASE panicked'
    <3>1. lh' = lh /\ wrote' = wrote BY <2>1 DEF LogWrite
    <3> QED BY <3>1, <1>3, TokensSame DEF Reserve, Logged
  <2>2. CASE ~panicked'
    <3>1. wrote' = [wrote EXCEPT ![p] = @ \cup {b}]
      BY <2>2 DEF LogWrite
    <3>2. Logged' = Logged \cup {b}
      <4>1. b \in Logged => Logged' = Logged
        BY <2>2 DEF LogWrite, Logged
      <4>2. b \notin Logged => lh' = Append(lh, b)
        BY <2>2 DEF LogWrite
      <4>3. lh' = Append(lh, b) => Logged' = Logged \cup {b}
        <5> SUFFICES ASSUME lh' = Append(lh, b) PROVE Logged' = Logged \cup {b}
          OBVIOUS
        <5>1. /\ Len(lh') = Len(lh) + 1 /\ Len(lh) \in Nat
              /\ \A i \in 1 .. Len(lh) : lh'[i] = lh[i]
              /\ lh'[Len(lh) + 1] = b
          BY AppendFacts DEF TypeOK
        <5> QED BY <5>1 DEF Logged
      <4> QED BY <4>1, <4>2, <4>3
    <3>3. \A q \in Running' : wrote'[q] \subseteq Logged'
      BY <1>3, <3>1, <3>2 DEF Reserve, TypeOK, Running
    <3>4. CASE b \in wrote[p]
      <4>1. wrote' = wrote BY <3>1, <3>4 DEF TypeOK
      <4>2. lh' = lh
        <5>1. b \in Logged BY <3>4, <1>3 DEF Reserve
        <5> QED BY <5>1, <1>4
      <4> QED BY <4>1, <4>2, <1>3, <3>3, TokensSame DEF Reserve
    <3>5. CASE b \notin wrote[p]
      <4> DEFINE t == <<p, Cardinality(wrote[p]) + 1>>
      <4>1. t \in Tokens
        BY <1>1, <1>2, <1>3, <3>5, LogAssumption DEF Tokens
      <4>2. Tokens' \subseteq Tokens \ {t}
        <5>1. Cardinality(wrote'[p]) = Cardinality(wrote[p]) + 1
          BY <1>1, <3>1, <3>5 DEF TypeOK
        <5>2. \A q \in Procs \ {p} : wrote'[q] = wrote[q]
          BY <3>1 DEF TypeOK
        <5> QED BY <1>1, <1>3, <5>1, <5>2, LogAssumption DEF Tokens, Running
      <4>3. /\ Cardinality(Tokens \ {t}) = Cardinality(Tokens) - 1
            /\ IsFiniteSet(Tokens \ {t})
        BY <4>1, TokensFinite, FS_RemoveElement
      <4>4. /\ Cardinality(Tokens') =< Cardinality(Tokens) - 1
            /\ Cardinality(Tokens') \in Nat
        BY <4>2, <4>3, FS_Subset, FS_CardinalityType
      <4>5. Len(lh') =< Len(lh) + 1 /\ Len(lh') \in Nat
        BY <1>4, <1>5 DEF TypeOK
      <4> QED BY <3>3, <4>4, <4>5, TokensFinite, LogAssumption DEF Reserve, TypeOK
    <3> QED BY <3>4, <3>5
  <2> QED BY <2>1, <2>2
<1> QED BY <1>5, <1>6, <1>8, <1>9

\* Steps that neither start, end nor extend an operation keep the reservation.
LEMMA ReserveKept ==
    ASSUME Inv, Running' = Running, wrote' = wrote, lh' = lh
    PROVE  Reserve'
BY TokensSame DEF Inv, Reserve, Logged

\* While nothing runs the reservation is empty.
LEMMA ReserveEmpty ==
    ASSUME Running' = {}, Len(lh') \in Nat, Len(lh') =< LOGSIZE
    PROVE  Reserve'
<1>1. Tokens' = {} BY DEF Tokens
<1>2. Cardinality(Tokens') = 0 BY <1>1, FS_EmptySet
<1> QED BY <1>2 DEF Reserve

\* Going to sleep in begin_op() changes nothing but p's program counter.
LEMMA BeginSleepInv == ASSUME Inv, NEW p \in Procs, BeginSleep(p) PROVE Inv'
<1> USE DEF Inv
<1>1. Running' = Running BY DEF BeginSleep, Running, TypeOK
<1>2. TypeOK' BY DEF BeginSleep, TypeOK, PC, diskVars
<1>3. Control'
  BY <1>1 DEF BeginSleep, Control, TypeOK, CommitPC, RecoverPC
<1>4. Loops' BY DEF BeginSleep, Loops, TypeOK, diskVars
<1> QED BY <1>1, <1>2, <1>3, <1>4, ReserveKept DEF BeginSleep

\* The copy loop of commit() or of the recovery, one round.
LEMMA AdvanceFacts ==
    ASSUME Inv, NEW p \in Procs, NEW next \in PC, Advance(p, next),
           pc[p] \in {"write_log", "install", "rec_install"}, lh' = lh
    PROVE  /\ pc' \in [Procs -> PC] /\ tail' \in [Procs -> Nat]
           /\ \A q \in Procs \ {p} : pc'[q] = pc[q] /\ tail'[q] = tail[q]
           /\ pc'[p] \in {pc[p], next}
           /\ tail'[p] < Len(lh)
<1>1. tail[p] \in Nat /\ tail[p] < Len(lh) /\ Len(lh) \in Nat
  BY DEF Inv, Loops, TypeOK
<1>2. CASE tail[p] + 1 = Len(lh)
  <2>1. tail' = [tail EXCEPT ![p] = 0] /\ pc' = [pc EXCEPT ![p] = next]
    BY <1>2 DEF Advance
  <2> QED BY <1>1, <1>2, <2>1 DEF Inv, TypeOK
<1>3. CASE tail[p] + 1 # Len(lh)
  <2>1. tail' = [tail EXCEPT ![p] = tail[p] + 1] /\ pc' = pc
    BY <1>3 DEF Advance
  <2> QED BY <1>1, <1>3, <2>1 DEF Inv, TypeOK
<1> QED BY <1>2, <1>3

\* write_log(), write_head() and install_trans() keep the invariant.
LEMMA CommitStepInv ==
    ASSUME Inv, NEW p \in Procs,
           Commit(p) \/ WriteLog(p) \/ WriteHead(p) \/ InstallTrans(p)
    PROVE  Inv'
<1> USE DEF Inv
<1>1. pc[p] \in CommitPC /\ committing /\ Running = {}
  BY DEF Commit, WriteLog, WriteHead, InstallTrans, CommitPC, Control
<1>2. \A q \in Procs : q # p => pc[q] \notin CommitPC
  BY <1>1 DEF Control
<1>3. pc[p] \in {"write_log", "install"} =>
        /\ tail[p] + 1 \in 1 .. Len(lh) /\ tail[p] + 1 \in 1 .. LOGSIZE
        /\ lh[tail[p] + 1] \in Blocks
  BY LogAssumption DEF Loops, TypeOK
<1>4. UNCHANGED <<wrote, outstanding, committing, lh, panicked>>
  BY DEF Commit, WriteLog, WriteHead, InstallTrans
<1>5. /\ pc' \in [Procs -> PC] /\ tail' \in [Procs -> Nat]
      /\ \A q \in Procs \ {p} : pc'[q] = pc[q] /\ tail'[q] = tail[q]
      /\ pc'[p] \in CommitPC
      /\ pc'[p] \in {"write_log", "install", "write_head"} => tail'[p] < Len(lh)
  <2>1. CASE Commit(p)
    <3>1. lh # << >> => 0 < Len(lh) BY DEF TypeOK
    <3> QED BY <2>1, <3>1 DEF Commit, TypeOK, PC, CommitPC
  <2>2. CASE WriteLog(p)
    BY <2>2, <1>4, AdvanceFacts DEF WriteLog, PC, CommitPC
  <2>3. CASE WriteHead(p)
    BY <2>3 DEF WriteHead, TypeOK, Loops, PC, CommitPC
  <2>4. CASE InstallTrans(p)
    BY <2>4, <1>4, AdvanceFacts DEF InstallTrans, PC, CommitPC
  <2> QED BY <2>1, <2>2, <2>3, <2>4
<1>6. Running' = {}
  BY <1>1, <1>5 DEF Running, CommitPC
<1>7. TypeOK'
  <2>1. \A b \in Blocks : Bread(b) \in Values
    BY DEF Bread, TypeOK
  <2>2. CASE Commit(p)
    BY <2>2, <1>5 DEF Commit, TypeOK, diskVars
  <2>3. CASE WriteLog(p)
    <3>1. Bread(lh[tail[p] + 1]) \in Values
      BY <2>1, <2>3, <1>3 DEF WriteLog
    <3>2. logblk' \in [1 .. LOGSIZE -> Values]
      BY <2>3, <3>1 DEF WriteLog, TypeOK
    <3>3. buf' \in [Blocks -> Values \cup {NotCached}]
      BY <2>3, <3>1 DEF WriteLog, TypeOK
    <3> QED BY <2>3, <3>2, <3>3, <1>4, <1>5 DEF WriteLog, TypeOK
  <2>4. CASE WriteHead(p)
    BY <2>4, <1>5 DEF WriteHead, TypeOK
  <2>5. CASE InstallTrans(p)
    <3>1. logblk[tail[p] + 1] \in Values
      BY <2>5, <1>3 DEF InstallTrans, TypeOK
    <3> QED BY <2>5, <3>1, <1>3, <1>4, <1>5 DEF InstallTrans, InstallBlock, TypeOK
  <2> QED BY <2>2, <2>3, <2>4, <2>5
<1>8. Control'
  BY <1>1, <1>2, <1>4, <1>5, <1>6 DEF Control, CommitPC, RecoverPC
<1>9. Loops'
  <2>1. hdr' \in {hdr, lh} /\ pc'[p] \notin {"rec_install", "read_head"}
    BY <1>5 DEF Commit, WriteLog, WriteHead, InstallTrans, diskVars, CommitPC
  <2> QED BY <2>1, <1>4, <1>5 DEF Loops
<1>10. Reserve'
  BY <1>1, <1>4, <1>6, ReserveKept
<1> QED BY <1>7, <1>8, <1>9, <1>10

\* Erasing the header empties the log while nothing is running.
LEMMA EraseHeadInv == ASSUME Inv, NEW p \in Procs, EraseHead(p) PROVE Inv'
<1> USE DEF Inv
<1>1. pc[p] \in CommitPC /\ committing /\ Running = {}
  BY DEF EraseHead, CommitPC, Control
<1>2. \A q \in Procs : q # p => pc[q] \notin CommitPC \cup RecoverPC
  BY <1>1 DEF Control, CommitPC, RecoverPC
<1>3. Running' = {} BY <1>1 DEF Running, EraseHead, TypeOK
<1>4. TypeOK' BY DEF EraseHead, TypeOK, PC, CommitPC
<1>5. Control'
  BY <1>1, <1>2, <1>3 DEF Control, EraseHead, TypeOK, CommitPC, RecoverPC
<1>6. Len(lh') = 0 /\ Len(hdr') = 0 BY DEF EraseHead
<1>7. Loops'
  BY <1>2, <1>6, LogAssumption DEF Loops, EraseHead, TypeOK, CommitPC, RecoverPC
<1> QED BY <1>3, <1>4, <1>5, <1>6, <1>7, ReserveEmpty, LogAssumption

\* The end of end_op() clears log.committing and wakes the sleepers.
LEMMA FinishInv == ASSUME Inv, NEW p \in Procs, Finish(p) PROVE Inv'
<1> USE DEF Inv
<1>1. pc[p] \in CommitPC /\ committing /\ Running = {}
  BY DEF Finish, CommitPC, Control
<1>2. \A q \in Procs : q # p => pc[q] \notin CommitPC
  BY <1>1 DEF Control
<1>3. pc' \in [Procs -> PC]
  BY DEF Finish, Wakeup, TypeOK, PC
<1>4. \A q \in Procs : pc'[q] \notin CommitPC \cup RecoverPC /\ pc'[q] # "op"
  <2>1. \A q \in Procs : q # p => pc[q] \notin RecoverPC
    BY <1>1 DEF Control, CommitPC
  <2> QED BY <1>1, <1>2, <2>1 DEF Finish, Wakeup, TypeOK, CommitPC, RecoverPC, Running
<1>5. Running' = Running BY <1>1, <1>4 DEF Running
<1>6. TypeOK' BY <1>3 DEF Finish, TypeOK, diskVars
<1>7. Control' BY <1>4, <1>5 DEF Control, Finish
<1>8. Loops' BY <1>4 DEF Loops, Finish, CommitPC, RecoverPC, diskVars
<1> QED BY <1>5, <1>6, <1>7, <1>8, ReserveKept DEF Finish

\* The steps of recover_from_log() and the crash that leads to it.
LEMMA RecoverInv ==
    ASSUME Inv, NEW p \in Procs,
           ReadHead(p) \/ RecoverInstall(p) \/ RecoverErase(p)
    PROVE  Inv'
<1> USE DEF Inv
<1>1. pc[p] \in RecoverPC /\ \A q \in Procs : q # p => pc[q] = "off"
  BY DEF ReadHead, RecoverInstall, RecoverErase, RecoverPC, Control
<1>2. Running = {} BY <1>1 DEF Running, RecoverPC
<1>3. UNCHANGED <<wrote, outstanding, committing, panicked>>
  BY DEF ReadHead, RecoverInstall, RecoverErase
<1>4. CASE ReadHead(p)
  <2>1. TypeOK' BY <1>4 DEF ReadHead, TypeOK, PC, RecoverPC, diskVars
  <2>2. \A q \in Procs : q # p => pc'[q] = "off"
    BY <1>1, <1>4 DEF ReadHead, TypeOK
  <2>3. pc'[p] \in {"rec_install", "rec_erase"}
    BY <1>4 DEF ReadHead, TypeOK
  <2>4. Running' = {} BY <2>2, <2>3 DEF Running
  <2>5. Control'
    BY <1>2, <1>3, <2>2, <2>3, <2>4 DEF Control, CommitPC, RecoverPC
  <2>6. Loops'
    <3>1. hdr # << >> => 0 < Len(hdr) BY DEF TypeOK
    <3>2. pc'[p] = "rec_install" => tail'[p] < Len(lh')
      BY <1>4, <3>1 DEF ReadHead, Loops, TypeOK
    <3> QED BY <1>4, <2>2, <2>3, <3>2 DEF ReadHead, Loops, diskVars
  <2> QED BY <2>1, <2>4, <2>5, <2>6, ReserveEmpty DEF TypeOK, Loops
<1>5. CASE RecoverInstall(p)
  <2>1. lh' = lh BY <1>5 DEF RecoverInstall
  <2>2. /\ pc' \in [Procs -> PC] /\ tail' \in [Procs -> Nat]
        /\ \A q \in Procs \ {p} : pc'[q] = pc[q] /\ tail'[q] = tail[q]
        /\ pc'[p] \in {"rec_install", "rec_erase"}
        /\ tail'[p] < Len(lh)
    BY <1>5, <2>1, AdvanceFacts DEF RecoverInstall, PC, RecoverPC
  <2>3. /\ tail[p] + 1 \in 1 .. Len(lh) /\ tail[p] + 1 \in 1 .. LOGSIZE
        /\ lh[tail[p] + 1] \in Blocks
    BY <1>5, LogAssumption DEF RecoverInstall, Loops, TypeOK
  <2>4. TypeOK'
    <3>1. logblk[tail[p] + 1] \in Values BY <2>3 DEF TypeOK
    <3> QED BY <1>3, <1>5, <2>1, <2>2, <2>3, <3>1
            DEF RecoverInstall, InstallBlock, TypeOK
  <2>5. Running' = Running BY <1>1, <1>2, <2>2 DEF Running
  <2>6. Control'
    BY <1>1, <1>2, <1>3, <2>2, <2>5 DEF Control, CommitPC, RecoverPC
  <2>7. Loops'
    BY <1>1, <1>5, <2>1, <2>2 DEF RecoverInstall, Loops
  <2> QED BY <1>3, <2>1, <2>4, <2>5, <2>6, <2>7, ReserveKept
<1>6. CASE RecoverErase(p)
  <2>1. TypeOK' BY <1>6 DEF RecoverErase, TypeOK, PC
  <2>2. \A q \in Procs : pc'[q] = "idle" BY <1>6 DEF RecoverErase
  <2>3. Running' = {} BY <2>2 DEF Running
  <2>4. Control'
    BY <1>2, <1>3, <2>2, <2>3 DEF Control, CommitPC, RecoverPC
  <2>5. Len(lh') = 0 /\ Len(hdr') = 0 BY <1>6 DEF RecoverErase
  <2>6. Loops' BY <2>2, <2>5, LogAssumption DEF Loops
  <2> QED BY <2>1, <2>3, <2>4, <2>5, <2>6, ReserveEmpty, LogAssumption
<1> QED BY <1>4, <1>5, <1>6

\* A power failure leaves no operation running and starts the recovery.
LEMMA CrashInv == ASSUME Inv, Crash PROVE Inv'
<1> USE DEF Inv
<1>1. PICK q \in Procs : pc' = BootPC(q) BY DEF Crash
<1>2. /\ pc' \in [Procs -> PC] /\ pc'[q] = "read_head"
      /\ \A r \in Procs : r # q => pc'[r] = "off"
  BY <1>1 DEF BootPC, PC, RecoverPC
<1>3. Running' = {} BY <1>2 DEF Running
<1>4. TypeOK'
  <2>1. tail' \in [Procs -> Nat] /\ wrote' \in [Procs -> SUBSET Blocks]
    BY DEF Crash
  <2>2. lh' \in Seq(Blocks) BY DEF Crash
  <2>3. buf' \in [Blocks -> Values \cup {NotCached}] /\ pins' \in [Blocks -> Int]
    BY DEF Crash
  <2> QED BY <1>2, <2>1, <2>2, <2>3 DEF Crash, TypeOK, diskVars
<1>5. Control'
  BY <1>2, <1>3, FS_EmptySet DEF Control, Crash, CommitPC, RecoverPC
<1>6. Len(lh') = 0 /\ hdr' = hdr /\ tail'[q] = 0 BY DEF Crash, diskVars
<1>7. Loops' BY <1>2, <1>6, LogAssumption DEF Loops
<1> QED BY <1>3, <1>4, <1>5, <1>6, <1>7, ReserveEmpty, LogAssumption

\* The buffer cache may drop or read a block without touching the log.
LEMMA CacheInv == ASSUME Inv, NEW b \in Blocks, Evict(b) \/ Fill(b) PROVE Inv'
<1> USE DEF Inv
<1>1. UNCHANGED <<pc, tail, wrote, outstanding, committing, lh, pins, home,
                  logblk, hdr, panicked>>
  BY DEF Evict, Fill, diskVars
<1>2. buf' \in [Blocks -> Values \cup {NotCached}]
  BY DEF Evict, Fill, TypeOK
<1>3. Running' = Running BY <1>1 DEF Running
<1>4. TypeOK' BY <1>1, <1>2 DEF TypeOK
<1>5. Control' BY <1>1, <1>3 DEF Control
<1>6. Loops' BY <1>1 DEF Loops
<1> QED BY <1>1, <1>3, <1>4, <1>5, <1>6, ReserveKept

\* The invariant is inductive.
LEMMA NextInv == ASSUME Inv, [Next]_vars PROVE Inv'
<1>1. CASE UNCHANGED vars
  BY <1>1, TokensSame DEF vars, Inv, TypeOK, Control, Loops, Reserve, Running, Logged
<1>2. CASE Next
  BY <1>2, BeginSleepInv, BeginOpInv, LogWriteInv, EndOpInv, CommitStepInv,
     EraseHeadInv, FinishInv, RecoverInv, CrashInv, CacheInv DEF Next, Step
<1> QED BY <1>1, <1>2

\* The invariant holds in every reachable state.
LEMMA InvAlways == SafeSpec => []Inv
BY InitInv, NextInv, PTL DEF SafeSpec

-----------------------------------------------------------------------------
\* Type correctness of the log for every number of processes and blocks and
\* every geometry; log.outstanding never goes below zero.
THEOREM TypeCorrect == SafeSpec => []TypeOK
<1>1. Inv => TypeOK BY DEF Inv
<1> QED BY <1>1, InvAlways, PTL

\* commit() never runs beside an operation or another commit.
THEOREM CommitRunsAlone == SafeSpec => []CommitAlone
<1>1. Inv => CommitAlone
  BY FS_EmptySet DEF Inv, Control, CommitAlone, Running
<1> QED BY <1>1, InvAlways, PTL

\* What begin_op() reserves must exceed what an operation logs by more than
\* what the log on disk is short of the header: with log.size = LOGSIZE, as
\* mkfs writes it, an operation may log at most MAXOPBLOCKS - 2 blocks.
EnoughSlack == /\ OpBound < MAXOPBLOCKS
               /\ LOGSIZE - (size - 1) < MAXOPBLOCKS - OpBound

\* Under that condition begin_op() reserves enough: log_write() never panics,
\* for any number of concurrent operations, and neither does end_op().
THEOREM ReservationSuffices == ASSUME EnoughSlack PROVE SafeSpec => []NoPanic
<1>1. Init => NoPanic BY DEF Init, NoPanic
<1>2. ASSUME Inv, NoPanic, [Next]_vars PROVE NoPanic'
  <2>1. ASSUME NEW p \in Procs, NEW b \in Blocks, NEW v \in Values,
               LogWrite(p, b, v)
        PROVE  NoPanic'
    <3>1. /\ Cardinality(wrote[p]) =< Cardinality(wrote[p] \cup {b})
          /\ Cardinality(wrote[p] \cup {b}) \in Nat
          /\ Cardinality(wrote[p]) \in Nat
      BY <1>2, LogAssumption, FS_Subset, FS_CardinalityType, FS_AddElement
         DEF Inv, TypeOK
    <3>2. Cardinality(wrote[p]) =< OpBound
      BY <2>1, <3>1, LogAssumption DEF LogWrite
    <3>3. Len(lh) =< LOGSIZE - (MAXOPBLOCKS - OpBound)
      <4>1. MAXOPBLOCKS - Cardinality(wrote[p]) =< Cardinality(Tokens)
        BY <1>2, <2>1, <3>1, <3>2, LogAssumption, OwnTokens DEF LogWrite
      <4> QED BY <1>2, <3>1, <3>2, <4>1, TokensFinite, LogAssumption
              DEF Inv, Reserve, TypeOK
    <3>4. ~LogFull
      BY <1>2, <3>3, LogAssumption, EnoughSlack DEF EnoughSlack, LogFull, Inv, TypeOK
    <3>5. outstanding >= 1
      <4>1. Running # {} BY <2>1 DEF LogWrite, Running
      <4>2. Cardinality(Running) # 0 /\ Cardinality(Running) \in Nat
        BY <4>1, RunningFinite, FS_EmptySet, FS_CardinalityType
      <4> QED BY <1>2, <4>2 DEF Inv, Control
    <3>6. ~(outstanding < 1) BY <1>2, <3>5 DEF Inv, TypeOK
    <3> QED BY <1>2, <2>1, <3>4, <3>6 DEF LogWrite, NoPanic
  <2>2. ASSUME NEW p \in Procs, EndOp(p) PROVE NoPanic'
    BY <1>2, <2>2 DEF EndOp, NoPanic, Inv, Control, Running
  <2>3. CASE UNCHANGED vars BY <1>2, <2>3 DEF vars, NoPanic
  <2> QED BY <1>2, <2>1, <2>2, <2>3
       DEF Next, Step, NoPanic, BeginSleep, BeginOp, Commit, WriteLog, WriteHead,
           InstallTrans, EraseHead, Finish, ReadHead, RecoverInstall,
           RecoverErase, Evict, Fill, Crash
<1> QED BY <1>1, <1>2, InvAlways, PTL DEF SafeSpec

-----------------------------------------------------------------------------
(* The log implements the atomic disk: what the copy loops of commit() and  *)
(* of the recovery have written, and what follows for readers and for the   *)
(* disk a crash leaves.                                                     *)

\* log_write() absorbs: no block is twice in the log.
NoDuplicates ==
    /\ \A i, j \in 1 .. Len(lh) : lh[i] = lh[j] => i = j
    /\ \A i, j \in 1 .. Len(hdr) : hdr[i] = hdr[j] => i = j

\* The header on disk is empty outside the window from write_head() to the
\* erasure, in which it is log.lh; a booting kernel may find any header.
Header ==
    /\ \A p \in Procs : pc[p] \in {"install", "erase", "rec_install", "rec_erase"} =>
         hdr = lh
    /\ \A p \in Procs : pc[p] \in {"read_head", "finish"} => lh = << >>
    /\ hdr # << >> => \E p \in Procs : pc[p] \in {"install", "erase"} \cup RecoverPC
    /\ outstanding = 0 /\ ~committing /\ ~Booting => lh = << >>

\* What readers see outside recovery.
Reads == [b \in Blocks |-> Bread(b)]

\* Logged blocks that wait for their installation.
Waiting(i) == /\ ~Booting
              /\ \A p \in Procs : /\ pc[p] = "install" => tail[p] < i
                                  /\ pc[p] # "erase"
Pending == {lh[i] : i \in {j \in 1 .. Len(lh) : Waiting(j)}}

\* Exactly those are pinned, and every other block is clean.
Pinned ==
    \A b \in Blocks : /\ pins[b] = IF b \in Pending THEN 1 ELSE 0
                      /\ b \notin Pending => Reads[b] = home[b]

\* What the copy loops have copied.
Copied ==
    \A p \in Procs : \A i \in 1 .. Len(lh) :
        /\ \/ pc[p] = "write_log" /\ i =< tail[p]
           \/ pc[p] \in {"write_head", "install", "erase"}
           => logblk[i] = Reads[lh[i]]
        /\ \/ pc[p] \in {"install", "rec_install"} /\ i =< tail[p]
           \/ pc[p] \in {"erase", "rec_erase"}
           => home[lh[i]] = logblk[i]
        /\ pc[p] = "write_head" => tail[p] = 0

\* All of it, until a panic stops the machine in the middle of log_write(),
\* which only a running operation can reach.
Data == NoDuplicates /\ Header /\ Pinned /\ Copied
DataInv == IF panicked THEN outstanding # 0 ELSE Data

-----------------------------------------------------------------------------
\* While one process commits no other commits, recovers or runs an operation.
LEMMA CommitFacts ==
    ASSUME Inv, NEW p \in Procs, pc[p] \in CommitPC
    PROVE  /\ ~Booting /\ Running = {} /\ committing /\ outstanding = 0
           /\ \A q \in Procs : q # p => pc[q] \notin CommitPC
           /\ \A q \in Procs : pc[q] \notin RecoverPC \cup {"op"}
<1>1. committing /\ Running = {} /\ outstanding = 0
  BY FS_EmptySet DEF Inv, Control
<1>2. \A q \in Procs : pc[q] \notin RecoverPC
  BY DEF Inv, Control, CommitPC, RecoverPC
<1> QED BY <1>1, <1>2 DEF Inv, Control, Booting, Running

\* While one process recovers the others do not exist yet.
LEMMA BootFacts ==
    ASSUME Inv, NEW p \in Procs, pc[p] \in RecoverPC
    PROVE  /\ Booting /\ Running = {} /\ Pending = {}
           /\ \A q \in Procs : q # p => pc[q] = "off"
<1>1. \A q \in Procs : q # p => pc[q] = "off" BY DEF Inv, Control
<1>2. Booting BY DEF Booting
<1> QED BY <1>1, <1>2 DEF Running, RecoverPC, Pending, Waiting

\* Nothing waits for installation that did not before, and conversely, when
\* lh and the installing process stay as they are.
LEMMA PendingSame ==
    ASSUME lh' = lh, Booting' <=> Booting,
           \A p \in Procs : /\ pc'[p] = "install" <=> pc[p] = "install"
                            /\ pc[p] = "install" => tail'[p] = tail[p]
                            /\ pc'[p] = "erase" <=> pc[p] = "erase"
    PROVE  Pending' = Pending
BY DEF Pending, Waiting

\* While no block is being installed or erased, all of the log is pending.
LEMMA PendingAll ==
    ASSUME ~Booting, \A p \in Procs : pc[p] \notin {"install", "erase"}
    PROVE  Pending = Logged
BY DEF Pending, Waiting, Logged

\* The steps of begin_op() and end_op() around the commit touch no block.
LEMMA IdleData ==
    ASSUME Inv, Data, NEW p \in Procs,
           BeginSleep(p) \/ BeginOp(p) \/ EndOp(p) \/ Commit(p) \/ Finish(p)
    PROVE  Data'
<1> USE DEF Data
<1>1. UNCHANGED <<lh, hdr, buf, pins, home, logblk>>
  BY DEF BeginSleep, BeginOp, EndOp, Commit, Finish, diskVars
<1>2. \A q \in Procs : q # p => tail'[q] = tail[q]
  BY DEF BeginSleep, BeginOp, EndOp, Commit, Finish, Inv, TypeOK
<1>3. \A q \in Procs : pc[q] \notin RecoverPC /\ pc'[q] \notin RecoverPC
  <2>1. pc[p] \notin RecoverPC \cup {"off"}
    BY DEF BeginSleep, BeginOp, EndOp, Commit, Finish, RecoverPC
  <2>2. \A q \in Procs : pc[q] \notin RecoverPC
    BY <2>1 DEF Inv, Control
  <2> QED BY <2>2 DEF BeginSleep, BeginOp, EndOp, Commit, Finish, Wakeup, Inv,
                      TypeOK, RecoverPC
<1>4. ~Booting /\ ~Booting' BY <1>3 DEF Booting
<1>5. /\ pc'[p] \notin {"install", "erase", "write_head"}
      /\ pc[p] \notin {"install", "erase", "write_head", "write_log"}
      /\ pc'[p] = "write_log" => tail'[p] = 0
  BY DEF BeginSleep, BeginOp, EndOp, Commit, Finish, Wakeup, Inv, TypeOK
<1>6. \A q \in Procs : \A x \in CommitPC : q # p => (pc'[q] = x <=> pc[q] = x)
  BY DEF BeginSleep, BeginOp, EndOp, Commit, Finish, Wakeup, Inv, TypeOK, CommitPC
<1>7. Pending' = Pending
  <2>1. \A q \in Procs : /\ pc'[q] = "install" <=> pc[q] = "install"
                         /\ pc[q] = "install" => tail'[q] = tail[q]
                         /\ pc'[q] = "erase" <=> pc[q] = "erase"
    BY <1>2, <1>5, <1>6 DEF CommitPC
  <2> QED BY <1>1, <1>4, <2>1, PendingSame
<1>8. NoDuplicates' BY <1>1 DEF NoDuplicates
<1>9. Reads' = Reads BY <1>1 DEF Reads, Bread
<1>10. Pinned' BY <1>1, <1>7, <1>9 DEF Pinned
<1>11. Copied'
  <2>1. \A q \in Procs : q # p =>
           /\ pc'[q] \in {"write_log", "write_head", "install", "erase"} <=>
              pc[q] \in {"write_log", "write_head", "install", "erase"}
           /\ pc'[q] \in {"write_log", "write_head", "install", "erase"} =>
              pc'[q] = pc[q] /\ tail'[q] = tail[q]
    BY <1>2, <1>6 DEF CommitPC
  <2>2. \A i \in 1 .. Len(lh) : ~(i =< 0) OBVIOUS
  <2> QED BY <1>1, <1>3, <1>5, <1>9, <2>1, <2>2 DEF Copied, RecoverPC
<1>12. Header'
  <2>1. \A q \in Procs : pc'[q] \in {"install", "erase"} <=> pc[q] \in {"install", "erase"}
    BY <1>5, <1>6 DEF CommitPC
  <2>2. \A q \in Procs : pc'[q] = "finish" => lh = << >>
    <3>1. pc'[p] = "finish" => lh = << >>
      BY DEF BeginSleep, BeginOp, EndOp, Commit, Finish, Wakeup, Inv, TypeOK
    <3> QED BY <1>6, <3>1 DEF Header, CommitPC
  <2>3. outstanding' = 0 /\ ~committing' => lh = << >>
    <3>1. CASE BeginSleep(p) BY <3>1, <1>4 DEF BeginSleep, Header
    <3>2. CASE BeginOp(p) BY <3>2 DEF BeginOp, Inv, TypeOK
    <3>3. CASE EndOp(p) BY <3>3 DEF EndOp
    <3>4. CASE Commit(p) BY <3>4, CommitFacts DEF Commit, CommitPC
    <3>5. CASE Finish(p) BY <3>5 DEF Finish, Header
    <3> QED BY <3>1, <3>2, <3>3, <3>4, <3>5
  <2> QED BY <1>1, <1>3, <2>1, <2>2, <2>3 DEF Header, RecoverPC
<1> QED BY <1>8, <1>10, <1>11, <1>12

\* log_write() without a panic: the block is in the log, once, and pinned once.
LEMMA LogWriteData ==
    ASSUME Inv, Data, NEW p \in Procs, NEW b \in Blocks, NEW v \in Values,
           LogWrite(p, b, v), ~panicked'
    PROVE  Data'
<1> USE DEF Data
<1>1. \A q \in Procs : pc[q] \notin CommitPC \cup RecoverPC
  BY DEF LogWrite, Inv, Control, Running, RecoverPC
<1>2. UNCHANGED <<pc, tail, outstanding, committing, home, logblk, hdr>>
  BY DEF LogWrite, diskVars
<1>3. ~Booting /\ ~Booting' BY <1>1, <1>2 DEF Booting
<1>4. Pending = Logged /\ Pending' = Logged'
  <2>1. Pending = Logged BY <1>1, <1>3, PendingAll DEF CommitPC
  <2> QED BY <1>1, <1>2, <1>3, <2>1 DEF Pending, Waiting, Logged, CommitPC
<1>5. buf' = [buf EXCEPT ![b] = v] BY DEF LogWrite
<1>6. /\ b \in Logged => lh' = lh /\ pins' = pins
      /\ b \notin Logged => lh' = Append(lh, b) /\ pins' = [pins EXCEPT ![b] = @ + 1]
  BY DEF LogWrite
<1>7. Logged' = Logged \cup {b}
  <2>1. CASE b \in Logged BY <2>1, <1>6 DEF Logged
  <2>2. CASE b \notin Logged
    <3>1. /\ Len(lh') = Len(lh) + 1 /\ Len(lh) \in Nat
          /\ \A i \in 1 .. Len(lh) : lh'[i] = lh[i]
          /\ lh'[Len(lh) + 1] = b
      BY <2>2, <1>6, AppendFacts DEF Inv, TypeOK
    <3> QED BY <3>1 DEF Logged
  <2> QED BY <2>1, <2>2
<1>8. NoDuplicates'
  <2>1. CASE b \in Logged BY <2>1, <1>2, <1>6 DEF NoDuplicates
  <2>2. CASE b \notin Logged
    <3>1. /\ Len(lh') = Len(lh) + 1 /\ Len(lh) \in Nat
          /\ \A i \in 1 .. Len(lh) : lh'[i] = lh[i]
          /\ lh'[Len(lh) + 1] = b
      BY <2>2, <1>6, AppendFacts DEF Inv, TypeOK
    <3>2. \A i \in 1 .. Len(lh) : lh[i] # b BY <2>2 DEF Logged
    <3> QED BY <1>2, <3>1, <3>2 DEF NoDuplicates
  <2> QED BY <2>1, <2>2
<1>9. Header'
  <2>1. outstanding' # 0
    <3>1. p \in Running BY DEF LogWrite, Running
    <3>2. Cardinality(Running) # 0 BY <3>1, RunningFinite, FS_EmptySet
    <3> QED BY <1>2, <3>2 DEF Inv, Control
  <2> QED BY <1>1, <1>2, <2>1 DEF Header, CommitPC, RecoverPC
<1>10. Pinned'
  <2> SUFFICES ASSUME NEW c \in Blocks
               PROVE  /\ pins'[c] = IF c \in Logged' THEN 1 ELSE 0
                      /\ c \notin Logged' => Reads'[c] = home'[c]
    BY <1>4 DEF Pinned
  <2>1. pins'[c] = IF c \in Logged' THEN 1 ELSE 0
    BY <1>4, <1>6, <1>7 DEF Pinned, Inv, TypeOK
  <2>2. c \notin Logged' => Reads'[c] = home'[c]
    BY <1>2, <1>4, <1>5, <1>7 DEF Pinned, Reads, Bread, Inv, TypeOK
  <2> QED BY <2>1, <2>2
<1>11. Copied' BY <1>1, <1>2 DEF Copied, CommitPC, RecoverPC
<1> QED BY <1>8, <1>9, <1>10, <1>11

\* Reading a block through the cache again changes nothing.
LEMMA BreadAgain ==
    ASSUME TypeOK, NEW b \in Blocks, home' = home,
           buf' = [buf EXCEPT ![b] = Bread(b)]
    PROVE  Reads' = Reads
BY DEF Reads, Bread, TypeOK

\* One round of write_log() copies one more block, and write_log() ends after
\* the last.
LEMMA WriteLogData == ASSUME Inv, Data, NEW p \in Procs, WriteLog(p) PROVE Data'
<1> USE DEF Data
<1> DEFINE i == tail[p] + 1
<1>1. /\ ~Booting /\ \A q \in Procs : q # p => pc[q] \notin CommitPC
      /\ \A q \in Procs : pc[q] \notin RecoverPC
  BY CommitFacts DEF WriteLog, CommitPC
<1>2. /\ pc' \in [Procs -> PC]
      /\ \A q \in Procs \ {p} : pc'[q] = pc[q] /\ tail'[q] = tail[q]
      /\ pc'[p] \in {"write_log", "write_head"}
  BY AdvanceFacts DEF WriteLog, PC, CommitPC
<1>3. i \in 1 .. Len(lh) /\ i \in 1 .. LOGSIZE /\ lh[i] \in Blocks
  BY LogAssumption DEF WriteLog, Inv, Loops, TypeOK
<1>4. UNCHANGED <<wrote, outstanding, committing, lh, pins, home, hdr>>
  BY DEF WriteLog
<1>5. /\ logblk' = [logblk EXCEPT ![i] = Reads[lh[i]]]
      /\ Reads' = Reads
  <2>1. buf' = [buf EXCEPT ![lh[i]] = Bread(lh[i])] BY DEF WriteLog
  <2>2. Reads' = Reads BY <1>3, <1>4, <2>1, BreadAgain DEF Inv
  <2> QED BY <1>3, <2>2 DEF WriteLog, Reads
<1>7. ~Booting' BY <1>1, <1>2 DEF Booting, RecoverPC
<1>8. Pending' = Pending
  <2>1. pc[p] = "write_log" BY DEF WriteLog
  <2> QED BY <2>1, <1>1, <1>2, <1>4, <1>7, PendingSame
<1>9. NoDuplicates' BY <1>4 DEF NoDuplicates
<1>10. Pinned' BY <1>4, <1>5, <1>8 DEF Pinned
<1>11. hdr = << >> /\ committing
  BY <1>1, CommitFacts DEF Header, WriteLog, CommitPC
<1>12. Header'
  BY <1>1, <1>2, <1>4, <1>11 DEF Header, CommitPC, RecoverPC
<1>13. Copied'
  <2>1. \A q \in Procs : q # p => pc'[q] \notin CommitPC \cup RecoverPC
    BY <1>1, <1>2
  <2>2. ASSUME NEW j \in 1 .. Len(lh),
               pc'[p] = "write_head" \/ (pc'[p] = "write_log" /\ j =< tail'[p])
        PROVE  logblk'[j] = Reads'[lh[j]]
    <3>1. j =< i
      <4>1. CASE i = Len(lh) BY <4>1
      <4>2. CASE i # Len(lh)
        <5>1. pc' = pc /\ tail'[p] = i
          BY <4>2 DEF WriteLog, Advance, Inv, TypeOK
        <5> QED BY <2>2, <5>1 DEF WriteLog
      <4> QED BY <4>1, <4>2
    <3>2. lh[j] \in Blocks /\ j \in 1 .. LOGSIZE
      BY <3>1, <1>3, LogAssumption DEF Inv, TypeOK, Loops
    <3>3. j # i => logblk[j] = Reads[lh[j]]
      <4>1. j # i => j =< tail[p] BY <3>1 DEF Inv, TypeOK
      <4> QED BY <4>1 DEF Copied, WriteLog
    <3>4. logblk'[j] = Reads[lh[j]]
      BY <3>2, <3>3, <1>3, <1>5 DEF Inv, TypeOK
    <3> QED BY <3>4, <1>5
  <2>3. pc'[p] = "write_head" => tail'[p] = 0
    BY DEF WriteLog, Advance, Inv, TypeOK
  <2>4. \A q \in Procs : \A j \in 1 .. Len(lh) :
          \/ pc'[q] = "write_log" /\ j =< tail'[q]
          \/ pc'[q] \in {"write_head", "install", "erase"}
          => logblk'[j] = Reads'[lh[j]]
    <3> SUFFICES ASSUME NEW q \in Procs, NEW j \in 1 .. Len(lh),
                        \/ pc'[q] = "write_log" /\ j =< tail'[q]
                        \/ pc'[q] \in {"write_head", "install", "erase"}
                 PROVE  logblk'[j] = Reads'[lh[j]]
      OBVIOUS
    <3>1. q = p BY <2>1 DEF CommitPC
    <3>2. pc'[p] = "write_head" \/ (pc'[p] = "write_log" /\ j =< tail'[p])
      BY <3>1, <1>2
    <3> QED BY <3>2, <2>2
  <2>5. \A q \in Procs : pc'[q] \notin {"install", "rec_install", "erase", "rec_erase"}
    BY <1>2, <2>1 DEF CommitPC, RecoverPC
  <2>6. \A q \in Procs : pc'[q] = "write_head" => tail'[q] = 0
    BY <2>1, <2>3 DEF CommitPC
  <2> QED BY <1>4, <2>4, <2>5, <2>6 DEF Copied
<1> QED BY <1>9, <1>10, <1>12, <1>13

\* write_head(): the header now names blocks that are all in the log.
LEMMA WriteHeadData == ASSUME Inv, Data, NEW p \in Procs, WriteHead(p) PROVE Data'
<1> USE DEF Data
<1>1. /\ ~Booting /\ committing /\ \A q \in Procs : q # p => pc[q] \notin CommitPC
      /\ \A q \in Procs : pc[q] \notin RecoverPC
  BY CommitFacts DEF WriteHead, CommitPC
<1>2. /\ pc[p] = "write_head" /\ pc'[p] = "install"
      /\ \A q \in Procs : q # p => pc'[q] = pc[q]
  BY DEF WriteHead, Inv, TypeOK
<1>3. hdr' = lh /\ UNCHANGED <<tail, committing, lh, buf, pins, home, logblk>>
  BY DEF WriteHead
<1>4. ~Booting' BY <1>1, <1>2 DEF Booting, RecoverPC
<1>5. NoDuplicates' BY <1>3 DEF NoDuplicates
<1>6. Header' BY <1>1, <1>2, <1>3, <1>4 DEF Header, CommitPC, RecoverPC
<1>7. \A j \in 1 .. Len(lh) : tail[p] = 0 /\ tail[p] < j
  BY <1>2 DEF Copied
<1>8. Pending' = Pending
  <2>1. \A j \in 1 .. Len(lh) : Waiting(j) /\ Waiting(j)'
    BY <1>1, <1>2, <1>3, <1>4, <1>7 DEF Waiting, CommitPC
  <2> QED BY <1>3, <2>1 DEF Pending
<1>9. Pinned' BY <1>3, <1>8 DEF Pinned, Reads, Bread
<1>10. Copied'
  BY <1>1, <1>2, <1>3, <1>7 DEF Copied, Reads, Bread, CommitPC, RecoverPC
<1> QED BY <1>5, <1>6, <1>9, <1>10

\* Installing block i of log.lh: the block is as it was to readers, its home
\* has caught up, and no other block is concerned.
LEMMA InstallFacts ==
    ASSUME Inv, NoDuplicates, NEW i \in 1 .. Len(lh), NEW recovering \in BOOLEAN,
           InstallBlock(lh[i], logblk[i], recovering), lh' = lh
    PROVE  /\ lh[i] \in Blocks /\ logblk[i] \in Values
           /\ home'[lh[i]] = logblk[i] /\ Reads'[lh[i]] = logblk[i]
           /\ \A c \in Blocks : c # lh[i] =>
                home'[c] = home[c] /\ Reads'[c] = Reads[c] /\ pins'[c] = pins[c]
           /\ pins'[lh[i]] = IF recovering THEN pins[lh[i]] ELSE pins[lh[i]] - 1
           /\ \A j \in 1 .. Len(lh) : j # i => home'[lh[j]] = home[lh[j]]
<1>1. lh[i] \in Blocks /\ i \in 1 .. LOGSIZE
  BY LogAssumption DEF Inv, TypeOK, Loops
<1>2. logblk[i] \in Values /\ logblk[i] # NotCached
  BY <1>1, LogAssumption DEF Inv, TypeOK
<1>3. /\ home' = [home EXCEPT ![lh[i]] = logblk[i]]
      /\ buf' = [buf EXCEPT ![lh[i]] = logblk[i]]
      /\ pins' = IF recovering THEN pins ELSE [pins EXCEPT ![lh[i]] = @ - 1]
  BY DEF InstallBlock
<1>4. /\ home'[lh[i]] = logblk[i] /\ buf'[lh[i]] = logblk[i]
      /\ pins'[lh[i]] = IF recovering THEN pins[lh[i]] ELSE pins[lh[i]] - 1
      /\ \A c \in Blocks : c # lh[i] => home'[c] = home[c] /\ buf'[c] = buf[c]
                                        /\ pins'[c] = pins[c]
  BY <1>1, <1>3 DEF Inv, TypeOK
<1>5. Reads'[lh[i]] = logblk[i] /\ \A c \in Blocks : c # lh[i] => Reads'[c] = Reads[c]
  BY <1>1, <1>2, <1>4 DEF Reads, Bread
<1>6. \A j \in 1 .. Len(lh) : j # i => lh[j] # lh[i] /\ lh[j] \in Blocks
  BY DEF NoDuplicates, Inv, TypeOK
<1> QED BY <1>1, <1>2, <1>4, <1>5, <1>6

\* The position of a copy loop after one round, for a loop at pc "here".
LEMMA LoopRound ==
    ASSUME Inv, NEW p \in Procs, NEW next \in PC, Advance(p, next), lh' = lh,
           pc[p] \in {"write_log", "install", "rec_install"}, next # pc[p]
    PROVE  /\ tail[p] + 1 \in 1 .. Len(lh)
           /\ pc'[p] = next => tail[p] + 1 = Len(lh)
           /\ pc'[p] = pc[p] => tail'[p] = tail[p] + 1
           /\ pc'[p] \in {next, pc[p]}
<1>1. tail[p] \in Nat /\ tail[p] < Len(lh) /\ Len(lh) \in Nat
  BY DEF Inv, Loops, TypeOK
<1> QED BY <1>1 DEF Advance, Inv, TypeOK

\* One round of install_trans() unpins and cleans one more block.
LEMMA InstallData == ASSUME Inv, Data, NEW p \in Procs, InstallTrans(p) PROVE Data'
<1> USE DEF Data
<1> DEFINE i == tail[p] + 1
<1>1. /\ ~Booting /\ committing /\ \A q \in Procs : q # p => pc[q] \notin CommitPC
      /\ \A q \in Procs : pc[q] \notin RecoverPC
  BY CommitFacts DEF InstallTrans, CommitPC
<1>2. /\ pc[p] = "install" /\ pc'[p] \in {"install", "erase"}
      /\ \A q \in Procs \ {p} : pc'[q] = pc[q] /\ tail'[q] = tail[q]
  BY AdvanceFacts DEF InstallTrans, PC, CommitPC
<1>3. UNCHANGED <<committing, lh, logblk, hdr>> BY DEF InstallTrans
<1>4. /\ i \in 1 .. Len(lh)
      /\ pc'[p] = "erase" => i = Len(lh)
      /\ pc'[p] = "install" => tail'[p] = i
  BY <1>2, <1>3, LoopRound DEF InstallTrans, PC, CommitPC
<1>5. /\ lh[i] \in Blocks /\ logblk[i] \in Values
      /\ home'[lh[i]] = logblk[i] /\ Reads'[lh[i]] = logblk[i]
      /\ \A c \in Blocks : c # lh[i] =>
           home'[c] = home[c] /\ Reads'[c] = Reads[c] /\ pins'[c] = pins[c]
      /\ pins'[lh[i]] = pins[lh[i]] - 1
      /\ \A j \in 1 .. Len(lh) : j # i => home'[lh[j]] = home[lh[j]]
  BY <1>3, <1>4, InstallFacts DEF InstallTrans
<1>6. \A j \in 1 .. Len(lh) : logblk[j] = Reads[lh[j]]
  BY <1>2 DEF Copied
<1>7. \A c \in Blocks : Reads'[c] = Reads[c]
  BY <1>4, <1>5, <1>6
<1>8. ~Booting' BY <1>1, <1>2 DEF Booting, RecoverPC
<1>9. NoDuplicates' BY <1>3 DEF NoDuplicates
<1>10. Header' BY <1>1, <1>2, <1>3, <1>8 DEF Header, CommitPC, RecoverPC
<1>11. \A j \in 1 .. Len(lh) : /\ Waiting(j) <=> tail[p] < j
                               /\ Waiting(j)' <=> i < j
  <2>1. \A j \in 1 .. Len(lh) : Waiting(j) <=> tail[p] < j
    BY <1>1, <1>2 DEF Waiting, CommitPC
  <2>2. CASE pc'[p] = "install"
    <3>1. \A j \in 1 .. Len(lh) : Waiting(j)' <=> i < j
      BY <1>1, <1>2, <1>4, <1>8, <2>2 DEF Waiting, CommitPC
    <3> QED BY <2>1, <3>1
  <2>3. CASE pc'[p] = "erase"
    <3>1. \A j \in 1 .. Len(lh) : ~Waiting(j)' /\ ~(i < j)
      BY <1>4, <2>3 DEF Waiting, Inv, TypeOK
    <3> QED BY <2>1, <3>1
  <2> QED BY <1>2, <2>2, <2>3
<1>12. Pending' = Pending \ {lh[i]} /\ lh[i] \in Pending
  <2>1. Pending = {lh[j] : j \in {k \in 1 .. Len(lh) : tail[p] < k}}
    BY <1>11 DEF Pending
  <2>2. Pending' = {lh[j] : j \in {k \in 1 .. Len(lh) : i < k}}
    BY <1>3, <1>11 DEF Pending
  <2>3. tail[p] \in Nat BY DEF Inv, TypeOK
  <2> QED BY <1>4, <2>1, <2>2, <2>3 DEF NoDuplicates
<1>13. Pinned'
  <2> SUFFICES ASSUME NEW c \in Blocks
               PROVE  /\ pins'[c] = IF c \in Pending' THEN 1 ELSE 0
                      /\ c \notin Pending' => Reads'[c] = home'[c]
    BY DEF Pinned
  <2>1. CASE c = lh[i] BY <2>1, <1>5, <1>12 DEF Pinned
  <2>2. CASE c # lh[i] BY <2>2, <1>5, <1>12 DEF Pinned
  <2> QED BY <2>1, <2>2
<1>14. Copied'
  <2>1. \A j \in 1 .. Len(lh) : logblk[j] = Reads'[lh[j]]
    <3>1. \A j \in 1 .. Len(lh) : lh[j] \in Blocks BY DEF Inv, TypeOK
    <3> QED BY <3>1, <1>6, <1>7
  <2>2. \A j \in 1 .. Len(lh) :
          (pc'[p] = "install" /\ j =< tail'[p]) \/ pc'[p] = "erase" => j =< i
    BY <1>2, <1>4
  <2>3. \A j \in 1 .. Len(lh) : j =< i => home'[lh[j]] = logblk[j]
    <3>1. \A j \in 1 .. Len(lh) : j =< tail[p] => home[lh[j]] = logblk[j]
      BY <1>2 DEF Copied
    <3>2. \A j \in 1 .. Len(lh) : j =< i /\ j # i => j =< tail[p]
      BY DEF Inv, TypeOK
    <3> QED BY <3>1, <3>2, <1>5
  <2>4. \A q \in Procs : q # p => pc'[q] \notin CommitPC \cup RecoverPC
    BY <1>1, <1>2
  <2> QED BY <1>2, <1>3, <2>1, <2>2, <2>3, <2>4 DEF Copied, CommitPC, RecoverPC
<1> QED BY <1>9, <1>10, <1>13, <1>14

\* An empty log leaves nothing pending.
LEMMA PendingNone == ASSUME lh = << >> PROVE Pending = {}
BY DEF Pending

\* Erasing the header after the last installation: every block is clean.
LEMMA EraseData == ASSUME Inv, Data, NEW p \in Procs, EraseHead(p) PROVE Data'
<1> USE DEF Data
<1>1. /\ ~Booting /\ committing /\ \A q \in Procs : q # p => pc[q] \notin CommitPC
      /\ \A q \in Procs : pc[q] \notin RecoverPC
  BY CommitFacts DEF EraseHead, CommitPC
<1>2. /\ pc[p] = "erase" /\ pc'[p] = "finish"
      /\ \A q \in Procs : q # p => pc'[q] = pc[q]
  BY DEF EraseHead, Inv, TypeOK
<1>3. /\ lh' = << >> /\ hdr' = << >>
      /\ UNCHANGED <<committing, buf, pins, home>>
  BY DEF EraseHead
<1>4. Pending = {} BY <1>2 DEF Pending, Waiting
<1>5. Pending' = {} BY <1>3 DEF Pending
<1>6. NoDuplicates' BY <1>3 DEF NoDuplicates
<1>7. Header' BY <1>1, <1>2, <1>3 DEF Header, CommitPC, RecoverPC
<1>8. Pinned' BY <1>3, <1>4, <1>5 DEF Pinned, Reads, Bread
<1>9. Copied' BY <1>3 DEF Copied
<1> QED BY <1>6, <1>7, <1>8, <1>9

\* The recovery installs what the header on disk names, and then erases it.
LEMMA RecoverData ==
    ASSUME Inv, Data, NEW p \in Procs,
           ReadHead(p) \/ RecoverInstall(p) \/ RecoverErase(p)
    PROVE  Data'
<1> USE DEF Data
<1>1. pc[p] \in RecoverPC BY DEF ReadHead, RecoverInstall, RecoverErase, RecoverPC
<1>2. Booting /\ Pending = {} /\ \A q \in Procs : q # p => pc[q] = "off"
  BY <1>1, BootFacts
<1>3. CASE ReadHead(p)
  <2>1. /\ pc'[p] \in {"rec_install", "rec_erase"} /\ tail'[p] = 0
        /\ \A q \in Procs : q # p => pc'[q] = "off"
        /\ pc'[p] = "rec_erase" => hdr = << >>
    BY <1>2, <1>3 DEF ReadHead, Inv, TypeOK, Loops
  <2>2. lh' = hdr /\ UNCHANGED <<buf, pins, home, logblk, hdr>>
    BY <1>3 DEF ReadHead, diskVars
  <2>3. Booting' BY <2>1 DEF Booting, RecoverPC
  <2>4. Pending' = {} BY <2>3 DEF Pending, Waiting
  <2>5. NoDuplicates' BY <2>2 DEF NoDuplicates
  <2>6. Header' BY <2>1, <2>2, <2>3 DEF Header, RecoverPC, Booting
  <2>7. Pinned' BY <1>2, <2>2, <2>4 DEF Pinned, Reads, Bread
  <2>8. Copied'
    <3>1. \A i \in 1 .. Len(lh') : ~(i =< 0) OBVIOUS
    <3>2. pc'[p] = "rec_erase" => ~ \E i \in 1 .. Len(lh') : TRUE
      BY <2>1, <2>2
    <3> QED BY <2>1, <3>1, <3>2 DEF Copied
  <2> QED BY <2>5, <2>6, <2>7, <2>8
<1>4. CASE RecoverInstall(p)
  <2> DEFINE i == tail[p] + 1
  <2>1. /\ pc[p] = "rec_install" /\ pc'[p] \in {"rec_install", "rec_erase"}
        /\ \A q \in Procs : q # p => pc'[q] = "off"
    BY <1>2, <1>4, AdvanceFacts DEF RecoverInstall, PC, RecoverPC
  <2>2. UNCHANGED <<lh, logblk, hdr>> BY <1>4 DEF RecoverInstall
  <2>3. /\ i \in 1 .. Len(lh)
        /\ pc'[p] = "rec_erase" => i = Len(lh)
        /\ pc'[p] = "rec_install" => tail'[p] = i
    BY <1>4, <2>1, <2>2, LoopRound DEF RecoverInstall, PC, RecoverPC
  <2>4. /\ lh[i] \in Blocks
        /\ home'[lh[i]] = logblk[i] /\ Reads'[lh[i]] = logblk[i]
        /\ \A c \in Blocks : c # lh[i] =>
             home'[c] = home[c] /\ Reads'[c] = Reads[c] /\ pins'[c] = pins[c]
        /\ pins'[lh[i]] = pins[lh[i]]
        /\ \A j \in 1 .. Len(lh) : j # i => home'[lh[j]] = home[lh[j]]
    BY <1>4, <2>2, <2>3, InstallFacts DEF RecoverInstall
  <2>5. Booting' BY <2>1 DEF Booting, RecoverPC
  <2>6. Pending' = {} BY <2>5 DEF Pending, Waiting
  <2>7. NoDuplicates' BY <2>2 DEF NoDuplicates
  <2>8. Header' BY <2>1, <2>2, <2>5 DEF Header, RecoverPC
  <2>9. Pinned' BY <1>2, <2>4, <2>6 DEF Pinned
  <2>10. Copied'
    <3>1. \A j \in 1 .. Len(lh) :
            (pc'[p] = "rec_install" /\ j =< tail'[p]) \/ pc'[p] = "rec_erase" => j =< i
      BY <2>1, <2>3
    <3>2. \A j \in 1 .. Len(lh) : j =< i => home'[lh[j]] = logblk[j]
      <4>1. \A j \in 1 .. Len(lh) : j =< tail[p] => home[lh[j]] = logblk[j]
        BY <2>1 DEF Copied
      <4>2. \A j \in 1 .. Len(lh) : j =< i /\ j # i => j =< tail[p]
        BY DEF Inv, TypeOK
      <4> QED BY <4>1, <4>2, <2>4
    <3> QED BY <2>1, <2>2, <3>1, <3>2 DEF Copied
  <2> QED BY <2>7, <2>8, <2>9, <2>10
<1>5. CASE RecoverErase(p)
  <2>1. /\ \A q \in Procs : pc'[q] = "idle"
        /\ lh' = << >> /\ hdr' = << >> /\ UNCHANGED <<buf, pins, home>>
    BY <1>5 DEF RecoverErase
  <2>2. Pending' = {} BY <2>1 DEF Pending
  <2>3. Header' BY <2>1 DEF Header
  <2>4. Pinned' BY <1>2, <2>1, <2>2 DEF Pinned, Reads, Bread
  <2>5. Copied' BY <2>1 DEF Copied
  <2>6. NoDuplicates' BY <2>1 DEF NoDuplicates
  <2> QED BY <2>3, <2>4, <2>5, <2>6
<1> QED BY <1>3, <1>4, <1>5

\* A clean, unpinned buffer may be dropped or read in again unnoticed.
LEMMA CacheData ==
    ASSUME Inv, Data, NEW b \in Blocks, Evict(b) \/ Fill(b)
    PROVE  Data' /\ Reads' = Reads
<1> USE DEF Data
<1>1. UNCHANGED <<pc, tail, outstanding, committing, lh, pins, home, logblk, hdr>>
  BY DEF Evict, Fill, diskVars
<1>2. Reads' = Reads
  <2>1. CASE Evict(b)
    <3>1. b \notin Pending BY <2>1 DEF Evict, Pinned
    <3>2. buf[b] = home[b] BY <2>1, <3>1 DEF Evict, Pinned, Reads, Bread
    <3> QED BY <2>1, <3>2, <1>1 DEF Evict, Reads, Bread, Inv, TypeOK
  <2>2. CASE Fill(b)
    BY <2>2, <1>1 DEF Fill, Reads, Bread, Inv, TypeOK
  <2> QED BY <2>1, <2>2
<1>3. Booting' <=> Booting BY <1>1 DEF Booting
<1>4. Pending' = Pending BY <1>1, <1>3, PendingSame
<1>5. NoDuplicates' BY <1>1 DEF NoDuplicates
<1>6. Header' BY <1>1, <1>3 DEF Header
<1>7. Pinned' BY <1>1, <1>2, <1>4 DEF Pinned
<1>8. Copied' BY <1>1, <1>2 DEF Copied
<1> QED BY <1>2, <1>5, <1>6, <1>7, <1>8

\* When the machine boots memory is empty and the header is whatever it was.
Booted == /\ \E q \in Procs : pc = BootPC(q)
          /\ lh = << >>
          /\ buf = [b \in Blocks |-> NotCached]
          /\ pins = [b \in Blocks |-> 0]
          /\ \A i, j \in 1 .. Len(hdr) : hdr[i] = hdr[j] => i = j

\* A machine that boots has nothing to keep but the header.
LEMMA BootData == Booted => Data
<1> SUFFICES ASSUME Booted PROVE Data OBVIOUS
<1> USE DEF Booted
<1>0. PICK q \in Procs : pc = BootPC(q) OBVIOUS
<1>1. pc[q] = "read_head" /\ \A p \in Procs : p # q => pc[p] = "off"
  BY <1>0 DEF BootPC
<1>2. Booting /\ Pending = {} BY <1>1 DEF Booting, RecoverPC, Pending
<1>3. NoDuplicates BY DEF NoDuplicates
<1>4. Header BY <1>1, <1>2 DEF Header, RecoverPC
<1>5. Pinned BY <1>2 DEF Pinned, Reads, Bread
<1>6. Copied BY DEF Copied
<1> QED BY <1>3, <1>4, <1>5, <1>6 DEF Data

\* The strengthened invariant is inductive.
LEMMA DataInvAlways == SafeSpec => []DataInv
<1>1. Init => DataInv
  <2> SUFFICES ASSUME Init PROVE DataInv OBVIOUS
  <2>1. Booted BY DEF Init, Booted
  <2> QED BY <2>1, BootData DEF DataInv, Init
<1>2. ASSUME Inv, DataInv, [Next]_vars PROVE DataInv'
  <2>1. CASE UNCHANGED vars
    BY <1>2, <2>1 DEF vars, DataInv, Data, NoDuplicates, Header, Pinned, Copied,
       Pending, Waiting, Booting, Reads, Bread
  <2>2. ASSUME Next PROVE Data /\ ~panicked
    BY <1>2, <2>2 DEF DataInv, Next, Step, BeginSleep, BeginOp, LogWrite, EndOp,
       Commit, WriteLog, WriteHead, InstallTrans, EraseHead, Finish, ReadHead,
       RecoverInstall, RecoverErase, Evict, Fill, Crash
  <2>3. ASSUME NEW p \in Procs, NEW b \in Blocks, NEW v \in Values,
               LogWrite(p, b, v), Data
        PROVE  DataInv'
    <3>1. outstanding' # 0
      <4>1. p \in Running BY <2>3 DEF LogWrite, Running
      <4>2. Cardinality(Running) # 0 BY <4>1, RunningFinite, FS_EmptySet
      <4> QED BY <1>2, <2>3, <4>2 DEF LogWrite, Inv, Control
    <3> QED BY <1>2, <2>3, <3>1, LogWriteData DEF DataInv
  <2>4. CASE Crash
    <3>1. Booted' BY <2>2, <2>4 DEF Crash, Booted, Data, NoDuplicates, diskVars, Next
    <3>2. Data' BY <3>1, BootData, PTL
    <3> QED BY <3>2, <2>4 DEF DataInv, Crash
  <2>5. ASSUME NEW p \in Procs, BeginSleep(p) \/ BeginOp(p) \/ Step(p), Data,
               ~panicked
        PROVE  DataInv'
    <3>1. Data'
      BY <1>2, <2>5, IdleData, WriteLogData, WriteHeadData, InstallData, EraseData,
         RecoverData DEF Step
    <3>2. ~panicked'
      <4>1. EndOp(p) => ~committing BY <1>2 DEF EndOp, Inv, Control, Running
      <4> QED BY <2>5, <4>1 DEF Step, BeginSleep, BeginOp, EndOp, Commit, WriteLog,
               WriteHead, InstallTrans, EraseHead, Finish, ReadHead,
               RecoverInstall, RecoverErase
    <3> QED BY <3>1, <3>2 DEF DataInv
  <2>6. ASSUME NEW b \in Blocks, Evict(b) \/ Fill(b), Data PROVE DataInv'
    BY <1>2, <2>6, CacheData DEF DataInv, Evict, Fill
  <2> QED BY <1>2, <2>1, <2>2, <2>3, <2>4, <2>5, <2>6 DEF Next
<1> QED BY <1>1, <1>2, InvAlways, PTL DEF SafeSpec

-----------------------------------------------------------------------------
\* What a recovery would leave: the log blocks that the header names, and the
\* home block of every other block.
Overlay ==
    /\ Recovered \in [Blocks -> Values]
    /\ \A i \in 1 .. Len(hdr) : hdr[i] \in Blocks /\ Recovered[hdr[i]] = logblk[i]
    /\ \A b \in Blocks : b \notin {hdr[i] : i \in 1 .. Len(hdr)} =>
         Recovered[b] = home[b]

\* Recovered is that overlay, because no block is twice in the header.
LEMMA RecoveredFacts == Inv /\ NoDuplicates => Overlay
<1> SUFFICES ASSUME Inv, NoDuplicates
             PROVE  /\ \A b \in Blocks : Recovered[b] \in Values
                    /\ \A i \in 1 .. Len(hdr) :
                         hdr[i] \in Blocks /\ Recovered[hdr[i]] = logblk[i]
                    /\ \A b \in Blocks : b \notin {hdr[i] : i \in 1 .. Len(hdr)} =>
                         Recovered[b] = home[b]
  BY DEF Overlay, Recovered
<1>1. \A i \in 1 .. Len(hdr) : /\ hdr[i] \in Blocks /\ i \in 1 .. LOGSIZE
                               /\ logblk[i] \in Values
  BY LogAssumption DEF Inv, TypeOK, Loops
<1>2. ASSUME NEW i \in 1 .. Len(hdr) PROVE Recovered[hdr[i]] = logblk[i]
  <2>1. (CHOOSE k \in 1 .. Len(hdr) : hdr[k] = hdr[i]) = i BY DEF NoDuplicates
  <2> QED BY <1>1, <2>1 DEF Recovered
<1>3. \A b \in Blocks : b \notin {hdr[i] : i \in 1 .. Len(hdr)} => Recovered[b] = home[b]
  BY DEF Recovered
<1>4. \A b \in Blocks : Recovered[b] \in Values
  BY <1>1, <1>2, <1>3 DEF Inv, TypeOK
<1> QED BY <1>1, <1>2, <1>3, <1>4

\* With an empty header that is the home blocks.
LEMMA RecoveredHome == TypeOK /\ hdr = << >> => Recovered = home
BY DEF Recovered, TypeOK

\* Nothing written to the disk, nothing changed for a crash.
LEMMA RecoveredSame ==
    ASSUME UNCHANGED <<home, logblk, hdr>> PROVE Recovered' = Recovered
BY DEF Recovered

\* When everything is clean, readers see the home blocks.
LEMMA ReadsHome == TypeOK /\ Pinned /\ Pending = {} => Reads = home
BY DEF TypeOK, Pinned, Reads

\* With no operation in progress and no commit under way, what readers see is
\* what a crash leaves.
THEOREM WrittenIsDurable == SafeSpec => []QuiescentDurable
<1>1. Inv /\ DataInv => QuiescentDurable
  <2> SUFFICES ASSUME Inv, DataInv, outstanding = 0, ~committing
               PROVE  Mem = Recovered
    BY DEF QuiescentDurable
  <2>1. Data BY DEF DataInv
  <2>2. CASE Booting BY <2>2 DEF Mem
  <2>3. CASE ~Booting
    <3>1. lh = << >> BY <2>1, <2>3 DEF Data, Header
    <3>2. \A p \in Procs : pc[p] \notin CommitPC BY DEF Inv, Control
    <3>3. hdr = << >> BY <2>1, <2>3, <3>2 DEF Data, Header, Booting, CommitPC
    <3>4. Reads = home BY <2>1, <3>1, PendingNone, ReadsHome DEF Data, Inv
    <3> QED BY <2>3, <3>3, <3>4, RecoveredHome DEF Mem, Reads, Inv
  <2> QED BY <2>2, <2>3
<1> QED BY <1>1, InvAlways, DataInvAlways, PTL

\* As long as log_write() does not panic, which EnoughSlack ensures, a buffer
\* that differs from its home block is pinned, and exactly once.
THEOREM DirtyStaysPinned == ASSUME EnoughSlack PROVE SafeSpec => []DirtyPinned
<1>1. DataInv /\ NoPanic => DirtyPinned
  BY DEF DataInv, NoPanic, Data, Pinned, DirtyPinned, Reads
<1> QED BY <1>1, DataInvAlways, ReservationSuffices, PTL

-----------------------------------------------------------------------------
(* The refinement, one step at a time. *)

\* What readers see changes with the reads and the disk only.
LEMMA MemSame ==
    ASSUME Reads' = Reads, Recovered' = Recovered, Booting' <=> Booting
    PROVE  Mem' = Mem
BY DEF Mem, Reads

\* begin_op() and end_op() are the abstract Begin and End, or stutter.
LEMMA IdleRefines ==
    ASSUME Inv, Data, NEW p \in Procs,
           BeginSleep(p) \/ BeginOp(p) \/ EndOp(p) \/ Commit(p) \/ Finish(p)
    PROVE  [Atomic!Next]_(Atomic!vars)
<1>1. UNCHANGED <<lh, hdr, buf, pins, home, logblk>>
  BY DEF BeginSleep, BeginOp, EndOp, Commit, Finish, diskVars
<1>2. \A q \in Procs : pc[q] \notin RecoverPC /\ pc'[q] \notin RecoverPC
  <2>1. pc[p] \notin RecoverPC \cup {"off"}
    BY DEF BeginSleep, BeginOp, EndOp, Commit, Finish, RecoverPC
  <2>2. \A q \in Procs : pc[q] \notin RecoverPC
    BY <2>1 DEF Inv, Control
  <2> QED BY <2>2 DEF BeginSleep, BeginOp, EndOp, Commit, Finish, Wakeup, Inv,
                      TypeOK, RecoverPC
<1>3. Recovered' = Recovered /\ Reads' = Reads
  BY <1>1, RecoveredSame DEF Reads, Bread
<1>4. Mem' = Mem BY <1>2, <1>3, MemSame DEF Booting
<1>5. CASE BeginOp(p)
  <2>1. Running' = Running \cup {p} /\ p \notin Running
    BY <1>5 DEF BeginOp, Running, Inv, TypeOK
  <2>2. Atomic!Begin(p) BY <1>3, <1>4, <2>1 DEF Atomic!Begin
  <2> QED BY <2>2 DEF Atomic!Next
<1>6. CASE EndOp(p)
  <2>1. Running' = Running \ {p} /\ p \in Running
    BY <1>6 DEF EndOp, Running, Wakeup, Inv, TypeOK
  <2>2. Atomic!End(p) BY <1>3, <1>4, <2>1 DEF Atomic!End
  <2> QED BY <2>2 DEF Atomic!Next
<1>7. CASE BeginSleep(p) \/ Commit(p) \/ Finish(p)
  <2>1. Running' = Running
    BY <1>7 DEF BeginSleep, Commit, Finish, Running, Wakeup, Inv, TypeOK
  <2> QED BY <1>3, <1>4, <2>1 DEF Atomic!vars
<1> QED BY <1>5, <1>6, <1>7

\* log_write() is the abstract Write, whether or not it panics.
LEMMA LogWriteRefines ==
    ASSUME Inv, NEW p \in Procs, NEW b \in Blocks, NEW v \in Values,
           LogWrite(p, b, v)
    PROVE  Atomic!Next
<1>1. \A q \in Procs : pc[q] \notin RecoverPC
  BY DEF LogWrite, Inv, Control, RecoverPC
<1>2. UNCHANGED <<pc, home, logblk, hdr>> BY DEF LogWrite, diskVars
<1>3. Recovered' = Recovered BY <1>2, RecoveredSame
<1>4. ~Booting /\ ~Booting' BY <1>1, <1>2 DEF Booting
<1>5. v # NotCached BY LogAssumption
<1>6. Reads' = [Reads EXCEPT ![b] = v]
  BY <1>2, <1>5 DEF LogWrite, Reads, Bread, Inv, TypeOK
<1>7. Mem' = [Mem EXCEPT ![b] = v] BY <1>4, <1>6 DEF Mem, Reads
<1>8. Running' = Running /\ p \in Running BY <1>2 DEF Running, LogWrite
<1>9. Atomic!Write(p, b, v) BY <1>3, <1>7, <1>8 DEF Atomic!Write
<1> QED BY <1>9 DEF Atomic!Next

\* write_log() writes blocks that no header names yet: it stutters.
LEMMA WriteLogRefines ==
    ASSUME Inv, Inv', Data, NEW p \in Procs, WriteLog(p)
    PROVE  UNCHANGED Atomic!vars
<1>1. /\ ~Booting /\ \A q \in Procs : q # p => pc[q] \notin CommitPC
      /\ \A q \in Procs : pc[q] \notin RecoverPC \cup {"op"}
  BY CommitFacts DEF WriteLog, CommitPC
<1>2. /\ pc'[p] \in {"write_log", "write_head"} /\ pc[p] = "write_log"
      /\ \A q \in Procs \ {p} : pc'[q] = pc[q]
  BY AdvanceFacts DEF WriteLog, PC, CommitPC
<1>3. hdr = << >> /\ hdr' = << >> /\ home' = home
  BY <1>1, <1>2 DEF Data, Header, WriteLog, CommitPC
<1>4. Recovered = home /\ Recovered' = home'
  <2>1. Recovered = home BY <1>3, RecoveredHome DEF Inv
  <2>2. TypeOK' /\ (hdr = << >>)' BY <1>3 DEF Inv
  <2>3. (Recovered = home)' BY <2>2, RecoveredHome, PTL
  <2> QED BY <2>1, <2>3
<1>5. Reads' = Reads
  <2>1. lh[tail[p] + 1] \in Blocks BY DEF WriteLog, Inv, Loops, TypeOK
  <2>2. buf' = [buf EXCEPT ![lh[tail[p] + 1]] = Bread(lh[tail[p] + 1])]
    BY DEF WriteLog
  <2> QED BY <1>3, <2>1, <2>2, BreadAgain DEF Inv
<1>6. ~Booting' BY <1>1, <1>2 DEF Booting, RecoverPC
<1>7. Mem' = Mem BY <1>1, <1>3, <1>4, <1>5, <1>6, MemSame
<1>8. Running' = Running BY <1>2 DEF Running
<1> QED BY <1>3, <1>4, <1>7, <1>8 DEF Atomic!vars

\* write_head() is the abstract Commit: at once all of what readers see.
LEMMA WriteHeadRefines ==
    ASSUME Inv, Inv', Data, Data', NEW p \in Procs, WriteHead(p)
    PROVE  Atomic!Next
<1>1. /\ ~Booting /\ Running = {}
      /\ \A q \in Procs : q # p => pc[q] \notin CommitPC
      /\ \A q \in Procs : pc[q] \notin RecoverPC \cup {"op"}
  BY CommitFacts DEF WriteHead, CommitPC
<1>2. /\ pc[p] = "write_head" /\ pc'[p] = "install"
      /\ \A q \in Procs : q # p => pc'[q] = pc[q]
  BY DEF WriteHead, Inv, TypeOK
<1>3. hdr' = lh /\ UNCHANGED <<lh, buf, home, logblk>> BY DEF WriteHead
<1>4. ~Booting' BY <1>1, <1>2 DEF Booting, RecoverPC
<1>5. Reads' = Reads BY <1>3 DEF Reads, Bread
<1>6. Mem = Reads /\ Mem' = Reads BY <1>1, <1>4, <1>5 DEF Mem, Reads
<1>7. Overlay'
  <2>1. Inv' /\ NoDuplicates' BY DEF Data
  <2> QED BY <2>1, RecoveredFacts, PTL
<1>8. Recovered' = Reads
  <2>1. Pending = Logged
    BY <1>1, <1>2, PendingAll DEF CommitPC
  <2>2. \A i \in 1 .. Len(lh) : logblk[i] = Reads[lh[i]]
    BY <1>2 DEF Data, Copied
  <2>3. \A b \in Blocks : b \notin Logged => Reads[b] = home[b]
    BY <2>1 DEF Data, Pinned
  <2>4. \A b \in Blocks : Recovered'[b] = Reads[b]
    BY <1>3, <1>7, <2>2, <2>3 DEF Overlay, Logged
  <2> QED BY <1>7, <2>4 DEF Overlay, Reads
<1>9. Running' = Running /\ Running = {} BY <1>1, <1>2 DEF Running
<1>10. Atomic!Commit BY <1>6, <1>8, <1>9 DEF Atomic!Commit
<1> QED BY <1>10 DEF Atomic!Next

\* Installing a block that the header names changes nothing for a crash.
LEMMA InstallKeeps ==
    ASSUME Inv, Data, hdr = lh, UNCHANGED <<lh, logblk, hdr>>,
           NEW i \in 1 .. Len(lh), lh[i] \in Blocks,
           \A c \in Blocks : c # lh[i] => home'[c] = home[c]
    PROVE  Recovered' = Recovered
<1>1. \A b \in Blocks : b \notin {hdr[k] : k \in 1 .. Len(hdr)} => home'[b] = home[b]
  OBVIOUS
<1> QED BY <1>1 DEF Recovered

\* install_trans() stutters.
LEMMA InstallRefines ==
    ASSUME Inv, Data, NEW p \in Procs, InstallTrans(p)
    PROVE  UNCHANGED Atomic!vars
<1>1. /\ ~Booting /\ \A q \in Procs : pc[q] \notin RecoverPC \cup {"op"}
  BY CommitFacts DEF InstallTrans, CommitPC
<1>2. /\ pc[p] = "install" /\ pc'[p] \in {"install", "erase"}
      /\ \A q \in Procs \ {p} : pc'[q] = pc[q]
  BY AdvanceFacts DEF InstallTrans, PC, CommitPC
<1>3. UNCHANGED <<lh, logblk, hdr>> /\ hdr = lh
  BY <1>2 DEF InstallTrans, Data, Header
<1> DEFINE i == tail[p] + 1
<1>4. i \in 1 .. Len(lh)
  BY <1>2, <1>3, LoopRound DEF InstallTrans, PC, CommitPC
<1>5. /\ lh[i] \in Blocks /\ Reads'[lh[i]] = logblk[i]
      /\ \A c \in Blocks : c # lh[i] => home'[c] = home[c] /\ Reads'[c] = Reads[c]
  BY <1>3, <1>4, InstallFacts DEF InstallTrans, Data
<1>6. Reads' = Reads
  <2>1. logblk[i] = Reads[lh[i]] BY <1>2, <1>4 DEF Data, Copied
  <2>2. \A c \in Blocks : Reads'[c] = Reads[c] BY <1>5, <2>1
  <2> QED BY <2>2 DEF Reads
<1>7. Recovered' = Recovered
  <2> HIDE DEF i
  <2> QED BY <1>3, <1>4, <1>5, InstallKeeps
<1>8. ~Booting' BY <1>1, <1>2 DEF Booting, RecoverPC
<1>9. Mem' = Mem BY <1>1, <1>6, <1>7, <1>8, MemSame
<1>10. Running' = Running BY <1>2 DEF Running
<1> QED BY <1>7, <1>9, <1>10 DEF Atomic!vars

\* Erasing the header after the last installation stutters: the home blocks
\* hold all that the log did.
LEMMA EraseRefines ==
    ASSUME Inv, Inv', Data, NEW p \in Procs, EraseHead(p) \/ RecoverErase(p)
    PROVE  UNCHANGED Atomic!vars
<1>1. pc[p] \in {"erase", "rec_erase"} BY DEF EraseHead, RecoverErase
<1>2. hdr = lh /\ \A i \in 1 .. Len(lh) : home[lh[i]] = logblk[i]
  BY <1>1 DEF Data, Header, Copied
<1>3. hdr' = << >> /\ UNCHANGED <<home, buf>> BY DEF EraseHead, RecoverErase
<1>4. Recovered = home
  <2>1. Overlay BY RecoveredFacts DEF Data
  <2>2. \A b \in Blocks : Recovered[b] = home[b] BY <1>2, <2>1 DEF Overlay
  <2> QED BY <2>1, <2>2 DEF Overlay, Inv, TypeOK
<1>5. Recovered' = home'
  <2>1. TypeOK' /\ (hdr = << >>)' BY <1>3 DEF Inv
  <2>2. (Recovered = home)' BY <2>1, RecoveredHome, PTL
  <2> QED BY <2>2
<1>6. Reads' = Reads BY <1>3 DEF Reads, Bread
<1>7. CASE EraseHead(p)
  <2>1. \A q \in Procs : pc[q] \notin RecoverPC \cup {"op"}
    BY <1>7, CommitFacts DEF EraseHead, CommitPC
  <2>2. \A q \in Procs : pc'[q] \notin RecoverPC \cup {"op"}
    BY <1>7, <2>1 DEF EraseHead, Inv, TypeOK, RecoverPC
  <2>3. Mem' = Mem BY <1>3, <1>4, <1>5, <1>6, <2>1, <2>2, MemSame DEF Booting
  <2>4. Running' = Running BY <2>1, <2>2 DEF Running
  <2> QED BY <1>3, <1>4, <1>5, <2>3, <2>4 DEF Atomic!vars
<1>8. CASE RecoverErase(p)
  <2>1. Booting /\ Running = {} /\ Pending = {}
    BY <1>8, BootFacts DEF RecoverErase, RecoverPC
  <2>2. \A q \in Procs : pc'[q] = "idle" BY <1>8 DEF RecoverErase
  <2>3. ~Booting' /\ Running' = {} BY <2>2 DEF Booting, Running, RecoverPC
  <2>4. Reads = home BY <2>1, ReadsHome DEF Data, Inv
  <2>5. Mem = home /\ Mem' = home
    BY <1>4, <1>6, <2>1, <2>3, <2>4 DEF Mem, Reads
  <2> QED BY <1>3, <1>4, <1>5, <2>1, <2>3, <2>5 DEF Atomic!vars
<1> QED BY <1>7, <1>8

\* The rest of the recovery stutters too.
LEMMA RecoverRefines ==
    ASSUME Inv, Data, NEW p \in Procs, ReadHead(p) \/ RecoverInstall(p)
    PROVE  UNCHANGED Atomic!vars
<1>1. /\ Booting /\ Running = {} /\ \A q \in Procs : q # p => pc[q] = "off"
  BY BootFacts DEF ReadHead, RecoverInstall, RecoverPC
<1>2. /\ pc'[p] \in {"rec_install", "rec_erase"}
      /\ \A q \in Procs : q # p => pc'[q] = "off"
  <2>1. CASE ReadHead(p) BY <1>1, <2>1 DEF ReadHead, Inv, TypeOK
  <2>2. CASE RecoverInstall(p)
    BY <1>1, <2>2, AdvanceFacts DEF RecoverInstall, PC, RecoverPC
  <2> QED BY <2>1, <2>2
<1>3. Booting' /\ Running' = {} BY <1>2 DEF Booting, Running, RecoverPC
<1>4. Recovered' = Recovered
  <2>1. CASE ReadHead(p) BY <2>1, RecoveredSame DEF ReadHead, diskVars
  <2>2. CASE RecoverInstall(p)
    <3>1. UNCHANGED <<lh, logblk, hdr>> /\ hdr = lh
      BY <2>2 DEF RecoverInstall, Data, Header
    <3>2. PICK i \in 1 .. Len(lh) :
            i = tail[p] + 1 /\ InstallBlock(lh[i], logblk[i], TRUE)
      BY <2>2, <3>1, LoopRound DEF RecoverInstall, PC, RecoverPC
    <3>3. /\ lh[i] \in Blocks
          /\ \A c \in Blocks : c # lh[i] => home'[c] = home[c]
      BY <3>1, <3>2, InstallFacts DEF Data
    <3> QED BY <3>1, <3>3, InstallKeeps
  <2> QED BY <2>1, <2>2
<1>5. Mem' = Mem BY <1>1, <1>3, <1>4 DEF Mem
<1> QED BY <1>1, <1>3, <1>4, <1>5 DEF Atomic!vars

\* A crash is the abstract Crash, at any point of a commit or of a recovery.
LEMMA CrashRefines == ASSUME Crash PROVE Atomic!Next
<1>1. PICK q \in Procs : pc' = BootPC(q) BY DEF Crash
<1>2. pc'[q] = "read_head" /\ \A r \in Procs : r # q => pc'[r] = "off"
  BY <1>1 DEF BootPC
<1>3. Booting' /\ Running' = {} BY <1>2 DEF Booting, Running, RecoverPC
<1>4. Recovered' = Recovered BY RecoveredSame DEF Crash, diskVars
<1>5. Mem' = Recovered BY <1>3, <1>4 DEF Mem
<1>6. Atomic!Crash BY <1>3, <1>4, <1>5 DEF Atomic!Crash
<1> QED BY <1>6 DEF Atomic!Next

\* The cache may drop and read blocks without anybody noticing.
LEMMA CacheRefines ==
    ASSUME Inv, Data, NEW b \in Blocks, Evict(b) \/ Fill(b)
    PROVE  UNCHANGED Atomic!vars
<1>1. UNCHANGED <<pc, home, logblk, hdr>> BY DEF Evict, Fill, diskVars
<1>2. Reads' = Reads BY CacheData
<1>3. Recovered' = Recovered BY <1>1, RecoveredSame
<1>4. Mem' = Mem BY <1>1, <1>2, <1>3, MemSame DEF Booting
<1> QED BY <1>1, <1>3, <1>4 DEF Atomic!vars, Running

\* The log implements the atomic disk: whatever the number of processes and
\* blocks and wherever power fails, the disk holds whole groups of operations
\* and readers never notice an installation, an eviction or a recovery.
THEOREM LogIsAtomic == SafeSpec => CrashAtomic
<1>1. Init => Atomic!Init
  <2> SUFFICES ASSUME Init PROVE Atomic!Init OBVIOUS
  <2>1. PICK q \in Procs : pc = BootPC(q) BY DEF Init
  <2>2. Booting /\ Running = {}
    BY <2>1 DEF BootPC, Booting, Running, RecoverPC
  <2>3. Recovered \in [Blocks -> Values]
    BY InitInv, RecoveredHome DEF Init, Inv, TypeOK
  <2> QED BY <2>2, <2>3 DEF Atomic!Init, Mem
<1>2. ASSUME Inv, Inv', DataInv, DataInv', [Next]_vars
      PROVE  [Atomic!Next]_(Atomic!vars)
  <2>1. CASE UNCHANGED vars
    BY <2>1 DEF vars, Atomic!vars, Mem, Recovered, Running, Booting, Bread
  <2>2. CASE Next
    <3>1. Data /\ ~panicked
      BY <1>2, <2>2 DEF DataInv, Next, Step, BeginSleep, BeginOp, LogWrite, EndOp,
         Commit, WriteLog, WriteHead, InstallTrans, EraseHead, Finish, ReadHead,
         RecoverInstall, RecoverErase, Evict, Fill, Crash
    <3>2. ASSUME NEW p \in Procs, WriteHead(p) PROVE Atomic!Next
      <4>1. Data' BY <1>2, <3>1, <3>2 DEF DataInv, WriteHead
      <4> QED BY <1>2, <3>1, <3>2, <4>1, WriteHeadRefines
    <3> QED BY <1>2, <2>2, <3>1, <3>2, IdleRefines, LogWriteRefines,
            WriteLogRefines, InstallRefines, EraseRefines, RecoverRefines,
            CrashRefines, CacheRefines DEF Next, Step
  <2> QED BY <1>2, <2>1, <2>2
<1> QED BY <1>1, <1>2, InvAlways, DataInvAlways, PTL DEF SafeSpec, CrashAtomic, Atomic!Spec
=============================================================================
