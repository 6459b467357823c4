---------------------------- MODULE KernelProofs ----------------------------
(***************************************************************************)
(* Proofs about processes, for any number of CPUs, slots of the process    *)
(* table, open files and descriptors: processes and the scheduler (module  *)
(* Proc), traps and context switches (Trap), the file table (FileTable).   *)
(***************************************************************************)
EXTENDS Proc, Trap, FileTable, NumberFacts, FiniteSetTheorems, TLAPS

(***************************************************************************)
(* Processes and the scheduler.                                            *)
(***************************************************************************)

\* Where a thread runs while its CPU holds wait_lock.
WaitPC == {"wakeup", "exit_parent", "exit_zombie", "wait_scan", "sleep"}
\* Where a timer interrupt can catch it: its CPU holds no lock.
OpenPC == {"user", "fork_parent", "fork_run", "wait_again"}
PC == {"resume", "sched", "fork_copy"} \cup WaitPC \cup OpenPC

Thread == [pc : PC, back : OpenPC, np : Procs \cup {None}, i : Nat,
           on : (Procs \cup {None}) \X {"user", "exit_parent", "exit_zombie"},
           kids : BOOLEAN]

Types ==
    /\ state \in [Procs -> {"UNUSED", "USED", "SLEEPING", "RUNNABLE", "RUNNING", "ZOMBIE"}]
    /\ parent \in [Procs -> Procs \cup {None}]
    /\ chan \in [Procs -> Procs \cup {None}]
    /\ cpu \in [CPUs -> Procs \cup {None}]
    /\ plock \in [Procs -> CPUs \cup {NoCpu}]
    /\ waitlock \in CPUs \cup {NoCpu}
    /\ k \in [Procs -> Thread]
    /\ \A p \in Procs : k[p].pc = "wakeup" => k[p].on[2] # "user"

\* A thread that no CPU runs has left its stack in swtch().
OnCpu(p) == \E c \in CPUs : cpu[c] = p
Switched == \A p \in Procs : ~OnCpu(p) => k[p].pc = "resume" /\ state[p] # "RUNNING"

\* The state of a thread on a CPU.
States ==
    \A c \in CPUs : cpu[c] # None =>
        IF k[cpu[c]].pc = "sched"
        THEN state[cpu[c]] \in {"RUNNABLE", "SLEEPING", "ZOMBIE"}
        ELSE state[cpu[c]] = "RUNNING"

OneCpu == \A c, d \in CPUs : cpu[c] # None /\ cpu[c] = cpu[d] => c = d

\* Who holds which lock: the thread about to switch or just switched to holds
\* its own, fork() its child's, and exit() and wait() hold wait_lock.
Locks ==
    /\ \A c \in CPUs : cpu[c] # None =>
         /\ k[cpu[c]].pc \in {"resume", "sched"} => plock[cpu[c]] = c
         /\ k[cpu[c]].pc = "fork_copy" => plock[k[cpu[c]].np] = c
         /\ k[cpu[c]].pc \in WaitPC => waitlock = c
    /\ \A p \in Procs : plock[p] # NoCpu =>
         LET r == cpu[plock[p]]
         IN  /\ r # None
             /\ \/ r = p /\ k[p].pc \in {"resume", "sched"}
                \/ k[r].pc = "fork_copy" /\ k[r].np = p
    /\ waitlock # NoCpu => cpu[waitlock] # None /\ k[cpu[waitlock]].pc \in WaitPC

\* The child of a fork() in progress, also when the parent is preempted in
\* it: USED, new, and of this fork() only.
Dead == {"UNUSED", "USED", "ZOMBIE"}
ForkPC == {"fork_copy", "fork_parent", "fork_run"}
Forking(p) == /\ state[p] \notin Dead
              /\ \/ k[p].pc \in ForkPC
                 \/ k[p].pc \in {"resume", "sched"} /\ k[p].back \in ForkPC
Forks ==
    /\ \A p \in Procs : Forking(p) => k[p].np \in Procs /\ state[k[p].np] = "USED"
    /\ \A p, q \in Procs : Forking(p) /\ Forking(q) /\ k[p].np = k[q].np => p = q
    /\ \A p \in Procs : state[p] = "USED" => k[p] = Fresh

Inv == Types /\ Switched /\ States /\ OneCpu /\ Locks /\ Forks

-----------------------------------------------------------------------------
\* A move of one thread leaves the rest of its record and the others alone.
LEMMA GotoFacts ==
    ASSUME Types, NEW p \in Procs, NEW x \in PC, Goto(p, x)
    PROVE  /\ k' \in [Procs -> Thread]
           /\ k'[p].pc = x /\ k'[p].back = k[p].back /\ k'[p].np = k[p].np
           /\ k'[p].i = k[p].i /\ k'[p].on = k[p].on /\ k'[p].kids = k[p].kids
           /\ \A q \in Procs : q # p => k'[q] = k[q]
<1>1. k[p] \in Thread /\ k \in [Procs -> Thread] BY DEF Types
<1>2. k' = [k EXCEPT ![p] = [k[p] EXCEPT !.pc = x]] BY DEF Goto
<1>3. [k[p] EXCEPT !.pc = x] \in Thread BY <1>1 DEF Thread
<1>4. k'[p] = [k[p] EXCEPT !.pc = x] BY <1>1, <1>2
<1> QED BY <1>1, <1>2, <1>3, <1>4 DEF Thread

\* The invariant holds at the start, when only init exists.
LEMMA InitInv == ASSUME ProcAssumption, Init PROVE Inv
<1> USE DEF Init
<1>1. Fresh \in Thread /\ Fresh.pc = "resume" /\ Fresh.back = "user"
  BY ProcAssumption DEF ProcAssumption, Fresh, Thread, PC, WaitPC, OpenPC, None
<1>2. initproc \in Procs BY ProcAssumption DEF ProcAssumption, Procs, initproc
<1>3. \A p \in Procs : k[p] = Fresh OBVIOUS
<1>4. Types BY <1>1 DEF Types, None
<1>5. \A c \in CPUs : cpu[c] = None OBVIOUS
<1>6. Switched BY <1>1 DEF Switched
<1>7. Forks BY <1>1, <1>3 DEF Forks, Forking, ForkPC
<1> QED BY <1>4, <1>5, <1>6, <1>7 DEF Inv, States, OneCpu, Locks

\* What a CPU that runs p knows.
LEMMA RunFacts ==
    ASSUME ProcAssumption, Inv, NEW c \in CPUs, NEW p \in Procs, cpu[c] = p
    PROVE  /\ p # None /\ c # NoCpu /\ OnCpu(p)
           /\ \A d \in CPUs : cpu[d] = p => d = c
           /\ k[p].pc = "sched" => state[p] \in {"RUNNABLE", "SLEEPING", "ZOMBIE"}
           /\ k[p].pc # "sched" => state[p] = "RUNNING"
           /\ k[p].pc \in {"resume", "sched"} => plock[p] = c
           /\ k[p].pc \in WaitPC => waitlock = c
<1>1. p # None BY ProcAssumption DEF ProcAssumption, Procs, None
<1> QED BY <1>1 DEF ProcAssumption, Inv, OnCpu, OneCpu, States, Locks

\* State changes that no thread on a CPU notices: a wakeup, and the end of a
\* zombie that has left its stack.
Harmless ==
    \A q \in Procs : \/ state'[q] = state[q]
                     \/ state[q] = "SLEEPING" /\ state'[q] = "RUNNABLE"
                     \/ state[q] = "ZOMBIE" /\ state'[q] = "UNUSED" /\ Free(q)

\* A thread moves, with or without taking or giving back wait_lock, and does
\* not touch a process lock.
LEMMA LocalInv ==
    ASSUME ProcAssumption, Inv, Types', NEW c \in CPUs, NEW p \in Procs, cpu[c] = p,
           UNCHANGED <<cpu, plock>>, Harmless,
           k[p].pc \notin {"resume", "sched", "fork_copy"},
           k'[p].pc \notin {"resume", "sched", "fork_copy"},
           \A q \in Procs : q # p => k'[q] = k[q],
           k'[p].pc \in ForkPC => k[p].pc \in ForkPC /\ k'[p].np = k[p].np,
           \/ waitlock' = waitlock /\ (k[p].pc \in WaitPC <=> k'[p].pc \in WaitPC)
           \/ waitlock = NoCpu /\ waitlock' = c /\ k'[p].pc \in WaitPC
           \/ k[p].pc \in WaitPC /\ waitlock' = NoCpu /\ k'[p].pc \notin WaitPC
    PROVE  Inv'
<1> USE DEF Inv
<1>1. /\ p # None /\ c # NoCpu /\ OnCpu(p) /\ state[p] = "RUNNING"
      /\ \A d \in CPUs : cpu[d] = p => d = c
  BY RunFacts
<1>2. \A q \in Procs : /\ state[q] = "RUNNING" => state'[q] = "RUNNING"
                       /\ state'[q] = "RUNNING" => state[q] = "RUNNING"
                       /\ state'[q] = "USED" <=> state[q] = "USED"
                       /\ state'[q] \in Dead <=> state[q] \in Dead
  BY DEF Harmless, Dead
<1>3. Switched'
  BY <1>1, <1>2 DEF Switched, OnCpu
<1>4. OneCpu' BY DEF OneCpu
<1>5. States'
  <2> SUFFICES ASSUME NEW d \in CPUs, cpu[d] # None
               PROVE  IF k'[cpu[d]].pc = "sched"
                      THEN state'[cpu[d]] \in {"RUNNABLE", "SLEEPING", "ZOMBIE"}
                      ELSE state'[cpu[d]] = "RUNNING"
    BY DEF States
  <2>1. cpu[d] \in Procs BY DEF Types
  <2>2. CASE cpu[d] = p BY <1>1, <1>2, <2>2
  <2>3. CASE cpu[d] # p
    <3>1. k'[cpu[d]] = k[cpu[d]] BY <2>1, <2>3
    <3>2. k[cpu[d]].pc = "sched" => plock[cpu[d]] # NoCpu
      BY ProcAssumption DEF Locks, ProcAssumption
    <3> QED BY <1>2, <2>1, <3>1, <3>2 DEF States, Harmless, Free
  <2> QED BY <2>2, <2>3
<1>6. Locks'
  <2>1. ASSUME NEW d \in CPUs, cpu[d] # None
        PROVE  /\ k'[cpu[d]].pc \in {"resume", "sched"} => plock[cpu[d]] = d
               /\ k'[cpu[d]].pc = "fork_copy" => plock[k'[cpu[d]].np] = d
               /\ k'[cpu[d]].pc \in WaitPC => waitlock' = d
    <3>1. cpu[d] \in Procs BY <2>1 DEF Types
    <3>2. CASE cpu[d] = p BY <3>2, <1>1 DEF Locks
    <3>3. CASE cpu[d] # p
      <4>1. k'[cpu[d]] = k[cpu[d]] /\ d # c BY <3>1, <3>3
      <4>2. k[cpu[d]].pc \in WaitPC => waitlock = d /\ waitlock # NoCpu
        BY <2>1 DEF Locks, ProcAssumption
      <4>3. k[p].pc \in WaitPC => waitlock = c BY RunFacts
      <4> QED BY <2>1, <4>1, <4>2, <4>3 DEF Locks
    <3> QED BY <3>2, <3>3
  <2>2. ASSUME NEW q \in Procs, plock[q] # NoCpu
        PROVE  LET r == cpu[plock[q]]
               IN  /\ r # None
                   /\ \/ r = q /\ k'[q].pc \in {"resume", "sched"}
                      \/ k'[r].pc = "fork_copy" /\ k'[r].np = q
    <3>1. plock[q] \in CPUs /\ cpu[plock[q]] \in Procs
      BY <2>2 DEF Types, Locks
    <3>2. cpu[plock[q]] # p BY <2>2 DEF Locks
    <3> QED BY <2>2, <3>1, <3>2 DEF Locks
  <2>3. waitlock' # NoCpu => cpu[waitlock'] # None /\ k'[cpu[waitlock']].pc \in WaitPC
    <3>1. CASE waitlock' = waitlock /\ (k[p].pc \in WaitPC <=> k'[p].pc \in WaitPC)
      <4>1. waitlock # NoCpu => cpu[waitlock] \in Procs BY DEF Locks, Types
      <4> QED BY <3>1, <4>1 DEF Locks
    <3>2. CASE waitlock' = c /\ k'[p].pc \in WaitPC BY <3>2, <1>1
    <3> QED BY <3>1, <3>2
  <2> QED BY <2>1, <2>2, <2>3 DEF Locks
<1>7. \A q \in Procs : Forking(q)' => Forking(q) /\ k'[q].np = k[q].np
  <2> SUFFICES ASSUME NEW q \in Procs, Forking(q)'
               PROVE  Forking(q) /\ k'[q].np = k[q].np
    OBVIOUS
  <2>1. CASE q = p BY <2>1, <1>2 DEF Forking
  <2>2. CASE q # p BY <2>2, <1>2 DEF Forking
  <2> QED BY <2>1, <2>2
<1>8. Forks'
  <2>1. \A q \in Procs : Forking(q)' => k'[q].np \in Procs /\ state'[k'[q].np] = "USED"
    BY <1>2, <1>7 DEF Forks
  <2>2. \A q, r \in Procs : Forking(q)' /\ Forking(r)' /\ k'[q].np = k'[r].np => q = r
    BY <1>7 DEF Forks
  <2>3. \A q \in Procs : state'[q] = "USED" => k'[q] = Fresh
    BY <1>1, <1>2 DEF Forks
  <2> QED BY <2>1, <2>2, <2>3 DEF Forks
<1> QED BY <1>3, <1>4, <1>5, <1>6, <1>8

\* wakeup(), wait() and kill(), and the parts of fork() and exit() that touch
\* no process lock.
LEMMA LocalSteps ==
    ASSUME ProcAssumption, Inv, NEW c \in CPUs, NEW p \in Procs,
           \/ Wakeup(c, p) \/ ForkParent(c, p) \/ ExitReparent(c, p)
           \/ ExitParent(c, p) \/ WaitStart(c, p) \/ WaitSkip(c, p)
           \/ WaitNone(c, p) \/ WaitSleep(c, p)
           \/ \E q \in Procs : WaitReap(c, p, q) \/ WaitCopyFails(c, p, q) \/ Kill(c, p, q)
    PROVE  Inv'
<1> USE DEF Inv
<1>1. k \in [Procs -> Thread] /\ k[p] \in Thread BY DEF Types
<1>2. CASE Wakeup(c, p)
  <2>1. k[p].i \in Nat /\ k[p].on[2] \in {"exit_parent", "exit_zombie"}
    BY <1>1, <1>2 DEF Wakeup, At, Types, Thread
  <2>2. CASE k[p].i > NPROC
    <3>1. Goto(p, k[p].on[2]) /\ UNCHANGED <<state, parent, chan, cpu, plock, waitlock>>
      BY <1>2, <2>2 DEF Wakeup
    <3>2. k[p].on[2] \in PC /\ k[p].on[2] \in WaitPC BY <2>1 DEF PC, WaitPC
    <3>3. /\ k' \in [Procs -> Thread] /\ k'[p].pc = k[p].on[2]
          /\ \A q \in Procs : q # p => k'[q] = k[q]
      BY <3>1, <3>2, GotoFacts
    <3>4. Types' BY <2>1, <3>1, <3>3 DEF Types
    <3> QED BY <1>2, <2>1, <3>1, <3>3, <3>4, LocalInv
            DEF Wakeup, At, Harmless, WaitPC, ForkPC
  <2>3. CASE ~(k[p].i > NPROC)
    <3>1. /\ k' = [k EXCEPT ![p] = [k[p] EXCEPT !.i = k[p].i + 1]]
          /\ UNCHANGED <<parent, chan, cpu, plock, waitlock>>
      BY <1>2, <2>3 DEF Wakeup
    <3>2. [k[p] EXCEPT !.i = k[p].i + 1] \in Thread BY <1>1, <2>1 DEF Thread
    <3>3. /\ k' \in [Procs -> Thread] /\ k'[p].pc = k[p].pc /\ k'[p].on = k[p].on
          /\ \A q \in Procs : q # p => k'[q] = k[q]
      BY <1>1, <3>1, <3>2 DEF Thread
    <3>4. Harmless /\ state' \in [Procs -> {"UNUSED", "USED", "SLEEPING", "RUNNABLE",
                                            "RUNNING", "ZOMBIE"}]
      BY <1>2, <2>3 DEF Wakeup, Harmless, Awake, Types
    <3>5. Types' BY <3>1, <3>3, <3>4 DEF Types
    <3> QED BY <1>2, <3>1, <3>3, <3>4, <3>5, LocalInv DEF Wakeup, At, WaitPC, ForkPC
  <2> QED BY <2>2, <2>3
<1>3. CASE ForkParent(c, p)
  <2>1. Goto(p, "fork_run") /\ UNCHANGED <<state, chan, cpu, plock, waitlock>>
    BY <1>3 DEF ForkParent
  <2>2. /\ k' \in [Procs -> Thread] /\ k'[p].pc = "fork_run" /\ k'[p].np = k[p].np
        /\ \A q \in Procs : q # p => k'[q] = k[q]
    BY <2>1, GotoFacts DEF PC, OpenPC
  <2>3. parent' \in [Procs -> Procs \cup {None}] BY <1>3 DEF ForkParent, Types
  <2>4. Types' BY <2>1, <2>2, <2>3 DEF Types
  <2> QED BY <1>3, <2>1, <2>2, <2>4, LocalInv
          DEF ForkParent, At, Harmless, WaitPC, ForkPC
<1>4. CASE ExitReparent(c, p)
  <2>1. /\ UNCHANGED <<state, chan, cpu, plock>> /\ waitlock = NoCpu /\ waitlock' = c
        /\ parent' \in [Procs -> Procs \cup {None}]
    BY <1>4, ProcAssumption DEF ExitReparent, Types, initproc, Procs, ProcAssumption
  <2>2. /\ k' \in [Procs -> Thread] /\ k'[p].pc \in {"wakeup", "exit_parent"}
        /\ k'[p].pc = "wakeup" => k'[p].on[2] # "user"
        /\ \A q \in Procs : q # p => k'[q] = k[q]
    <3>1. CASE Goto(p, "exit_parent")
      BY <3>1, GotoFacts DEF PC, WaitPC
    <3>2. CASE k' = [k EXCEPT ![p].pc = "wakeup", ![p].i = 1,
                              ![p].on = <<initproc, "exit_parent">>]
      <4> DEFINE t == [k[p] EXCEPT !.pc = "wakeup", !.i = 1,
                                   !.on = <<initproc, "exit_parent">>]
      <4>1. k' = [k EXCEPT ![p] = t] BY <1>1, <3>2 DEF Thread
      <4>2. t \in Thread /\ t.pc = "wakeup" /\ t.on[2] = "exit_parent"
        <5>1. initproc \in Procs
          BY ProcAssumption DEF initproc, Procs, ProcAssumption
        <5> QED BY <1>1, <5>1 DEF Thread, PC, WaitPC
      <4> HIDE DEF t
      <4> QED BY <1>1, <4>1, <4>2
    <3> QED BY <1>4, <3>1, <3>2 DEF ExitReparent
  <2>3. Types' BY <2>1, <2>2 DEF Types
  <2> QED BY <1>4, <2>1, <2>2, <2>3, LocalInv
          DEF ExitReparent, At, Harmless, WaitPC, ForkPC
<1>5. CASE ExitParent(c, p)
  <2> DEFINE t == [k[p] EXCEPT !.pc = "wakeup", !.i = 1,
                               !.on = <<parent[p], "exit_zombie">>]
  <2>1. k' = [k EXCEPT ![p] = t] BY <1>1, <1>5 DEF ExitParent, Thread
  <2>2. t \in Thread /\ t.pc = "wakeup" /\ t.on[2] = "exit_zombie"
    BY <1>1 DEF Thread, PC, WaitPC, Types
  <2>3. UNCHANGED <<state, parent, chan, cpu, plock, waitlock>>
    BY <1>5 DEF ExitParent
  <2> HIDE DEF t
  <2>4. /\ k' \in [Procs -> Thread] /\ k'[p] = t
        /\ \A q \in Procs : q # p => k'[q] = k[q]
    BY <1>1, <2>1, <2>2
  <2>5. Types' BY <2>2, <2>3, <2>4 DEF Types
  <2> QED BY <1>5, <2>2, <2>3, <2>4, <2>5, LocalInv
          DEF ExitParent, At, Harmless, WaitPC, ForkPC
<1>6. CASE WaitStart(c, p)
  <2> DEFINE t == [k[p] EXCEPT !.pc = "wait_scan", !.i = 1, !.kids = FALSE]
  <2>1. k' = [k EXCEPT ![p] = t] BY <1>1, <1>6 DEF WaitStart, Thread
  <2>2. t \in Thread /\ t.pc = "wait_scan" BY <1>1 DEF Thread, PC, WaitPC
  <2>3. UNCHANGED <<state, parent, chan, cpu, plock>> /\ waitlock = NoCpu /\ waitlock' = c
    BY <1>6 DEF WaitStart
  <2> HIDE DEF t
  <2>4. /\ k' \in [Procs -> Thread] /\ k'[p] = t
        /\ \A q \in Procs : q # p => k'[q] = k[q]
    BY <1>1, <2>1, <2>2
  <2>5. Types' BY <2>2, <2>3, <2>4 DEF Types
  <2> QED BY <1>6, <2>2, <2>3, <2>4, <2>5, LocalInv
          DEF WaitStart, InUser, At, Harmless, WaitPC, ForkPC
<1>7. CASE WaitSkip(c, p)
  <2>0. PICK n \in Nat, b \in BOOLEAN :
          k' = [k EXCEPT ![p] = [k[p] EXCEPT !.i = n, !.kids = b]]
    <3>1. (k[p].kids \/ parent[k[p].i] = p) \in BOOLEAN /\ k[p].i + 1 \in Nat
      BY <1>1 DEF Thread
    <3> QED BY <1>1, <1>7, <3>1 DEF WaitSkip, Thread
  <2> DEFINE t == [k[p] EXCEPT !.i = n, !.kids = b]
  <2>1. k' = [k EXCEPT ![p] = t] BY <2>0
  <2>2. t \in Thread /\ t.pc = k[p].pc BY <1>1 DEF Thread
  <2>3. UNCHANGED <<state, parent, chan, cpu, plock, waitlock>>
    BY <1>7 DEF WaitSkip
  <2> HIDE DEF t
  <2>4. /\ k' \in [Procs -> Thread] /\ k'[p] = t
        /\ \A q \in Procs : q # p => k'[q] = k[q]
    BY <1>1, <2>1, <2>2
  <2>5. Types' BY <1>7, <2>2, <2>3, <2>4 DEF Types, WaitSkip, At
  <2> QED BY <1>7, <2>2, <2>3, <2>4, <2>5, LocalInv
          DEF WaitSkip, At, Harmless, WaitPC, ForkPC
<1>8. CASE WaitNone(c, p) \/ \E q \in Procs : WaitReap(c, p, q) \/ WaitCopyFails(c, p, q)
  <2>1. /\ Goto(p, "user") /\ waitlock' = NoCpu /\ UNCHANGED <<cpu, plock>>
        /\ cpu[c] = p /\ k[p].pc = "wait_scan"
    BY <1>8 DEF WaitNone, WaitReap, WaitCopyFails, Zombie, Return, At
  <2>2. /\ k' \in [Procs -> Thread] /\ k'[p].pc = "user"
        /\ \A q \in Procs : q # p => k'[q] = k[q]
    BY <2>1, GotoFacts DEF PC, OpenPC
  <2>3. /\ Harmless
        /\ state' \in [Procs -> {"UNUSED", "USED", "SLEEPING", "RUNNABLE",
                                 "RUNNING", "ZOMBIE"}]
        /\ parent' \in [Procs -> Procs \cup {None}]
        /\ chan' \in [Procs -> Procs \cup {None}]
    BY <1>8 DEF WaitNone, WaitReap, WaitCopyFails, Zombie, Freeproc, Harmless, Types
  <2>4. Types' BY <2>1, <2>2, <2>3 DEF Types
  <2> QED BY <2>1, <2>2, <2>3, <2>4, LocalInv DEF WaitPC, ForkPC
<1>9. CASE WaitSleep(c, p)
  <2>1. Goto(p, "sleep") /\ UNCHANGED <<state, parent, chan, cpu, plock, waitlock>>
    BY <1>9 DEF WaitSleep
  <2>2. /\ k' \in [Procs -> Thread] /\ k'[p].pc = "sleep"
        /\ \A q \in Procs : q # p => k'[q] = k[q]
    BY <2>1, GotoFacts DEF PC, WaitPC
  <2>3. Types' BY <2>1, <2>2 DEF Types
  <2> QED BY <1>9, <2>1, <2>2, <2>3, LocalInv DEF WaitSleep, At, Harmless, WaitPC, ForkPC
<1>10. ASSUME NEW q \in Procs, Kill(c, p, q) PROVE Inv'
  <2>1. UNCHANGED <<parent, chan, k, cpu, plock, waitlock>> BY <1>10 DEF Kill
  <2>2. Harmless /\ state' \in [Procs -> {"UNUSED", "USED", "SLEEPING", "RUNNABLE",
                                          "RUNNING", "ZOMBIE"}]
    BY <1>10 DEF Kill, Harmless, Types
  <2>3. Types' BY <2>1, <2>2 DEF Types
  <2> QED BY <1>10, <2>1, <2>2, <2>3, LocalInv DEF Kill, InUser, At, WaitPC, ForkPC
<1> QED BY <1>2, <1>3, <1>4, <1>5, <1>6, <1>7, <1>8, <1>9, <1>10

\* A thread takes its own lock and is about to switch away.
LEMMA ToSchedInv ==
    ASSUME ProcAssumption, Inv, Types', NEW c \in CPUs, NEW p \in Procs, cpu[c] = p,
           Free(p), cpu' = cpu, plock' = [plock EXCEPT ![p] = c],
           k[p].pc \notin {"sched", "fork_copy"},
           k'[p].pc = "sched", \A q \in Procs : q # p => k'[q] = k[q] /\ state'[q] = state[q],
           state'[p] \in {"RUNNABLE", "SLEEPING", "ZOMBIE"},
           k'[p].back \in ForkPC /\ state'[p] # "ZOMBIE" =>
             k[p].pc \in ForkPC /\ k'[p].np = k[p].np,
           waitlock' = IF k[p].pc \in WaitPC THEN NoCpu ELSE waitlock
    PROVE  Inv'
<1> USE DEF Inv
<1>1. /\ p # None /\ c # NoCpu /\ OnCpu(p) /\ state[p] = "RUNNING"
      /\ \A d \in CPUs : cpu[d] = p => d = c
      /\ k[p].pc \in WaitPC => waitlock = c
  BY RunFacts
<1>2. plock'[p] = c /\ \A q \in Procs : q # p => plock'[q] = plock[q]
  BY DEF Types
<1>3. Switched' BY <1>1 DEF Switched, OnCpu
<1>4. OneCpu' BY DEF OneCpu
<1>5. States'
  <2> SUFFICES ASSUME NEW d \in CPUs, cpu[d] # None
               PROVE  IF k'[cpu[d]].pc = "sched"
                      THEN state'[cpu[d]] \in {"RUNNABLE", "SLEEPING", "ZOMBIE"}
                      ELSE state'[cpu[d]] = "RUNNING"
    BY DEF States
  <2>1. cpu[d] \in Procs BY DEF Types
  <2> QED BY <2>1 DEF States
<1>6. Locks'
  <2>1. ASSUME NEW d \in CPUs, cpu[d] # None
        PROVE  /\ k'[cpu[d]].pc \in {"resume", "sched"} => plock'[cpu[d]] = d
               /\ k'[cpu[d]].pc = "fork_copy" => plock'[k'[cpu[d]].np] = d
               /\ k'[cpu[d]].pc \in WaitPC => waitlock' = d
    <3>1. cpu[d] \in Procs BY <2>1 DEF Types
    <3>2. CASE cpu[d] = p BY <3>2, <1>1, <1>2 DEF WaitPC
    <3>3. CASE cpu[d] # p
      <4>1. k'[cpu[d]] = k[cpu[d]] /\ d # c /\ d # NoCpu
        BY <3>1, <3>3 DEF ProcAssumption
      <4>2. /\ k[cpu[d]].pc \in {"resume", "sched"} => plock[cpu[d]] = d
            /\ k[cpu[d]].pc = "fork_copy" => plock[k[cpu[d]].np] = d
            /\ k[cpu[d]].pc \in WaitPC => waitlock = d
        BY <2>1 DEF Locks
      <4>3. k[cpu[d]].pc = "fork_copy" => k[cpu[d]].np # p /\ k[cpu[d]].np \in Procs
        <5>1. k[cpu[d]].pc = "fork_copy" => state[cpu[d]] = "RUNNING"
          BY <2>1 DEF States
        <5>2. k[cpu[d]].pc = "fork_copy" => Forking(cpu[d])
          BY <5>1 DEF Forking, ForkPC, Dead
        <5> QED BY <3>1, <4>1, <4>2, <5>2 DEF Forks, Free
      <4> QED BY <1>1, <1>2, <3>1, <3>3, <4>1, <4>2, <4>3
    <3> QED BY <3>2, <3>3
  <2>2. ASSUME NEW q \in Procs, plock'[q] # NoCpu
        PROVE  LET r == cpu[plock'[q]]
               IN  /\ r # None
                   /\ \/ r = q /\ k'[q].pc \in {"resume", "sched"}
                      \/ k'[r].pc = "fork_copy" /\ k'[r].np = q
    <3>1. CASE q = p BY <3>1, <1>1, <1>2
    <3>2. CASE q # p
      <4>1. plock'[q] = plock[q] /\ plock[q] \in CPUs /\ cpu[plock[q]] \in Procs
        BY <1>2, <2>2, <3>2 DEF Types, Locks
      <4>2. /\ \/ cpu[plock[q]] = q /\ k[q].pc \in {"resume", "sched"}
               \/ k[cpu[plock[q]]].pc = "fork_copy" /\ k[cpu[plock[q]]].np = q
            /\ cpu[plock[q]] # None
        BY <2>2, <4>1 DEF Locks
      <4>3. cpu[plock[q]] # p BY <3>2, <4>2
      <4> QED BY <3>2, <4>1, <4>2, <4>3
    <3> QED BY <3>1, <3>2
  <2>3. waitlock' # NoCpu => cpu[waitlock'] # None /\ k'[cpu[waitlock']].pc \in WaitPC
    <3>1. waitlock # NoCpu => cpu[waitlock] \in Procs BY DEF Locks, Types
    <3> QED BY <3>1 DEF Locks
  <2> QED BY <2>1, <2>2, <2>3 DEF Locks
<1>7. \A q \in Procs : Forking(q)' => Forking(q) /\ k'[q].np = k[q].np
  <2> SUFFICES ASSUME NEW q \in Procs, Forking(q)'
               PROVE  Forking(q) /\ k'[q].np = k[q].np
    OBVIOUS
  <2>1. CASE q = p BY <2>1, <1>1 DEF Forking, Dead, ForkPC
  <2>2. CASE q # p BY <2>2 DEF Forking
  <2> QED BY <2>1, <2>2
<1>8. Forks'
  <2>1. \A q \in Procs : state'[q] = "USED" <=> state[q] = "USED" BY <1>1
  <2>2. \A q \in Procs : Forking(q)' => k'[q].np \in Procs /\ state'[k'[q].np] = "USED"
    BY <1>7, <2>1 DEF Forks
  <2>3. \A q, r \in Procs : Forking(q)' /\ Forking(r)' /\ k'[q].np = k'[r].np => q = r
    BY <1>7 DEF Forks
  <2>4. \A q \in Procs : state'[q] = "USED" => k'[q] = Fresh
    BY <1>1, <2>1 DEF Forks
  <2> QED BY <2>2, <2>3, <2>4 DEF Forks
<1> QED BY <1>3, <1>4, <1>5, <1>6, <1>8

\* yield(), sleep() and the end of exit() call sched() with p->lock held.
LEMMA ToSchedSteps ==
    ASSUME ProcAssumption, Inv, NEW c \in CPUs, NEW p \in Procs,
           Yield(c, p) \/ ExitZombie(c, p) \/ Sleep(c, p)
    PROVE  Inv'
<1> USE DEF Inv
<1>1. k \in [Procs -> Thread] /\ k[p] \in Thread /\ cpu[c] = p /\ Free(p)
  BY DEF Types, Yield, ExitZombie, Sleep, At
<1>2. /\ cpu' = cpu /\ plock' = [plock EXCEPT ![p] = c] /\ UNCHANGED parent
      /\ plock' \in [Procs -> CPUs \cup {NoCpu}]
  BY DEF Yield, ExitZombie, Sleep, Types
<1>3. CASE Yield(c, p)
  <2>1. k[p].pc \in OpenPC
    <3>1. state[p] = "RUNNING" BY <1>1, <1>3, RunFacts DEF Yield
    <3>2. k[p].pc \notin {"resume", "sched"} \cup WaitPC
      BY <1>1, <1>3, RunFacts DEF Yield, Held
    <3>3. k[p].pc # "fork_copy"
      <4>1. k[p].pc = "fork_copy" => k[p].np \in Procs /\ plock[k[p].np] = c
        <5>1. p # None BY <1>1, RunFacts
        <5> QED BY <1>1, <3>1, <5>1 DEF Forks, Forking, ForkPC, Dead, Locks
      <4> QED BY <1>3, <4>1 DEF Yield, Held
    <3> QED BY <1>1, <3>2, <3>3 DEF Thread, PC
  <2> DEFINE t == [k[p] EXCEPT !.back = k[p].pc, !.pc = "sched"]
  <2>2. k' = [k EXCEPT ![p] = t] BY <1>1, <1>3 DEF Yield, Thread
  <2>3. /\ t \in Thread /\ t.pc = "sched" /\ t.back = k[p].pc /\ t.np = k[p].np
    BY <1>1, <2>1 DEF Thread, PC
  <2> HIDE DEF t
  <2>4. k' \in [Procs -> Thread] /\ k'[p] = t /\ \A q \in Procs : q # p => k'[q] = k[q]
    BY <1>1, <2>2, <2>3
  <2>5. /\ state' \in [Procs -> {"UNUSED", "USED", "SLEEPING", "RUNNABLE",
                                 "RUNNING", "ZOMBIE"}]
        /\ state'[p] = "RUNNABLE" /\ \A q \in Procs : q # p => state'[q] = state[q]
        /\ UNCHANGED <<waitlock, chan>>
    BY <1>3 DEF Yield, Types
  <2>6. Types' BY <1>2, <2>3, <2>4, <2>5 DEF Types
  <2> QED BY <1>1, <1>2, <2>1, <2>3, <2>4, <2>5, <2>6, ToSchedInv DEF OpenPC, WaitPC
<1>4. CASE ExitZombie(c, p)
  <2>1. Goto(p, "sched") /\ k[p].pc = "exit_zombie" /\ waitlock' = NoCpu
        /\ UNCHANGED chan
    BY <1>4 DEF ExitZombie, At
  <2>2. /\ k' \in [Procs -> Thread] /\ k'[p].pc = "sched"
        /\ \A q \in Procs : q # p => k'[q] = k[q]
    BY <2>1, GotoFacts DEF PC
  <2>3. /\ state' \in [Procs -> {"UNUSED", "USED", "SLEEPING", "RUNNABLE",
                                 "RUNNING", "ZOMBIE"}]
        /\ state'[p] = "ZOMBIE" /\ \A q \in Procs : q # p => state'[q] = state[q]
    BY <1>4 DEF ExitZombie, Types
  <2>4. Types' BY <1>2, <2>1, <2>2, <2>3 DEF Types
  <2> QED BY <1>1, <1>2, <2>1, <2>2, <2>3, <2>4, ToSchedInv DEF WaitPC
<1>5. CASE Sleep(c, p)
  <2> DEFINE t == [k[p] EXCEPT !.pc = "sched", !.back = "wait_again"]
  <2>1. k' = [k EXCEPT ![p] = t] BY <1>1, <1>5 DEF Sleep, Thread
  <2>2. t \in Thread /\ t.pc = "sched" /\ t.back = "wait_again"
    BY <1>1 DEF Thread, PC, OpenPC
  <2> HIDE DEF t
  <2>3. k' \in [Procs -> Thread] /\ k'[p] = t /\ \A q \in Procs : q # p => k'[q] = k[q]
    BY <1>1, <2>1, <2>2
  <2>4. /\ state' \in [Procs -> {"UNUSED", "USED", "SLEEPING", "RUNNABLE",
                                 "RUNNING", "ZOMBIE"}]
        /\ state'[p] = "SLEEPING" /\ \A q \in Procs : q # p => state'[q] = state[q]
        /\ chan' \in [Procs -> Procs \cup {None}]
        /\ waitlock' = NoCpu /\ k[p].pc = "sleep"
    BY <1>5 DEF Sleep, At, Types
  <2>5. Types' BY <1>2, <2>2, <2>3, <2>4 DEF Types
  <2> QED BY <1>1, <1>2, <2>2, <2>3, <2>4, <2>5, ToSchedInv DEF WaitPC, ForkPC
<1> QED BY <1>3, <1>4, <1>5

\* scheduler() picks a runnable process that no CPU runs any more.
LEMMA SchedulerInv ==
    ASSUME ProcAssumption, Inv, NEW c \in CPUs, NEW p \in Procs, Scheduler(c, p)
    PROVE  Inv'
<1> USE DEF Inv
<1>1. /\ cpu[c] = None /\ Free(p) /\ state[p] = "RUNNABLE"
      /\ UNCHANGED <<parent, chan, k, waitlock>>
  BY DEF Scheduler
<1>2. p # None /\ c # NoCpu
  BY ProcAssumption DEF ProcAssumption, Procs, None
<1>3. /\ cpu' \in [CPUs -> Procs \cup {None}] /\ cpu'[c] = p
      /\ \A d \in CPUs : d # c => cpu'[d] = cpu[d]
      /\ plock' \in [Procs -> CPUs \cup {NoCpu}] /\ plock'[p] = c
      /\ \A q \in Procs : q # p => plock'[q] = plock[q]
      /\ state'[p] = "RUNNING" /\ \A q \in Procs : q # p => state'[q] = state[q]
      /\ state' \in [Procs -> {"UNUSED", "USED", "SLEEPING", "RUNNABLE",
                               "RUNNING", "ZOMBIE"}]
  BY DEF Scheduler, Types
<1>4. \A d \in CPUs : cpu[d] # p
  <2>1. \A d \in CPUs : cpu[d] = p => plock[p] = d /\ d # NoCpu
    BY <1>1, <1>2 DEF States, Locks, ProcAssumption
  <2> QED BY <1>1, <2>1 DEF Free
<1>5. k[p].pc = "resume" BY <1>4 DEF Switched, OnCpu
<1>6. Types' BY <1>1, <1>3 DEF Types
<1>7. Switched'
  <2>1. \A q \in Procs : q # p /\ ~OnCpu(q)' => ~OnCpu(q)
    BY <1>1, <1>3, ProcAssumption DEF OnCpu, ProcAssumption, Procs, None
  <2>2. OnCpu(p)' BY <1>3 DEF OnCpu
  <2> QED BY <1>1, <1>3, <2>1, <2>2 DEF Switched
<1>8. OneCpu' BY <1>2, <1>3, <1>4 DEF OneCpu
<1>9. States'
  BY <1>1, <1>3, <1>4, <1>5 DEF States, Types
<1>10. Locks'
  <2>1. ASSUME NEW d \in CPUs, cpu'[d] # None
        PROVE  /\ k[cpu'[d]].pc \in {"resume", "sched"} => plock'[cpu'[d]] = d
               /\ k[cpu'[d]].pc = "fork_copy" => plock'[k[cpu'[d]].np] = d
               /\ k[cpu'[d]].pc \in WaitPC => waitlock = d
    <3>1. CASE d = c BY <3>1, <1>3, <1>5 DEF WaitPC
    <3>2. CASE d # c
      <4>1. cpu'[d] = cpu[d] /\ cpu[d] \in Procs /\ cpu[d] # p /\ d # NoCpu
        BY <2>1, <3>2, <1>3, <1>4 DEF Types, ProcAssumption
      <4>2. /\ k[cpu[d]].pc \in {"resume", "sched"} => plock[cpu[d]] = d
            /\ k[cpu[d]].pc = "fork_copy" => plock[k[cpu[d]].np] = d
            /\ k[cpu[d]].pc \in WaitPC => waitlock = d
        BY <2>1, <4>1 DEF Locks
      <4>3. k[cpu[d]].pc = "fork_copy" => k[cpu[d]].np \in Procs /\ k[cpu[d]].np # p
        <5>1. k[cpu[d]].pc = "fork_copy" => state[cpu[d]] = "RUNNING"
          BY <2>1, <4>1 DEF States
        <5>2. k[cpu[d]].pc = "fork_copy" => Forking(cpu[d])
          BY <5>1 DEF Forking, ForkPC, Dead
        <5> QED BY <1>1, <4>1, <5>2 DEF Forks
      <4> QED BY <1>3, <4>1, <4>2, <4>3
    <3> QED BY <3>1, <3>2
  <2>2. ASSUME NEW q \in Procs, plock'[q] # NoCpu
        PROVE  LET r == cpu'[plock'[q]]
               IN  /\ r # None
                   /\ \/ r = q /\ k[q].pc \in {"resume", "sched"}
                      \/ k[r].pc = "fork_copy" /\ k[r].np = q
    <3>1. CASE q = p BY <3>1, <1>2, <1>3, <1>5
    <3>2. CASE q # p
      <4>1. plock'[q] = plock[q] /\ plock[q] \in CPUs
        BY <1>3, <2>2, <3>2 DEF Types
      <4>2. cpu[plock[q]] # None BY <2>2, <4>1 DEF Locks
      <4>3. plock[q] # c BY <1>1, <4>2
      <4> QED BY <1>3, <2>2, <4>1, <4>3 DEF Locks
    <3> QED BY <3>1, <3>2
  <2>3. waitlock # NoCpu => cpu'[waitlock] # None /\ k[cpu'[waitlock]].pc \in WaitPC
    <3>1. waitlock # NoCpu => waitlock # c /\ waitlock \in CPUs
      BY <1>1 DEF Locks, Types
    <3> QED BY <1>3, <3>1 DEF Locks
  <2> QED BY <1>1, <2>1, <2>2, <2>3 DEF Locks
<1>11. Forks'
  <2>1. \A q \in Procs : /\ state'[q] = "USED" <=> state[q] = "USED"
                         /\ state'[q] \in Dead <=> state[q] \in Dead
    BY <1>1, <1>3 DEF Dead
  <2>2. \A q \in Procs : Forking(q)' <=> Forking(q) BY <1>1, <2>1 DEF Forking
  <2> QED BY <1>1, <2>1, <2>2 DEF Forks
<1> QED BY <1>6, <1>7, <1>8, <1>9, <1>10, <1>11

\* The scheduler leaves the stack of a process and releases its lock.
LEMMA SchedInv ==
    ASSUME ProcAssumption, Inv, NEW c \in CPUs, NEW p \in Procs, Sched(c, p)
    PROVE  Inv'
<1> USE DEF Inv
<1>1. /\ cpu[c] = p /\ k[p].pc = "sched" /\ Goto(p, "resume")
      /\ UNCHANGED <<state, parent, chan, waitlock>>
  BY DEF Sched, At
<1>2. /\ p # None /\ c # NoCpu
      /\ \A d \in CPUs : cpu[d] = p => d = c
      /\ state[p] \in {"RUNNABLE", "SLEEPING", "ZOMBIE"} /\ plock[p] = c
  BY <1>1, RunFacts
<1>3. /\ cpu' \in [CPUs -> Procs \cup {None}] /\ cpu'[c] = None
      /\ \A d \in CPUs : d # c => cpu'[d] = cpu[d]
      /\ plock' \in [Procs -> CPUs \cup {NoCpu}] /\ plock'[p] = NoCpu
      /\ \A q \in Procs : q # p => plock'[q] = plock[q]
  BY DEF Sched, Types
<1>4. /\ k' \in [Procs -> Thread] /\ k'[p].pc = "resume"
      /\ k'[p].back = k[p].back /\ k'[p].np = k[p].np
      /\ \A q \in Procs : q # p => k'[q] = k[q]
  BY <1>1, GotoFacts DEF PC
<1>5. Types' BY <1>1, <1>3, <1>4 DEF Types
<1>6. Switched'
  <2>1. \A q \in Procs : q # p /\ ~OnCpu(q)' => ~OnCpu(q)
    BY <1>1, <1>3 DEF OnCpu
  <2> QED BY <1>1, <1>2, <1>4, <2>1 DEF Switched
<1>7. OneCpu' BY <1>3 DEF OneCpu
<1>8. \A d \in CPUs : cpu'[d] # None =>
        d # c /\ cpu'[d] = cpu[d] /\ cpu[d] \in Procs /\ cpu[d] # p /\ k'[cpu[d]] = k[cpu[d]]
  BY <1>2, <1>3, <1>4 DEF Types
<1>9. States' BY <1>1, <1>8 DEF States
<1>10. Locks'
  <2>1. ASSUME NEW d \in CPUs, cpu'[d] # None
        PROVE  /\ k'[cpu'[d]].pc \in {"resume", "sched"} => plock'[cpu'[d]] = d
               /\ k'[cpu'[d]].pc = "fork_copy" => plock'[k'[cpu'[d]].np] = d
               /\ k'[cpu'[d]].pc \in WaitPC => waitlock = d
    <3>1. /\ k[cpu[d]].pc \in {"resume", "sched"} => plock[cpu[d]] = d
          /\ k[cpu[d]].pc = "fork_copy" => plock[k[cpu[d]].np] = d
          /\ k[cpu[d]].pc \in WaitPC => waitlock = d
      BY <2>1, <1>8 DEF Locks
    <3>2. k[cpu[d]].pc = "fork_copy" => k[cpu[d]].np \in Procs
      <4>1. k[cpu[d]].pc = "fork_copy" => state[cpu[d]] = "RUNNING"
        BY <2>1, <1>8 DEF States
      <4> QED BY <2>1, <1>8, <4>1 DEF Forks, Forking, ForkPC, Dead
    <3>3. k[cpu[d]].pc = "fork_copy" => k[cpu[d]].np # p
      BY <1>2, <1>8, <2>1, <3>1
    <3> QED BY <1>3, <1>8, <2>1, <3>1, <3>2, <3>3
  <2>2. ASSUME NEW q \in Procs, plock'[q] # NoCpu
        PROVE  LET r == cpu'[plock'[q]]
               IN  /\ r # None
                   /\ \/ r = q /\ k'[q].pc \in {"resume", "sched"}
                      \/ k'[r].pc = "fork_copy" /\ k'[r].np = q
    <3>1. q # p /\ plock'[q] = plock[q] /\ plock[q] \in CPUs
      BY <1>3, <2>2 DEF Types
    <3>2. plock[q] # c BY <1>1, <2>2, <3>1 DEF Locks
    <3>3. cpu[plock[q]] # None /\ cpu'[plock[q]] = cpu[plock[q]]
      BY <1>3, <2>2, <3>1, <3>2 DEF Locks
    <3>4. cpu[plock[q]] # p /\ k'[cpu[plock[q]]] = k[cpu[plock[q]]]
      BY <1>8, <3>1, <3>3
    <3> QED BY <1>4, <2>2, <3>1, <3>3, <3>4 DEF Locks
  <2>3. waitlock # NoCpu => cpu'[waitlock] # None /\ k'[cpu'[waitlock]].pc \in WaitPC
    <3>1. waitlock # NoCpu => waitlock # c /\ waitlock \in CPUs
      BY <1>1 DEF Locks, Types, WaitPC
    <3> QED BY <1>3, <1>8, <3>1 DEF Locks
  <2> QED BY <1>1, <2>1, <2>2, <2>3 DEF Locks
<1>11. Forks'
  <2>1. \A q \in Procs : Forking(q)' <=> Forking(q)
    BY <1>1, <1>4 DEF Forking, ForkPC
  <2>2. \A q \in Procs : k'[q].np = k[q].np BY <1>4
  <2>3. \A q \in Procs : state[q] = "USED" => k'[q] = k[q] BY <1>2, <1>4
  <2> QED BY <1>1, <2>1, <2>2, <2>3 DEF Forks
<1> QED BY <1>5, <1>6, <1>7, <1>9, <1>10, <1>11

\* A thread that just switched in releases its own lock, and fork() that of
\* its child, which it may give up.
LEMMA ReleaseInv ==
    ASSUME ProcAssumption, Inv, Types', NEW c \in CPUs, NEW p \in Procs, cpu[c] = p,
           UNCHANGED <<cpu, waitlock>>, NEW x \in Procs,
           \/ k[p].pc = "resume" /\ x = p
           \/ k[p].pc = "fork_copy" /\ x = k[p].np,
           plock' = [plock EXCEPT ![x] = NoCpu],
           k'[p].pc \in OpenPC, k'[p].np = k[p].np,
           \A q \in Procs : q # p => k'[q] = k[q],
           \A q \in Procs : \/ state'[q] = state[q]
                            \/ /\ q = x /\ state[q] = "USED" /\ state'[q] = "UNUSED"
                               /\ k'[p].pc \notin ForkPC,
           k'[p].pc \in ForkPC => Forking(p)
    PROVE  Inv'
<1> USE DEF Inv
<1>1. /\ p # None /\ c # NoCpu /\ OnCpu(p) /\ state[p] = "RUNNING"
      /\ \A d \in CPUs : cpu[d] = p => d = c
  BY RunFacts
<1>2. plock[x] = c
  BY <1>1 DEF Locks
<1>3. plock'[x] = NoCpu /\ \A q \in Procs : q # x => plock'[q] = plock[q]
  BY DEF Types
<1>4. k'[p].pc \notin {"resume", "sched", "fork_copy"} \cup WaitPC
  BY DEF OpenPC, WaitPC
<1>5. \A q \in Procs : q # x => state'[q] = state[q] OBVIOUS
<1>6. \A q \in Procs : state[q] # "USED" => state'[q] = state[q] OBVIOUS
<1>7. Switched'
  BY <1>1, <1>4 DEF Switched, OnCpu
<1>8. OneCpu' BY DEF OneCpu
<1>9. \A d \in CPUs : cpu[d] # None /\ d # c =>
        cpu[d] \in Procs /\ cpu[d] # p /\ k'[cpu[d]] = k[cpu[d]]
  BY <1>1 DEF Types, OneCpu
<1>10. States'
  <2> SUFFICES ASSUME NEW d \in CPUs, cpu[d] # None
               PROVE  IF k'[cpu[d]].pc = "sched"
                      THEN state'[cpu[d]] \in {"RUNNABLE", "SLEEPING", "ZOMBIE"}
                      ELSE state'[cpu[d]] = "RUNNING"
    BY DEF States
  <2>1. CASE d = c BY <2>1, <1>1, <1>4, <1>6
  <2>2. CASE d # c
    <3>1. state[cpu[d]] # "USED" BY DEF States
    <3> QED BY <2>2, <3>1, <1>6, <1>9 DEF States
  <2> QED BY <2>1, <2>2
<1>11. Locks'
  <2>1. ASSUME NEW d \in CPUs, cpu[d] # None
        PROVE  /\ k'[cpu[d]].pc \in {"resume", "sched"} => plock'[cpu[d]] = d
               /\ k'[cpu[d]].pc = "fork_copy" => plock'[k'[cpu[d]].np] = d
               /\ k'[cpu[d]].pc \in WaitPC => waitlock = d
    <3>1. CASE d = c BY <3>1, <1>4
    <3>2. CASE d # c
      <4>1. /\ k[cpu[d]].pc \in {"resume", "sched"} => plock[cpu[d]] = d
            /\ k[cpu[d]].pc = "fork_copy" => plock[k[cpu[d]].np] = d
            /\ k[cpu[d]].pc \in WaitPC => waitlock = d
        BY <2>1 DEF Locks
      <4>2. k[cpu[d]].pc = "fork_copy" => k[cpu[d]].np \in Procs
        <5>1. k[cpu[d]].pc = "fork_copy" => state[cpu[d]] = "RUNNING"
          BY <2>1 DEF States
        <5> QED BY <2>1, <3>2, <1>9, <5>1 DEF Forks, Forking, ForkPC, Dead
      <4> QED BY <1>2, <1>3, <1>9, <2>1, <3>2, <4>1, <4>2
    <3> QED BY <3>1, <3>2
  <2>2. ASSUME NEW q \in Procs, plock'[q] # NoCpu
        PROVE  LET r == cpu[plock'[q]]
               IN  /\ r # None
                   /\ \/ r = q /\ k'[q].pc \in {"resume", "sched"}
                      \/ k'[r].pc = "fork_copy" /\ k'[r].np = q
    <3>1. q # x /\ plock'[q] = plock[q] /\ plock[q] \in CPUs
      BY <1>3, <2>2 DEF Types
    <3>2. /\ cpu[plock[q]] # None
          /\ \/ cpu[plock[q]] = q /\ k[q].pc \in {"resume", "sched"}
             \/ k[cpu[plock[q]]].pc = "fork_copy" /\ k[cpu[plock[q]]].np = q
      BY <2>2, <3>1 DEF Locks
    <3>3. plock[q] # c BY <3>1, <3>2
    <3>4. cpu[plock[q]] # p /\ k'[cpu[plock[q]]] = k[cpu[plock[q]]]
      BY <1>9, <3>1, <3>2, <3>3
    <3>5. cpu[plock[q]] = q => k'[q] = k[q] BY <3>4
    <3> QED BY <3>1, <3>2, <3>4, <3>5
  <2>3. waitlock # NoCpu => cpu[waitlock] # None /\ k'[cpu[waitlock]].pc \in WaitPC
    <3>1. waitlock # NoCpu => waitlock # c /\ waitlock \in CPUs
      BY DEF Locks, Types, WaitPC
    <3> QED BY <1>9, <3>1 DEF Locks
  <2> QED BY <2>1, <2>2, <2>3 DEF Locks
<1>12. k[p].pc = "fork_copy" => Forking(p)
  BY <1>1 DEF Forking, ForkPC, Dead
<1>13. \A q \in Procs : Forking(q)' =>
         Forking(q) /\ k'[q].np = k[q].np /\ state'[k[q].np] = state[k[q].np]
  <2> SUFFICES ASSUME NEW q \in Procs, Forking(q)'
               PROVE  /\ Forking(q) /\ k'[q].np = k[q].np
                      /\ state'[k[q].np] = state[k[q].np]
    OBVIOUS
  <2>1. CASE q = p
    <3>1. k'[p].pc \in ForkPC BY <2>1, <1>4 DEF Forking
    <3> QED BY <2>1, <3>1 DEF Forks
  <2>2. CASE q # p
    <3>1. Forking(q)
      BY <2>2 DEF Forking, Dead
    <3>2. k[q].np \in Procs /\ (k[p].pc = "fork_copy" => k[q].np # x)
      BY <2>2, <3>1, <1>12 DEF Forks
    <3>3. state'[k[q].np] = state[k[q].np]
      BY <1>1, <1>6, <3>2
    <3> QED BY <2>2, <3>1, <3>3
  <2> QED BY <2>1, <2>2
<1>14. Forks'
  <2>1. \A q \in Procs : Forking(q)' => k'[q].np \in Procs /\ state'[k'[q].np] = "USED"
    BY <1>13 DEF Forks
  <2>2. \A q, r \in Procs : Forking(q)' /\ Forking(r)' /\ k'[q].np = k'[r].np => q = r
    BY <1>13 DEF Forks
  <2>3. \A q \in Procs : state'[q] = "USED" => k'[q] = Fresh
    BY <1>1, <1>6 DEF Forks
  <2> QED BY <2>1, <2>2, <2>3 DEF Forks
<1> QED BY <1>7, <1>8, <1>10, <1>11, <1>14

\* The child of fork() has a slot while the lock is held.
LEMMA ForkChild ==
    ASSUME ProcAssumption, Inv, NEW c \in CPUs, NEW p \in Procs, cpu[c] = p,
           k[p].pc \in ForkPC
    PROVE  /\ Forking(p) /\ k[p].np \in Procs /\ state[k[p].np] = "USED"
           /\ k[p].np # p /\ k[k[p].np] = Fresh
           /\ \A d \in CPUs : cpu[d] # k[p].np
<1>1. state[p] = "RUNNING" /\ p # None BY RunFacts DEF ForkPC
<1>2. Forking(p) BY <1>1 DEF Forking, Dead
<1>3. k[p].np \in Procs /\ state[k[p].np] = "USED" /\ k[k[p].np] = Fresh
  BY <1>2 DEF Inv, Forks
<1>4. k[p].np # None BY <1>3, ProcAssumption DEF ProcAssumption, Procs, None
<1>5. \A d \in CPUs : cpu[d] # k[p].np BY <1>3, <1>4 DEF Inv, States
<1> QED BY <1>1, <1>2, <1>3, <1>5

\* forkret(), yield() and sleep() after the switch, and fork() after the copy.
LEMMA ReleaseSteps ==
    ASSUME ProcAssumption, Inv, NEW c \in CPUs, NEW p \in Procs,
           Resume(c, p) \/ ForkFails(c, p) \/ ForkCopy(c, p)
    PROVE  Inv'
<1> USE DEF Inv
<1>1. cpu[c] = p /\ UNCHANGED <<cpu, waitlock>>
  BY DEF Resume, ForkFails, ForkCopy, At
<1>2. k[p] \in Thread BY DEF Types
<1>3. CASE Resume(c, p)
  <2>1. /\ k[p].pc = "resume" /\ Goto(p, k[p].back) /\ k[p].back \in OpenPC
        /\ state' = state /\ plock' = [plock EXCEPT ![p] = NoCpu]
    BY <1>2, <1>3 DEF Resume, At, Thread
  <2>2. /\ k' \in [Procs -> Thread] /\ k'[p].pc = k[p].back /\ k'[p].np = k[p].np
        /\ \A q \in Procs : q # p => k'[q] = k[q]
    BY <2>1, GotoFacts DEF PC
  <2>3. /\ plock' \in [Procs -> CPUs \cup {NoCpu}]
        /\ chan' \in [Procs -> Procs \cup {None}] /\ parent' = parent
    BY <1>3 DEF Resume, Types
  <2>4. Types' BY <1>1, <2>1, <2>2, <2>3 DEF Types, OpenPC
  <2>5. state[p] = "RUNNING" BY <1>1, <2>1, RunFacts
  <2>6. k'[p].pc \in ForkPC => Forking(p)
    BY <2>1, <2>2, <2>5 DEF Forking, Dead
  <2> QED BY <1>1, <2>1, <2>2, <2>4, <2>6, ReleaseInv
<1>4. CASE ForkFails(c, p) \/ ForkCopy(c, p)
  <2>1. /\ k[p].pc = "fork_copy" /\ plock' = [plock EXCEPT ![k[p].np] = NoCpu]
    BY <1>4 DEF ForkFails, ForkCopy, At
  <2>2. Forking(p) /\ k[p].np \in Procs /\ state[k[p].np] = "USED"
    BY <1>1, <2>1, ForkChild DEF ForkPC
  <2>3. PICK y \in {"user", "fork_parent"} :
          /\ Goto(p, y)
          /\ \/ UNCHANGED <<state, parent, chan>>
             \/ Freeproc(k[p].np) /\ y = "user"
    BY <1>4 DEF ForkFails, ForkCopy
  <2>4. /\ k' \in [Procs -> Thread] /\ k'[p].pc = y /\ k'[p].np = k[p].np
        /\ \A q \in Procs : q # p => k'[q] = k[q]
    BY <2>3, GotoFacts DEF PC, OpenPC
  <2>5. /\ plock' \in [Procs -> CPUs \cup {NoCpu}]
        /\ chan' \in [Procs -> Procs \cup {None}]
        /\ parent' \in [Procs -> Procs \cup {None}]
        /\ state' \in [Procs -> {"UNUSED", "USED", "SLEEPING", "RUNNABLE",
                                 "RUNNING", "ZOMBIE"}]
    BY <2>1, <2>3 DEF Freeproc, Types
  <2>6. Types' BY <1>1, <2>4, <2>5 DEF Types
  <2>7. \A q \in Procs : \/ state'[q] = state[q]
                         \/ /\ q = k[p].np /\ state[q] = "USED" /\ state'[q] = "UNUSED"
                            /\ k'[p].pc \notin ForkPC
    BY <2>2, <2>3, <2>4 DEF Freeproc, ForkPC, Types
  <2> QED BY <1>1, <2>1, <2>2, <2>4, <2>6, <2>7, ReleaseInv DEF OpenPC
<1> QED BY <1>3, <1>4

\* fork() lets the child run.
LEMMA ForkRunInv ==
    ASSUME ProcAssumption, Inv, NEW c \in CPUs, NEW p \in Procs, ForkRun(c, p)
    PROVE  Inv'
<1> USE DEF Inv
<1> DEFINE x == k[p].np
<1>1. /\ cpu[c] = p /\ k[p].pc = "fork_run" /\ Free(x) /\ Goto(p, "user")
      /\ UNCHANGED <<parent, chan, cpu, plock, waitlock>>
  BY DEF ForkRun, At
<1>2. /\ Forking(p) /\ x \in Procs /\ state[x] = "USED" /\ x # p /\ k[x] = Fresh
      /\ \A d \in CPUs : cpu[d] # x
  BY <1>1, ForkChild DEF ForkPC
<1>3. /\ k' \in [Procs -> Thread] /\ k'[p].pc = "user" /\ k'[p].np = x
      /\ \A q \in Procs : q # p => k'[q] = k[q]
  BY <1>1, GotoFacts DEF PC, OpenPC
<1>4. /\ state' \in [Procs -> {"UNUSED", "USED", "SLEEPING", "RUNNABLE",
                               "RUNNING", "ZOMBIE"}]
      /\ state'[x] = "RUNNABLE" /\ \A q \in Procs : q # x => state'[q] = state[q]
  BY <1>2 DEF ForkRun, Types
<1> HIDE DEF x
<1>5. Types' BY <1>1, <1>3, <1>4 DEF Types
<1>6. /\ p # None /\ OnCpu(p) /\ state[p] = "RUNNING"
      /\ \A d \in CPUs : cpu[d] = p => d = c
  BY <1>1, RunFacts
<1>7. Switched' BY <1>1, <1>3, <1>4, <1>6 DEF Switched, OnCpu
<1>8. OneCpu' BY <1>1 DEF OneCpu
<1>9. \A d \in CPUs : cpu[d] # None =>
        /\ cpu[d] \in Procs /\ state'[cpu[d]] = state[cpu[d]]
        /\ cpu[d] # p => k'[cpu[d]] = k[cpu[d]]
  BY <1>2, <1>3, <1>4 DEF Types
<1>10. States' BY <1>1, <1>3, <1>6, <1>9 DEF States
<1>11. Locks'
  <2>1. ASSUME NEW d \in CPUs, cpu[d] # None
        PROVE  /\ k'[cpu[d]].pc \in {"resume", "sched"} => plock[cpu[d]] = d
               /\ k'[cpu[d]].pc = "fork_copy" => plock[k'[cpu[d]].np] = d
               /\ k'[cpu[d]].pc \in WaitPC => waitlock = d
    BY <1>3, <1>9, <2>1 DEF Locks, WaitPC
  <2>2. ASSUME NEW q \in Procs, plock[q] # NoCpu
        PROVE  LET r == cpu[plock[q]]
               IN  /\ r # None
                   /\ \/ r = q /\ k'[q].pc \in {"resume", "sched"}
                      \/ k'[r].pc = "fork_copy" /\ k'[r].np = q
    <3>1. plock[q] \in CPUs BY <2>2 DEF Types
    <3>2. /\ cpu[plock[q]] # None
          /\ \/ cpu[plock[q]] = q /\ k[q].pc \in {"resume", "sched"}
             \/ k[cpu[plock[q]]].pc = "fork_copy" /\ k[cpu[plock[q]]].np = q
      BY <2>2, <3>1 DEF Locks
    <3>3. cpu[plock[q]] # p BY <1>1, <3>2
    <3> QED BY <1>9, <3>1, <3>2, <3>3
  <2>3. waitlock # NoCpu => cpu[waitlock] # None /\ k'[cpu[waitlock]].pc \in WaitPC
    <3>1. waitlock # NoCpu => cpu[waitlock] # p /\ waitlock \in CPUs
      BY <1>1 DEF Locks, Types, WaitPC
    <3> QED BY <1>9, <3>1 DEF Locks
  <2> QED BY <1>1, <2>1, <2>2, <2>3 DEF Locks
<1>12. \A q \in Procs : Forking(q)' => q # p /\ q # x /\ Forking(q)
  <2>1. ~Forking(p)' BY <1>3 DEF Forking, ForkPC
  <2>2. \A q \in Procs : q = x => ~Forking(q)'
    BY <1>2, <1>3 DEF Forking, ForkPC, Fresh
  <2>3. \A q \in Procs : q # p /\ q # x => (Forking(q)' <=> Forking(q))
    BY <1>3, <1>4 DEF Forking
  <2> QED BY <2>1, <2>2, <2>3
<1>13. Forks'
  <2>1. \A q \in Procs : Forking(q)' => k[q].np # x /\ k'[q] = k[q]
    BY <1>2, <1>3, <1>12 DEF Forks, x
  <2>2. \A q \in Procs : Forking(q)' => k'[q].np \in Procs /\ state'[k'[q].np] = "USED"
    BY <1>4, <1>12, <2>1 DEF Forks
  <2>3. \A q, r \in Procs : Forking(q)' /\ Forking(r)' /\ k'[q].np = k'[r].np => q = r
    BY <1>12, <2>1 DEF Forks
  <2>4. \A q \in Procs : state'[q] = "USED" => k'[q] = Fresh
    BY <1>3, <1>4, <1>6 DEF Forks
  <2> QED BY <2>2, <2>3, <2>4 DEF Forks
<1> QED BY <1>5, <1>7, <1>8, <1>10, <1>11, <1>13

\* allocproc() takes a slot that nobody runs and no other fork() has.
LEMMA AllocprocInv ==
    ASSUME ProcAssumption, Inv, NEW c \in CPUs, NEW p \in Procs, NEW x \in Procs,
           Allocproc(c, p, x)
    PROVE  Inv'
<1> USE DEF Inv
<1>1. /\ cpu[c] = p /\ k[p].pc = "user" /\ Free(x) /\ state[x] = "UNUSED"
      /\ UNCHANGED <<parent, chan, cpu, waitlock>>
  BY DEF Allocproc, InUser, At
<1>2. /\ p # None /\ OnCpu(p) /\ state[p] = "RUNNING" /\ c # NoCpu
      /\ \A d \in CPUs : cpu[d] = p => d = c
  BY <1>1, RunFacts
<1>3. x # p /\ x # None /\ \A d \in CPUs : cpu[d] # x
  BY <1>1, <1>2, ProcAssumption DEF States, ProcAssumption, Procs, None
<1>4. k \in [Procs -> Thread] /\ k[p] \in Thread BY DEF Types
<1>5. Fresh \in Thread /\ Fresh.pc = "resume" /\ Fresh.back = "user"
  BY ProcAssumption DEF Fresh, Thread, PC, WaitPC, OpenPC, None
<1> DEFINE t == [k[p] EXCEPT !.pc = "fork_copy", !.np = x]
<1>6. t \in Thread /\ t.pc = "fork_copy" /\ t.np = x
  BY <1>4 DEF Thread, PC
<1>7. k' = [[k EXCEPT ![p] = t] EXCEPT ![x] = Fresh]
  BY <1>3, <1>4 DEF Allocproc, Thread
<1> HIDE DEF t
<1>8. /\ k' \in [Procs -> Thread] /\ k'[p] = t /\ k'[x] = Fresh
      /\ \A q \in Procs : q # p /\ q # x => k'[q] = k[q]
  BY <1>3, <1>4, <1>5, <1>6, <1>7
<1>9. /\ state' \in [Procs -> {"UNUSED", "USED", "SLEEPING", "RUNNABLE",
                               "RUNNING", "ZOMBIE"}]
      /\ state'[x] = "USED" /\ \A q \in Procs : q # x => state'[q] = state[q]
      /\ plock' \in [Procs -> CPUs \cup {NoCpu}]
      /\ plock'[x] = c /\ \A q \in Procs : q # x => plock'[q] = plock[q]
  BY DEF Allocproc, Types
<1>10. Types' BY <1>1, <1>5, <1>6, <1>8, <1>9 DEF Types
<1>11. Switched' BY <1>1, <1>2, <1>5, <1>8, <1>9 DEF Switched, OnCpu
<1>12. OneCpu' BY <1>1 DEF OneCpu
<1>13. \A d \in CPUs : cpu[d] # None =>
         /\ cpu[d] \in Procs /\ state'[cpu[d]] = state[cpu[d]]
         /\ cpu[d] # p => k'[cpu[d]] = k[cpu[d]]
  BY <1>3, <1>8, <1>9 DEF Types
<1>14. States' BY <1>1, <1>2, <1>6, <1>8, <1>13 DEF States
<1>15. Locks'
  <2>1. ASSUME NEW d \in CPUs, cpu[d] # None
        PROVE  /\ k'[cpu[d]].pc \in {"resume", "sched"} => plock'[cpu[d]] = d
               /\ k'[cpu[d]].pc = "fork_copy" => plock'[k'[cpu[d]].np] = d
               /\ k'[cpu[d]].pc \in WaitPC => waitlock = d
    <3>1. CASE cpu[d] = p BY <3>1, <1>2, <1>6, <1>8, <1>9 DEF WaitPC
    <3>2. CASE cpu[d] # p
      <4>1. /\ k[cpu[d]].pc \in {"resume", "sched"} => plock[cpu[d]] = d
            /\ k[cpu[d]].pc = "fork_copy" => plock[k[cpu[d]].np] = d
            /\ k[cpu[d]].pc \in WaitPC => waitlock = d
        BY <2>1 DEF Locks
      <4>2. k[cpu[d]].pc = "fork_copy" => k[cpu[d]].np \in Procs /\ k[cpu[d]].np # x
        BY <1>1, <1>13, <2>1, ForkChild DEF ForkPC
      <4> QED BY <1>3, <1>9, <1>13, <2>1, <3>2, <4>1, <4>2
    <3> QED BY <3>1, <3>2
  <2>2. ASSUME NEW q \in Procs, plock'[q] # NoCpu
        PROVE  LET r == cpu[plock'[q]]
               IN  /\ r # None
                   /\ \/ r = q /\ k'[q].pc \in {"resume", "sched"}
                      \/ k'[r].pc = "fork_copy" /\ k'[r].np = q
    <3>1. CASE q = x BY <3>1, <1>1, <1>2, <1>6, <1>8, <1>9
    <3>2. CASE q # x
      <4>1. plock'[q] = plock[q] /\ plock[q] \in CPUs
        BY <1>9, <2>2, <3>2 DEF Types
      <4>2. /\ cpu[plock[q]] # None
            /\ \/ cpu[plock[q]] = q /\ k[q].pc \in {"resume", "sched"}
               \/ k[cpu[plock[q]]].pc = "fork_copy" /\ k[cpu[plock[q]]].np = q
        BY <2>2, <4>1 DEF Locks
      <4>3. cpu[plock[q]] # p BY <1>1, <4>2
      <4> QED BY <1>13, <4>1, <4>2, <4>3
    <3> QED BY <3>1, <3>2
  <2>3. waitlock # NoCpu => cpu[waitlock] # None /\ k'[cpu[waitlock]].pc \in WaitPC
    <3>1. waitlock # NoCpu => cpu[waitlock] # p /\ waitlock \in CPUs
      BY <1>1 DEF Locks, Types, WaitPC
    <3> QED BY <1>13, <3>1 DEF Locks
  <2> QED BY <1>1, <2>1, <2>2, <2>3 DEF Locks
<1>16. Forks'
  <2>1. ~Forking(x)' BY <1>9 DEF Forking, Dead
  <2>2. \A q \in Procs : q # p /\ Forking(q)' =>
          Forking(q) /\ k'[q] = k[q] /\ k[q].np \in Procs /\ state[k[q].np] = "USED"
    BY <1>8, <1>9, <2>1 DEF Forking, Forks
  <2>3. \A q \in Procs : Forking(q)' => k'[q].np \in Procs /\ state'[k'[q].np] = "USED"
    BY <1>1, <1>6, <1>8, <1>9, <2>2
  <2>4. \A q, r \in Procs : Forking(q)' /\ Forking(r)' /\ k'[q].np = k'[r].np => q = r
    BY <1>1, <1>6, <1>8, <2>2 DEF Forks
  <2>5. \A q \in Procs : state'[q] = "USED" => k'[q] = Fresh
    BY <1>2, <1>3, <1>8, <1>9 DEF Forks
  <2> QED BY <2>3, <2>4, <2>5 DEF Forks
<1> QED BY <1>10, <1>11, <1>12, <1>14, <1>15, <1>16

\* The invariant is inductive.
LEMMA NextInv == ASSUME ProcAssumption, Inv, [Next]_vars PROVE Inv'
<1>1. CASE UNCHANGED vars
  BY <1>1 DEF vars, Inv, Types, Switched, OnCpu, States, OneCpu, Locks, Forks, Forking
<1>2. CASE Next
  BY <1>2, LocalSteps, ToSchedSteps, SchedulerInv, SchedInv, ReleaseSteps, ForkRunInv,
     AllocprocInv DEF Next, Step, KernelStep
<1> QED BY <1>1, <1>2

\* The invariant holds in every reachable state.
LEMMA InvAlways == ASSUME ProcAssumption PROVE Spec => []Inv
BY InitInv, NextInv, PTL DEF Spec

\* No kernel stack is ever used by two CPUs, freed under a CPU that still runs on
\* it or left with another lock than p->lock, for any number of CPUs and slots.
THEOREM KernelStacksSafe == ASSUME ProcAssumption PROVE Spec => []StacksSafe
<1>1. Inv => StacksSafe
  <2> SUFFICES ASSUME Inv PROVE StacksSafe OBVIOUS
  <2> USE DEF Inv
  <2>1. OneCpuPerProc
    BY DEF OneCpu, OneCpuPerProc, Switched, OnCpu
  <2>2. NotFreedUnderfoot BY DEF NotFreedUnderfoot, States
  <2>3. SchedLocks
    <3> SUFFICES ASSUME NEW c \in CPUs, NEW p \in Procs, At(c, p, "sched")
                 PROVE  Held(c) = {p}
      BY DEF SchedLocks
    <3>1. plock[p] = c /\ cpu[c] = p /\ k[p].pc = "sched" BY RunFacts DEF At
    <3>2. \A q \in Procs : plock[q] = c => q = p
      BY <3>1, ProcAssumption DEF Locks, ProcAssumption
    <3>3. waitlock # c BY <3>1, ProcAssumption DEF Locks, WaitPC, ProcAssumption
    <3> QED BY <3>1, <3>2, <3>3 DEF Held
  <2> QED BY <2>1, <2>2, <2>3 DEF StacksSafe
<1> QED BY <1>1, InvAlways, PTL

-----------------------------------------------------------------------------
\* Where a thread is, or was when it was preempted.
In(p, x) == k[p].pc = x \/ (k[p].pc \in {"resume", "sched"} /\ k[p].back = x)
ExitPC == {"wakeup", "exit_parent", "exit_zombie"}

\* The tree of processes: a parent is alive and not on its way out, and every
\* process but init has one, from the moment fork() makes it runnable.
Tree ==
    /\ \A q \in Procs : parent[q] # None =>
         state[parent[q]] \notin Dead /\ k[parent[q]].pc \notin ExitPC
    /\ \A q \in Procs : state[q] = "UNUSED" => parent[q] = None
    /\ \A q \in Procs : q # initproc /\ state[q] \notin {"UNUSED", "USED"} =>
         parent[q] # None
    /\ \A p \in Procs : state[p] \notin Dead /\ In(p, "fork_run") => parent[k[p].np] = p
    /\ state[initproc] \notin Dead /\ k[initproc].pc \notin ExitPC

Sleeper(p) == state[p] = "SLEEPING" /\ chan[p] = p

\* No sleeping parent has a zombie, except init between the moment it inherits
\* one and the wakeup() that follows under wait_lock; wait() has seen no zombie
\* in the slots behind it; wakeup() has woken the parent in the slots behind it,
\* so that exit() finds it awake when it makes the zombie.
Zombies ==
    /\ \A p, q \in Procs : Sleeper(p) /\ parent[q] = p /\ state[q] = "ZOMBIE" =>
         /\ p = initproc
         /\ \E e \in Procs : /\ k[e].pc = "wakeup" /\ k[e].i = initproc
                             /\ k[e].on = <<initproc, "exit_parent">>
    /\ \A p, q \in Procs :
         /\ k[p].pc = "sleep" \/ (k[p].pc = "wait_scan" /\ q < k[p].i)
         /\ parent[q] = p
         => state[q] # "ZOMBIE"
    /\ \A e \in Procs : parent[e] # None =>
         /\ k[e].pc = "exit_zombie" => ~Sleeper(parent[e])
         /\ k[e].pc = "wakeup" /\ k[e].on[2] = "exit_zombie" =>
              /\ k[e].on[1] = parent[e]
              /\ Sleeper(parent[e]) => parent[e] >= k[e].i
    /\ \A e \in Procs : k[e].pc = "wakeup" /\ k[e].on[2] = "exit_parent" =>
         k[e].on[1] = initproc

\* Only one thread at a time is in a section of wait_lock.
LEMMA SoleWaiter ==
    ASSUME ProcAssumption, Inv, NEW p \in Procs, k[p].pc \in WaitPC
    PROVE  /\ OnCpu(p) /\ waitlock # NoCpu
           /\ \A q \in Procs : k[q].pc \in WaitPC => q = p
<1> USE DEF Inv
<1>1. \A q \in Procs : k[q].pc \in WaitPC => OnCpu(q) BY DEF Switched, WaitPC
<1>2. \A q \in Procs : q # None
  BY ProcAssumption DEF ProcAssumption, Procs, None
<1>3. \A q \in Procs : k[q].pc \in WaitPC =>
        waitlock \in CPUs /\ cpu[waitlock] = q
  BY <1>1, <1>2 DEF OnCpu, Locks
<1> QED BY <1>1, <1>3, ProcAssumption DEF ProcAssumption

\* What each step does to the thread that takes it.
LEMMA Moves ==
    ASSUME ProcAssumption, Inv, NEW c \in CPUs, NEW p \in Procs
    PROVE  /\ Step(c, p) /\ (\A x \in Procs : ~Allocproc(c, p, x)) =>
                \A q \in Procs : q # p => k'[q] = k[q]
           /\ Wakeup(c, p) =>
                \/ k[p].i > NPROC /\ k'[p].pc = k[p].on[2]
                \/ k[p].i =< NPROC /\ k'[p].pc = "wakeup" /\ k'[p].i = k[p].i + 1
                   /\ k'[p].on = k[p].on
           /\ Sched(c, p) => k'[p].pc = "resume" /\ k'[p].back = k[p].back
                             /\ k'[p].np = k[p].np
           /\ Resume(c, p) => k'[p].pc = k[p].back /\ k'[p].np = k[p].np
           /\ Yield(c, p) => k'[p].pc = "sched" /\ k'[p].back = k[p].pc
                             /\ k'[p].np = k[p].np
           /\ Sleep(c, p) => k'[p].pc = "sched" /\ k'[p].back = "wait_again"
           /\ ExitReparent(c, p) =>
                \/ k'[p].pc = "exit_parent" /\ ~ \E q \in Procs : parent[q] = p
                \/ k'[p].pc = "wakeup" /\ k'[p].i = 1
                   /\ k'[p].on = <<initproc, "exit_parent">>
           /\ ExitParent(c, p) =>
                k'[p].pc = "wakeup" /\ k'[p].i = 1
                /\ k'[p].on = <<parent[p], "exit_zombie">>
           /\ WaitStart(c, p) => k'[p].pc = "wait_scan" /\ k'[p].i = 1
           /\ WaitSkip(c, p) => k'[p].pc = "wait_scan" /\ k'[p].i = k[p].i + 1
           /\ \A x \in {"user", "fork_parent", "fork_run", "sleep", "sched"} :
                Goto(p, x) => k'[p].pc = x /\ k'[p].np = k[p].np /\ k'[p].back = k[p].back
<1>0. Types /\ k \in [Procs -> Thread] /\ k[p] \in Thread BY DEF Inv, Types
<1>a. k[p].back \in PC /\ k[p].i \in Nat BY <1>0 DEF Thread, PC
<1>1. ASSUME NEW x \in {"user", "fork_parent", "fork_run", "sleep", "sched"}, Goto(p, x)
      PROVE  /\ k'[p].pc = x /\ k'[p].np = k[p].np /\ k'[p].back = k[p].back
             /\ \A q \in Procs : q # p => k'[q] = k[q]
  BY <1>0, <1>1, GotoFacts DEF PC, OpenPC, WaitPC
<1>2. ASSUME Wakeup(c, p)
      PROVE  /\ \/ k[p].i > NPROC /\ k'[p].pc = k[p].on[2]
                \/ k[p].i =< NPROC /\ k'[p].pc = "wakeup" /\ k'[p].i = k[p].i + 1
                   /\ k'[p].on = k[p].on
             /\ \A q \in Procs : q # p => k'[q] = k[q]
  <2>1. CASE k[p].i > NPROC
    <3>1. Goto(p, k[p].on[2]) BY <1>2, <2>1 DEF Wakeup
    <3>2. k[p].on[2] \in PC
      BY <1>0, <1>2 DEF Wakeup, At, Thread, PC, WaitPC, OpenPC
    <3> QED BY <1>0, <2>1, <3>1, <3>2, GotoFacts
  <2>2. CASE ~(k[p].i > NPROC)
    <3>1. k' = [k EXCEPT ![p] = [k[p] EXCEPT !.i = k[p].i + 1]] /\ k[p].pc = "wakeup"
      BY <1>2, <2>2 DEF Wakeup, At
    <3> DEFINE n == k[p].i + 1
               t == [k[p] EXCEPT !.i = n]
    <3>2. t.pc = "wakeup" /\ t.i = n /\ t.on = k[p].on
      BY <1>0, <3>1 DEF Thread
    <3>3. k' = [k EXCEPT ![p] = t] BY <3>1
    <3> HIDE DEF t
    <3>4. k[p].i =< NPROC BY <1>a, <2>2, ProcAssumption DEF ProcAssumption
    <3> QED BY <1>0, <3>2, <3>3, <3>4
  <2> QED BY <2>1, <2>2
<1>3. ASSUME Sched(c, p) \/ Resume(c, p)
      PROVE  /\ Sched(c, p) => k'[p].pc = "resume" /\ k'[p].back = k[p].back
             /\ Resume(c, p) => k'[p].pc = k[p].back
             /\ k'[p].np = k[p].np /\ \A q \in Procs : q # p => k'[q] = k[q]
  <2>1. CASE Sched(c, p)
    <3>1. Goto(p, "resume") /\ k[p].pc = "sched" BY <2>1 DEF Sched, At
    <3> QED BY <1>0, <3>1, GotoFacts DEF Resume, At, PC
  <2>2. CASE Resume(c, p)
    <3>1. Goto(p, k[p].back) /\ k[p].pc = "resume" BY <2>2 DEF Resume, At
    <3> QED BY <1>0, <1>a, <3>1, GotoFacts DEF Sched, At
  <2> QED BY <1>3, <2>1, <2>2
<1>4. ASSUME Yield(c, p)
      PROVE  /\ k'[p].pc = "sched" /\ k'[p].back = k[p].pc /\ k'[p].np = k[p].np
             /\ \A q \in Procs : q # p => k'[q] = k[q]
  <2>1. k' = [k EXCEPT ![p] = [k[p] EXCEPT !.back = k[p].pc, !.pc = "sched"]]
    BY <1>0, <1>4 DEF Yield, Thread
  <2> QED BY <1>0, <2>1 DEF Thread
<1>5. ASSUME Sleep(c, p)
      PROVE  /\ k'[p].pc = "sched" /\ k'[p].back = "wait_again"
             /\ \A q \in Procs : q # p => k'[q] = k[q]
  <2>1. k' = [k EXCEPT ![p] = [k[p] EXCEPT !.pc = "sched", !.back = "wait_again"]]
    BY <1>0, <1>5 DEF Sleep, Thread
  <2> QED BY <1>0, <2>1 DEF Thread
<1>6. ASSUME NEW a \in Procs \cup {None}, NEW z \in {"exit_parent", "exit_zombie"},
             k' = [k EXCEPT ![p].pc = "wakeup", ![p].i = 1, ![p].on = <<a, z>>]
      PROVE  /\ k'[p].pc = "wakeup" /\ k'[p].i = 1 /\ k'[p].on = <<a, z>>
             /\ \A q \in Procs : q # p => k'[q] = k[q]
  <2> DEFINE t == [k[p] EXCEPT !.pc = "wakeup", !.i = 1, !.on = <<a, z>>]
  <2>1. k' = [k EXCEPT ![p] = t] BY <1>0, <1>6 DEF Thread
  <2>2. t.pc = "wakeup" /\ t.i = 1 /\ t.on = <<a, z>> BY <1>0 DEF Thread
  <2> HIDE DEF t
  <2> QED BY <1>0, <2>1, <2>2
<1>7. ASSUME ExitReparent(c, p)
      PROVE  /\ \/ k'[p].pc = "exit_parent" /\ ~ \E q \in Procs : parent[q] = p
                \/ k'[p].pc = "wakeup" /\ k'[p].i = 1
                   /\ k'[p].on = <<initproc, "exit_parent">>
             /\ \A q \in Procs : q # p => k'[q] = k[q]
  <2>1. CASE \E q \in Procs : parent[q] = p
    <3>1. initproc \in Procs \cup {None}
      BY ProcAssumption DEF ProcAssumption, Procs, initproc
    <3>2. k' = [k EXCEPT ![p].pc = "wakeup", ![p].i = 1,
                         ![p].on = <<initproc, "exit_parent">>]
      BY <1>7, <2>1 DEF ExitReparent
    <3> QED BY <1>6, <3>1, <3>2
  <2>2. CASE ~ \E q \in Procs : parent[q] = p
    <3>1. Goto(p, "exit_parent") BY <1>7, <2>2 DEF ExitReparent
    <3> QED BY <1>0, <2>2, <3>1, GotoFacts DEF PC, WaitPC
  <2> QED BY <2>1, <2>2
<1>8. ASSUME ExitParent(c, p)
      PROVE  /\ k'[p].pc = "wakeup" /\ k'[p].i = 1
             /\ k'[p].on = <<parent[p], "exit_zombie">>
             /\ \A q \in Procs : q # p => k'[q] = k[q]
  BY <1>0, <1>6, <1>8 DEF ExitParent, Types
<1>9. ASSUME WaitStart(c, p)
      PROVE  /\ k'[p].pc = "wait_scan" /\ k'[p].i = 1
             /\ \A q \in Procs : q # p => k'[q] = k[q]
  <2>1. k' = [k EXCEPT ![p] = [k[p] EXCEPT !.pc = "wait_scan", !.i = 1, !.kids = FALSE]]
    BY <1>0, <1>9 DEF WaitStart, Thread
  <2> QED BY <1>0, <2>1 DEF Thread
<1>10. ASSUME WaitSkip(c, p)
       PROVE  /\ k'[p].pc = "wait_scan" /\ k'[p].i = k[p].i + 1
              /\ \A q \in Procs : q # p => k'[q] = k[q]
  <2>1. k[p].pc = "wait_scan" BY <1>10 DEF WaitSkip, At
  <2>2. PICK n \in Nat, b \in BOOLEAN :
          n = k[p].i + 1 /\ k' = [k EXCEPT ![p] = [k[p] EXCEPT !.i = n, !.kids = b]]
    <3>1. (k[p].kids \/ parent[k[p].i] = p) \in BOOLEAN /\ k[p].i + 1 \in Nat
      BY <1>a
    <3> QED BY <1>0, <1>10, <3>1 DEF WaitSkip, Thread
  <2> QED BY <1>0, <2>1, <2>2 DEF Thread
<1>11. \A x \in {"user", "fork_parent", "fork_run", "sleep", "sched"} :
         Goto(p, x) => \A q \in Procs : q # p => k'[q] = k[q]
  BY <1>1
<1>12. Step(c, p) /\ (\A x \in Procs : ~Allocproc(c, p, x)) =>
         \A q \in Procs : q # p => k'[q] = k[q]
  BY <1>2, <1>3, <1>4, <1>5, <1>7, <1>8, <1>9, <1>10, <1>11
     DEF Step, KernelStep, ForkFails, ForkCopy, ForkParent, ForkRun, ExitZombie,
         WaitNone, WaitSleep, WaitReap, WaitCopyFails, Return, Kill, Scheduler
<1> QED BY <1>1, <1>2, <1>3, <1>4, <1>5, <1>7, <1>8, <1>9, <1>10, <1>12

\* A step that changes no parent, creates, ends or collects no process and
\* lets no thread enter exit() or fork()'s last part leaves the tree alone.
LEMMA TreeKept ==
    ASSUME Types, Tree, parent' = parent,
           \A q \in Procs : /\ state'[q] \in Dead <=> state[q] \in Dead
                            /\ state'[q] = "UNUSED" <=> state[q] = "UNUSED"
                            /\ state'[q] = "USED" <=> state[q] = "USED"
                            /\ k'[q].pc \in ExitPC => k[q].pc \in ExitPC,
           \A q \in Procs : state[q] \notin Dead /\ In(q, "fork_run")' =>
                              In(q, "fork_run") /\ k'[q].np = k[q].np,
           initproc \in Procs
    PROVE  Tree'
<1>1. \A q \in Procs : parent[q] # None => parent[q] \in Procs BY DEF Types
<1>2. \A q \in Procs : parent'[q] # None =>
        state'[parent'[q]] \notin Dead /\ k'[parent'[q]].pc \notin ExitPC
  BY <1>1 DEF Tree
<1>3. \A q \in Procs : state'[q] \notin Dead /\ In(q, "fork_run")' =>
        parent'[k'[q].np] = q
  BY DEF Tree
<1>4. \A q \in Procs : state'[q] = "UNUSED" => parent'[q] = None BY DEF Tree
<1>5. \A q \in Procs : q # initproc /\ state'[q] \notin {"UNUSED", "USED"} =>
        parent'[q] # None
  BY DEF Tree
<1>6. state'[initproc] \notin Dead /\ k'[initproc].pc \notin ExitPC BY DEF Tree
<1> QED BY <1>2, <1>3, <1>4, <1>5, <1>6 DEF Tree

\* The steps to which TreeKept applies.
LEMMA TreeQuiet ==
    ASSUME ProcAssumption, Inv, Tree, NEW c \in CPUs, NEW p \in Procs,
           \/ Scheduler(c, p) \/ Sched(c, p) \/ Resume(c, p) \/ Yield(c, p)
           \/ Wakeup(c, p) \/ ForkCopy(c, p) \/ ExitParent(c, p) \/ WaitStart(c, p)
           \/ WaitSkip(c, p) \/ WaitNone(c, p) \/ WaitSleep(c, p) \/ Sleep(c, p)
           \/ \E q \in Procs : WaitCopyFails(c, p, q) \/ Kill(c, p, q)
    PROVE  Tree'
<1>1. Types /\ k \in [Procs -> Thread] /\ initproc \in Procs
  BY ProcAssumption DEF Inv, Types, ProcAssumption, Procs, initproc
<1>2. parent' = parent
  BY DEF Scheduler, Sched, Resume, Yield, Wakeup, ForkCopy, ExitParent, WaitStart,
         WaitSkip, WaitNone, WaitSleep, Sleep, WaitCopyFails, Kill
<1>3. \A q \in Procs : /\ state'[q] \in Dead <=> state[q] \in Dead
                       /\ state'[q] = "UNUSED" <=> state[q] = "UNUSED"
                       /\ state'[q] = "USED" <=> state[q] = "USED"
  <2>1. CASE \/ Scheduler(c, p) \/ Wakeup(c, p)
             \/ \E q \in Procs : Kill(c, p, q)
    BY <1>1, <2>1 DEF Scheduler, Wakeup, Awake, Kill, Types, Dead
  <2>2. CASE Yield(c, p) \/ Sleep(c, p)
    <3>1. state[p] = "RUNNING" BY <2>2, RunFacts DEF Yield, Sleep, At
    <3> QED BY <1>1, <2>2, <3>1 DEF Yield, Sleep, Types, Dead
  <2> QED BY <2>1, <2>2 DEF Sched, Resume, ForkCopy, ExitParent, WaitStart,
             WaitSkip, WaitNone, WaitSleep, WaitCopyFails
<1>4. \A x \in Procs : ~Allocproc(c, p, x)
  BY <1>1, <1>3 DEF Allocproc, Types
<1>5. \A q \in Procs : q # p => k'[q] = k[q]
  BY <1>4, Moves DEF Step, KernelStep
<1>6. /\ k'[p].pc \in ExitPC => k[p].pc \in ExitPC
      /\ state[p] \notin Dead /\ In(p, "fork_run")' =>
           In(p, "fork_run") /\ k'[p].np = k[p].np
  <2>0. k[p] \in Thread BY <1>1
  <2>1. CASE k' = k BY <2>1 DEF In
  <2>2. CASE Sched(c, p) BY <2>2, Moves DEF Sched, At, In, ExitPC
  <2>3. CASE Resume(c, p)
    BY <2>0, <2>3, Moves DEF Resume, At, In, ExitPC, Thread, OpenPC
  <2>4. CASE Yield(c, p)
    <3>1. k[p].pc # "resume" /\ k[p].pc # "sched"
      BY <2>4, RunFacts DEF Yield, Free
    <3> QED BY <2>4, <3>1, Moves DEF In, ExitPC
  <2>5. CASE Wakeup(c, p)
    BY <2>0, <2>5, <1>1, Moves DEF Wakeup, At, In, ExitPC, Thread
  <2>6. CASE ExitParent(c, p) BY <2>6, Moves DEF ExitParent, At, In, ExitPC
  <2>7. CASE WaitStart(c, p) \/ WaitSkip(c, p) BY <2>7, Moves DEF In, ExitPC
  <2>8. CASE Sleep(c, p) BY <2>8, Moves DEF In, ExitPC
  <2>9. CASE Goto(p, "user") \/ Goto(p, "fork_parent") \/ Goto(p, "sleep")
    BY <2>9, Moves DEF In, ExitPC
  <2> QED BY <2>1, <2>2, <2>3, <2>4, <2>5, <2>6, <2>7, <2>8, <2>9
          DEF Scheduler, Kill, ForkCopy, WaitNone, WaitSleep, WaitCopyFails, Return
<1>7. \A q \in Procs : q # p /\ In(q, "fork_run")' => In(q, "fork_run")
  BY <1>5 DEF In
<1> QED BY <1>1, <1>2, <1>3, <1>5, <1>6, <1>7, TreeKept

\* The tree survives fork(), exit() and wait().
LEMMA TreeSteps ==
    ASSUME ProcAssumption, Inv, Tree, NEW c \in CPUs, NEW p \in Procs,
           \/ ForkFails(c, p) \/ ForkParent(c, p) \/ ForkRun(c, p)
           \/ ExitReparent(c, p) \/ ExitZombie(c, p)
           \/ \E q \in Procs : WaitReap(c, p, q) \/ Allocproc(c, p, q)
    PROVE  Tree'
<1>1. \A q \in Procs : q # None BY ProcAssumption DEF ProcAssumption, Procs, None
<1>2. Types /\ k \in [Procs -> Thread] /\ initproc \in Procs
  BY ProcAssumption DEF Inv, Types, ProcAssumption, Procs, initproc
<1>3. cpu[c] = p /\ k[p].pc # "sched" /\ k[p].pc # "resume"
  BY DEF ForkFails, ForkParent, ForkRun, ExitReparent, ExitZombie, WaitReap, Zombie,
         Allocproc, InUser, At
<1>4. state[p] = "RUNNING" BY <1>3, RunFacts
<1>5. \A q, r \in Procs : parent[q] = r => state[r] \notin Dead /\ k[r].pc \notin ExitPC
  BY <1>1 DEF Tree
<1>6. \A q \in Procs : state[q] \notin Dead /\ In(q, "fork_run") =>
        /\ Forking(q) /\ parent[k[q].np] = q /\ k[q].np \in Procs
        /\ state[k[q].np] = "USED"
  BY DEF Tree, In, Forking, ForkPC, Inv, Forks
<1>7. ASSUME \A q \in Procs : state'[q] = "USED" => state[q] = "USED"
      PROVE  /\ \A q \in Procs : q # p => k'[q] = k[q]
             /\ \A q \in Procs : q # p /\ In(q, "fork_run")' => In(q, "fork_run")
  <2>1. \A q \in Procs : ~Allocproc(c, p, q) BY <1>2, <1>7 DEF Allocproc, Types
  <2>2. \A q \in Procs : q # p => k'[q] = k[q]
    BY <2>1, Moves DEF Step, KernelStep
  <2> QED BY <2>2 DEF In
<1>8. CASE ExitReparent(c, p)
  <2>1. /\ \A q \in Procs : parent'[q] = IF parent[q] = p THEN initproc ELSE parent[q]
        /\ p # initproc /\ k[p].pc = "user" /\ state' = state
    BY <1>8 DEF ExitReparent, At
  <2>2. k'[p].pc \in ExitPC /\ ~In(p, "fork_run")'
    BY <1>8, Moves DEF ExitPC, In
  <2>3. \A q \in Procs : parent'[q] # None =>
          parent'[q] \in Procs /\ parent'[q] # p
          /\ state'[parent'[q]] \notin Dead /\ k'[parent'[q]].pc \notin ExitPC
    <3> SUFFICES ASSUME NEW q \in Procs, parent'[q] # None
                 PROVE  parent'[q] \in Procs /\ parent'[q] # p
                        /\ state'[parent'[q]] \notin Dead
                        /\ k'[parent'[q]].pc \notin ExitPC
      OBVIOUS
    <3>1. CASE parent[q] = p BY <1>2, <1>7, <2>1, <3>1 DEF Tree
    <3>2. CASE parent[q] # p BY <1>2, <1>5, <1>7, <2>1, <3>2 DEF Types
    <3> QED BY <3>1, <3>2
  <2>4. \A q \in Procs : state'[q] \notin Dead /\ In(q, "fork_run")' =>
          parent'[k'[q].np] = q
    BY <1>6, <1>7, <2>1, <2>2
  <2>5. \A q \in Procs : (state'[q] = "UNUSED" => parent'[q] = None)
                         /\ (parent[q] # None => parent'[q] # None)
    BY <1>1, <1>2, <2>1 DEF Tree
  <2> QED BY <1>2, <1>7, <2>1, <2>3, <2>4, <2>5 DEF Tree
<1>9. CASE ExitZombie(c, p)
  <2>1. /\ state' = [state EXCEPT ![p] = "ZOMBIE"] /\ parent' = parent
        /\ k[p].pc = "exit_zombie" /\ Goto(p, "sched")
    BY <1>9 DEF ExitZombie, At
  <2>2. /\ \A q \in Procs : q # p => state'[q] = state[q]
        /\ state'[p] = "ZOMBIE"
    BY <1>2, <2>1 DEF Types
  <2>3. k'[p].pc = "sched" BY <2>1, Moves
  <2>4. \A q \in Procs : parent[q] # None => parent[q] \in Procs /\ parent[q] # p
    BY <1>2, <1>5, <2>1 DEF Types, ExitPC
  <2>5. p # initproc BY <2>1 DEF Tree, ExitPC
  <2>6. \A q \in Procs : state'[q] \notin Dead /\ In(q, "fork_run")' =>
          parent'[k'[q].np] = q
    BY <1>6, <1>7, <2>1, <2>2 DEF Dead
  <2>7. \A q \in Procs : q # initproc /\ state'[q] \notin {"UNUSED", "USED"} =>
          parent'[q] # None
    BY <1>4, <2>1, <2>2 DEF Tree
  <2>8. \A q \in Procs : parent'[q] # None =>
         state'[parent'[q]] \notin Dead /\ k'[parent'[q]].pc \notin ExitPC
    BY <1>5, <1>7, <2>1, <2>2, <2>4
  <2>9. \A q \in Procs : state'[q] = "UNUSED" => parent'[q] = None
    BY <2>1, <2>2 DEF Tree
  <2>10. state'[initproc] \notin Dead /\ k'[initproc].pc \notin ExitPC
    BY <1>2, <1>7, <2>2, <2>5 DEF Tree
  <2> QED BY <2>6, <2>7, <2>8, <2>9, <2>10 DEF Tree
<1>10. ASSUME NEW x \in Procs, state[x] \in Dead, state[x] # "UNUSED",
              state' = [state EXCEPT ![x] = "UNUSED"],
              parent' = [parent EXCEPT ![x] = None], Goto(p, "user"),
              \A q \in Procs : q # p /\ Forking(q) => k[q].np # x
       PROVE  Tree'
  <2>1. /\ \A q \in Procs : q # x => state'[q] = state[q] /\ parent'[q] = parent[q]
        /\ state'[x] = "UNUSED" /\ parent'[x] = None
    BY <1>2, <1>10 DEF Types
  <2>2. k'[p].pc = "user" BY <1>10, Moves
  <2>3. \A q \in Procs : parent[q] # None => parent[q] \in Procs /\ parent[q] # x
    BY <1>2, <1>5, <1>10 DEF Types
  <2>4. \A q \in Procs : state'[q] = "USED" => state[q] = "USED" BY <2>1
  <2>5. x # initproc BY <1>10 DEF Tree
  <2>6. \A q \in Procs : state'[q] \notin Dead /\ In(q, "fork_run")' =>
          parent'[k'[q].np] = q
    BY <1>6, <1>7, <1>10, <2>1, <2>2, <2>4 DEF Dead, In
  <2>7. \A q \in Procs : q # initproc /\ state'[q] \notin {"UNUSED", "USED"} =>
          parent'[q] # None
    BY <2>1 DEF Tree
  <2>8. \A q \in Procs : parent'[q] # None =>
         state'[parent'[q]] \notin Dead /\ k'[parent'[q]].pc \notin ExitPC
    BY <1>5, <1>7, <2>1, <2>2, <2>3, <2>4 DEF ExitPC
  <2>9. \A q \in Procs : state'[q] = "UNUSED" => parent'[q] = None
    BY <2>1 DEF Tree
  <2>10. state'[initproc] \notin Dead /\ k'[initproc].pc \notin ExitPC
    BY <1>2, <1>7, <2>1, <2>2, <2>4, <2>5 DEF Tree, ExitPC
  <2> QED BY <2>6, <2>7, <2>8, <2>9, <2>10 DEF Tree
<1>11. CASE ForkFails(c, p)
  <2>1. /\ k[p].np \in Procs /\ state[k[p].np] = "USED" /\ Forking(p)
    BY <1>3, <1>11, ForkChild DEF ForkFails, At, ForkPC
  <2>2. \A q \in Procs : q # p /\ Forking(q) => k[q].np # k[p].np
    BY <2>1 DEF Inv, Forks
  <2> QED BY <1>10, <1>11, <2>1, <2>2 DEF ForkFails, Freeproc, Dead
<1>12. ASSUME NEW x \in Procs, WaitReap(c, p, x) PROVE Tree'
  <2>1. state[x] = "ZOMBIE" BY <1>12 DEF WaitReap, Zombie
  <2>2. \A q \in Procs : q # p /\ Forking(q) => k[q].np # x
    BY <2>1 DEF Inv, Forks
  <2> QED BY <1>10, <1>12, <2>1, <2>2 DEF WaitReap, Return, Freeproc, Dead
<1>13. CASE ForkParent(c, p)
  <2> DEFINE x == k[p].np
  <2>1. x \in Procs /\ state[x] = "USED" /\ Forking(p)
    BY <1>3, <1>13, ForkChild DEF ForkParent, At, ForkPC
  <2>2. /\ state' = state /\ parent' = [parent EXCEPT ![x] = p] /\ Goto(p, "fork_run")
    BY <1>13 DEF ForkParent
  <2>3. k'[p].pc = "fork_run" /\ k'[p].np = x BY <2>2, Moves
  <2>4. \A q \in Procs : q # p /\ Forking(q) => k[q].np # x
    BY <2>1 DEF Inv, Forks
  <2> HIDE DEF x
  <2>5. parent'[x] = p /\ \A q \in Procs : q # x => parent'[q] = parent[q]
    BY <1>2, <2>1, <2>2 DEF Types
  <2>6. \A q \in Procs : state'[q] \notin Dead /\ In(q, "fork_run")' =>
          parent'[k'[q].np] = q
    BY <1>6, <1>7, <2>2, <2>3, <2>4, <2>5
  <2>7. \A q \in Procs : parent'[q] # None =>
         state'[parent'[q]] \notin Dead /\ k'[parent'[q]].pc \notin ExitPC
    <3> SUFFICES ASSUME NEW q \in Procs, parent'[q] # None
                 PROVE  state'[parent'[q]] \notin Dead /\ k'[parent'[q]].pc \notin ExitPC
      OBVIOUS
    <3>1. CASE parent'[q] = p BY <1>4, <2>2, <2>3, <3>1 DEF Dead, ExitPC
    <3>2. CASE parent'[q] # p
      <4>1. parent'[q] = parent[q] /\ parent[q] \in Procs
        BY <1>2, <2>5, <3>2 DEF Types
      <4> QED BY <1>5, <1>7, <2>2, <3>2, <4>1
    <3> QED BY <3>1, <3>2
  <2>8. \A q \in Procs : /\ state'[q] = "UNUSED" => parent'[q] = None
                         /\ parent[q] # None => parent'[q] # None
    BY <1>1, <2>1, <2>2, <2>5 DEF Tree
  <2>9. k'[initproc].pc \notin ExitPC BY <1>2, <1>7, <2>2, <2>3 DEF Tree, ExitPC
  <2> QED BY <2>2, <2>6, <2>7, <2>8, <2>9 DEF Tree
<1>14. CASE ForkRun(c, p)
  <2> DEFINE x == k[p].np
  <2>1. x \in Procs /\ state[x] = "USED" /\ k[x] = Fresh /\ x # p
    BY <1>3, <1>14, ForkChild DEF ForkRun, At, ForkPC
  <2>2. parent[x] = p BY <1>4, <1>14 DEF ForkRun, At, Tree, In, Dead
  <2>3. /\ parent' = parent /\ state' = [state EXCEPT ![x] = "RUNNABLE"]
        /\ Goto(p, "user")
    BY <1>14 DEF ForkRun
  <2>4. k'[p].pc = "user" BY <2>3, Moves
  <2> HIDE DEF x
  <2>5. state'[x] = "RUNNABLE" /\ \A q \in Procs : q # x => state'[q] = state[q]
    BY <1>2, <2>1, <2>3 DEF Types
  <2>6. \A q \in Procs : state'[q] = "USED" => state[q] = "USED" BY <2>5
  <2>7. ~In(x, "fork_run") BY <2>1 DEF In, Fresh
  <2>8. \A q \in Procs : state'[q] \notin Dead /\ In(q, "fork_run")' =>
          parent'[k'[q].np] = q
    BY <1>6, <1>7, <2>3, <2>4, <2>5, <2>6, <2>7 DEF In
  <2>9. \A q \in Procs : parent'[q] # None =>
         state'[parent'[q]] \notin Dead /\ k'[parent'[q]].pc \notin ExitPC
    BY <1>2, <1>5, <1>7, <2>3, <2>4, <2>5, <2>6 DEF Types, Dead, ExitPC
  <2>10. \A q \in Procs : /\ state'[q] = "UNUSED" => parent'[q] = None
                          /\ q # initproc /\ state'[q] \notin {"UNUSED", "USED"} =>
                               parent'[q] # None
    BY <1>1, <2>2, <2>3, <2>5 DEF Tree
  <2>11. state'[initproc] \notin Dead /\ k'[initproc].pc \notin ExitPC
    BY <1>2, <1>7, <2>4, <2>5, <2>6 DEF Tree, Dead, ExitPC
  <2> QED BY <2>8, <2>9, <2>10, <2>11 DEF Tree
<1>15. ASSUME NEW x \in Procs, Allocproc(c, p, x) PROVE Tree'
  <2>1. state[x] = "UNUSED" /\ x # p /\ parent' = parent
    BY <1>4, <1>15 DEF Allocproc
  <2>2. state'[x] = "USED" /\ \A q \in Procs : q # x => state'[q] = state[q]
    BY <1>2, <1>15 DEF Allocproc, Types
  <2>3. /\ k'[p].pc = "fork_copy" /\ \A q \in Procs : q # p /\ q # x => k'[q] = k[q]
    <3>1. k' = [k EXCEPT ![p] = [k[p] EXCEPT !.pc = "fork_copy", !.np = x], ![x] = Fresh]
      BY <1>2, <1>15, <2>1 DEF Allocproc, Thread
    <3>2. [k[p] EXCEPT !.pc = "fork_copy", !.np = x].pc = "fork_copy"
      BY <1>2 DEF Thread
    <3> QED BY <1>2, <2>1, <3>1, <3>2
  <2>4. \A q \in Procs : parent[q] # None => parent[q] \in Procs /\ parent[q] # x
    BY <1>2, <1>5, <2>1 DEF Types, Dead
  <2>5. \A q \in Procs : state'[q] \notin Dead /\ In(q, "fork_run")' =>
          parent'[k'[q].np] = q
    BY <1>6, <2>1, <2>2, <2>3 DEF In, Dead
  <2>6. \A q \in Procs : parent'[q] # None =>
         state'[parent'[q]] \notin Dead /\ k'[parent'[q]].pc \notin ExitPC
    BY <1>5, <2>1, <2>2, <2>3, <2>4 DEF ExitPC
  <2>7. \A q \in Procs : /\ state'[q] = "UNUSED" => parent'[q] = None
                         /\ q # initproc /\ state'[q] \notin {"UNUSED", "USED"} =>
                              parent'[q] # None
    BY <2>1, <2>2 DEF Tree
  <2>8. x # initproc BY <2>1 DEF Tree, Dead
  <2>9. state'[initproc] \notin Dead /\ k'[initproc].pc \notin ExitPC
    BY <1>2, <2>2, <2>3, <2>8 DEF Tree, ExitPC
  <2> QED BY <2>5, <2>6, <2>7, <2>9 DEF Tree
<1> QED BY <1>8, <1>9, <1>11, <1>12, <1>13, <1>14, <1>15

\* A step that puts nobody to sleep, makes no zombie, gives no process another
\* parent and moves no thread into or within a section of wait_lock.
LEMMA ZombiesKept ==
    ASSUME Types, Zombies,
           \A q \in Procs : Sleeper(q)' => Sleeper(q),
           \A q \in Procs : state'[q] = "ZOMBIE" => state[q] = "ZOMBIE",
           \A q \in Procs : parent'[q] \in {parent[q], None},
           \A q \in Procs : k'[q].pc \in WaitPC => k'[q] = k[q],
           \A q \in Procs : k[q].pc = "wakeup" => k'[q] = k[q],
           \A q \in Procs : q # None
    PROVE  Zombies'
<1>1. ASSUME NEW p \in Procs, NEW q \in Procs, Sleeper(p)', parent'[q] = p,
             state'[q] = "ZOMBIE"
      PROVE  /\ p = initproc
             /\ \E e \in Procs : /\ k'[e].pc = "wakeup" /\ k'[e].i = initproc
                                 /\ k'[e].on = <<initproc, "exit_parent">>
  <2>1. Sleeper(p) /\ parent[q] = p /\ state[q] = "ZOMBIE" BY <1>1
  <2>2. PICK e \in Procs : /\ k[e].pc = "wakeup" /\ k[e].i = initproc
                           /\ k[e].on = <<initproc, "exit_parent">>
    BY <2>1 DEF Zombies
  <2> QED BY <2>1, <2>2 DEF Zombies
<1>2. ASSUME NEW p \in Procs, NEW q \in Procs, parent'[q] = p,
             k'[p].pc = "sleep" \/ (k'[p].pc = "wait_scan" /\ q < k'[p].i)
      PROVE  state'[q] # "ZOMBIE"
  <2>1. k'[p] = k[p] /\ parent[q] = p BY <1>2 DEF WaitPC
  <2> QED BY <1>2, <2>1 DEF Zombies
<1>3. ASSUME NEW e \in Procs, parent'[e] # None, k'[e].pc \in ExitPC
      PROVE  /\ k'[e].pc = "exit_zombie" => ~Sleeper(parent[e])'
             /\ k'[e].pc = "wakeup" /\ k'[e].on[2] = "exit_zombie" =>
                  /\ k'[e].on[1] = parent'[e]
                  /\ Sleeper(parent[e])' => parent'[e] >= k'[e].i
  <2>1. k'[e] = k[e] /\ parent'[e] = parent[e] /\ parent[e] \in Procs
    BY <1>3 DEF WaitPC, ExitPC, Types
  <2>2. \A r \in Procs : r = parent[e] /\ Sleeper(r)' => Sleeper(parent[e])
    OBVIOUS
  <2> QED BY <1>3, <2>1, <2>2 DEF Zombies, Sleeper
<1>4. \A e \in Procs : k'[e].pc = "wakeup" /\ k'[e].on[2] = "exit_parent" =>
        k'[e].on[1] = initproc
  BY DEF Zombies, WaitPC
<1> QED BY <1>1, <1>2, <1>3, <1>4 DEF Zombies, ExitPC

\* The steps to which ZombiesKept applies.
LEMMA ZombiesQuiet ==
    ASSUME ProcAssumption, Inv, Zombies, NEW c \in CPUs, NEW p \in Procs,
           \/ Scheduler(c, p) \/ Sched(c, p) \/ Resume(c, p) \/ Yield(c, p)
           \/ ForkFails(c, p) \/ ForkCopy(c, p) \/ ForkRun(c, p) \/ WaitNone(c, p)
           \/ \E q \in Procs : \/ Allocproc(c, p, q) \/ Kill(c, p, q)
                               \/ WaitReap(c, p, q) \/ WaitCopyFails(c, p, q)
    PROVE  Zombies'
<1>1. \A q \in Procs : q # None BY ProcAssumption DEF ProcAssumption, Procs, None
<1>2. Types /\ k \in [Procs -> Thread] BY DEF Inv, Types
<1>3. k[p].pc \in ForkPC => (cpu[c] = p => k[p].np \in Procs) BY ForkChild
<1>4. \A q \in Procs : Sleeper(q)' => Sleeper(q)
  BY <1>1, <1>2, <1>3
     DEF Scheduler, Sched, Resume, Yield, ForkFails, ForkCopy, ForkRun, WaitNone,
         Allocproc, Kill, WaitReap, WaitCopyFails, Freeproc, Sleeper, Types, At, ForkPC
<1>5. \A q \in Procs : state'[q] = "ZOMBIE" => state[q] = "ZOMBIE"
  BY <1>2, <1>3
     DEF Scheduler, Sched, Resume, Yield, ForkFails, ForkCopy, ForkRun, WaitNone,
         Allocproc, Kill, WaitReap, WaitCopyFails, Freeproc, Types, At, ForkPC
<1>6. \A q \in Procs : parent'[q] \in {parent[q], None}
  BY <1>2, <1>3
     DEF Scheduler, Sched, Resume, Yield, ForkFails, ForkCopy, ForkRun, WaitNone,
         Allocproc, Kill, WaitReap, WaitCopyFails, Freeproc, Types, At, ForkPC
<1>7. /\ \A q \in Procs : k'[q].pc \in WaitPC => k'[q] = k[q]
      /\ \A q \in Procs : k[q].pc = "wakeup" => k'[q] = k[q]
  <2>1. CASE \E x \in Procs : Allocproc(c, p, x)
    <3>1. PICK x \in Procs : Allocproc(c, p, x) BY <2>1
    <3>2. k[p].pc = "user" /\ cpu[c] = p /\ state[x] = "UNUSED"
      BY <3>1 DEF Allocproc, InUser, At
    <3>3. x # p /\ k[x].pc = "resume"
      BY <1>1, <3>2, RunFacts DEF Inv, States, Switched, OnCpu
    <3>4. k' = [k EXCEPT ![p] = [k[p] EXCEPT !.pc = "fork_copy", !.np = x], ![x] = Fresh]
      BY <1>2, <3>1, <3>3 DEF Allocproc, Thread
    <3>5. [k[p] EXCEPT !.pc = "fork_copy", !.np = x].pc = "fork_copy"
      BY <1>2 DEF Thread
    <3>6. k'[p].pc = "fork_copy" /\ k'[x].pc = "resume"
          /\ \A q \in Procs : q # p /\ q # x => k'[q] = k[q]
      BY <1>2, <3>3, <3>4, <3>5 DEF Fresh
    <3> QED BY <3>2, <3>3, <3>6 DEF WaitPC
  <2>2. CASE \A x \in Procs : ~Allocproc(c, p, x)
    <3>1. \A q \in Procs : q # p => k'[q] = k[q]
      BY <2>2, Moves DEF Step, KernelStep
    <3>2. CASE Scheduler(c, p) BY <3>2 DEF Scheduler
    <3>3. CASE Sched(c, p) \/ Yield(c, p)
      <4>1. k[p].pc # "wakeup"
        BY <3>3, RunFacts DEF Sched, Yield, At, Held, WaitPC
      <4> QED BY <3>1, <3>3, <4>1, Moves DEF WaitPC
    <3>4. CASE Resume(c, p)
      <4>1. k[p].pc = "resume" /\ k[p].back \in OpenPC
        BY <1>2, <3>4 DEF Resume, At, Thread
      <4>2. k'[p].pc = k[p].back BY <3>4, Moves
      <4> QED BY <3>1, <4>1, <4>2 DEF WaitPC, OpenPC
    <3>5. CASE \E x \in Procs : Kill(c, p, x) BY <3>5 DEF Kill
    <3>6. CASE k[p].pc # "wakeup" /\ (Goto(p, "user") \/ Goto(p, "fork_parent"))
      BY <3>1, <3>6, Moves DEF WaitPC
    <3> QED BY <2>2, <3>2, <3>3, <3>4, <3>5, <3>6
            DEF ForkFails, ForkCopy, ForkRun, WaitNone, WaitReap, WaitCopyFails,
                Zombie, Return, At
  <2> QED BY <2>1, <2>2
<1> QED BY <1>1, <1>2, <1>4, <1>5, <1>6, <1>7, ZombiesKept

\* wakeup(), fork(), exit() and wait(), where they touch parents, sleepers,
\* zombies or wait_lock.
LEMMA ZombiesSteps ==
    ASSUME ProcAssumption, Inv, Tree, Zombies, NEW c \in CPUs, NEW p \in Procs,
           \/ Wakeup(c, p) \/ ForkParent(c, p) \/ ExitReparent(c, p)
           \/ ExitParent(c, p) \/ ExitZombie(c, p) \/ WaitStart(c, p)
           \/ WaitSkip(c, p) \/ WaitSleep(c, p) \/ Sleep(c, p)
    PROVE  Zombies'
<1>1. /\ \A q \in Procs : q # None /\ q >= 1 /\ q =< NPROC /\ q \in Nat
      /\ initproc \in Procs /\ initproc = 1 /\ NPROC \in Nat /\ NPROC >= 1
  BY ProcAssumption DEF ProcAssumption, Procs, None, initproc
<1>2. Types /\ k \in [Procs -> Thread] /\ k[p].i \in Nat
  BY DEF Inv, Types, Thread
<1>3. \A q \in Procs : state'[q] = "USED" => state[q] = "USED"
  BY <1>2 DEF Wakeup, ForkParent, ExitReparent, ExitParent, ExitZombie, WaitStart,
              WaitSkip, WaitSleep, Sleep, Types
<1>4. \A q \in Procs : q # p => k'[q] = k[q]
  <2>1. \A x \in Procs : ~Allocproc(c, p, x) BY <1>2, <1>3 DEF Allocproc, Types
  <2> QED BY <2>1, Moves DEF Step, KernelStep
\* No other thread is in a section of wait_lock.
<1>5. \A q \in Procs : q # p => k[q].pc \notin WaitPC /\ k'[q].pc \notin WaitPC
  <2>1. CASE k[p].pc \in WaitPC BY <1>4, <2>1, SoleWaiter
  <2>2. CASE waitlock = NoCpu BY <1>4, <2>2, SoleWaiter
  <2> QED BY <2>1, <2>2
          DEF Wakeup, ForkParent, ExitReparent, ExitParent, ExitZombie, WaitStart,
              WaitSkip, WaitSleep, Sleep, At, WaitPC
\* What is left to show of the thread that steps.
<1>6. ASSUME \A q, r \in Procs : Sleeper(q)' /\ parent'[r] = q /\ state'[r] = "ZOMBIE" =>
               /\ q = initproc /\ k'[p].pc = "wakeup" /\ k'[p].i = initproc
               /\ k'[p].on = <<initproc, "exit_parent">>,
             \A q \in Procs : /\ \/ k'[p].pc = "sleep"
                                 \/ k'[p].pc = "wait_scan" /\ q < k'[p].i
                              /\ parent'[q] = p
                              => state'[q] # "ZOMBIE",
             parent'[p] # None => \A r \in Procs : parent'[p] = r =>
               /\ k'[p].pc = "exit_zombie" => ~Sleeper(r)'
               /\ k'[p].pc = "wakeup" /\ k'[p].on[2] = "exit_zombie" =>
                    k'[p].on[1] = r /\ (Sleeper(r)' => r >= k'[p].i),
             k'[p].pc = "wakeup" /\ k'[p].on[2] = "exit_parent" =>
               k'[p].on[1] = initproc,
             parent' \in [Procs -> Procs \cup {None}]
      PROVE  Zombies'
  <2>1. \A q, r \in Procs : Sleeper(q)' /\ parent'[r] = q /\ state'[r] = "ZOMBIE" =>
          /\ q = initproc
          /\ \E e \in Procs : /\ k'[e].pc = "wakeup" /\ k'[e].i = initproc
                              /\ k'[e].on = <<initproc, "exit_parent">>
    BY <1>6
  <2>2. \A r, q \in Procs :
          /\ k'[r].pc = "sleep" \/ (k'[r].pc = "wait_scan" /\ q < k'[r].i)
          /\ parent'[q] = r
          => state'[q] # "ZOMBIE"
    BY <1>5, <1>6 DEF WaitPC
  <2>3. \A e \in Procs : parent'[e] # None =>
         /\ k'[e].pc = "exit_zombie" => ~Sleeper(parent[e])'
         /\ k'[e].pc = "wakeup" /\ k'[e].on[2] = "exit_zombie" =>
              /\ k'[e].on[1] = parent'[e]
              /\ Sleeper(parent[e])' => parent'[e] >= k'[e].i
    BY <1>5, <1>6 DEF WaitPC, Sleeper
  <2>4. \A e \in Procs : k'[e].pc = "wakeup" /\ k'[e].on[2] = "exit_parent" =>
          k'[e].on[1] = initproc
    BY <1>5, <1>6 DEF WaitPC
  <2> QED BY <2>1, <2>2, <2>3, <2>4 DEF Zombies
\* Before the step, only the thread that steps can be the exception.
<1>7. \A q, r \in Procs : Sleeper(q) /\ parent[r] = q /\ state[r] = "ZOMBIE" =>
        /\ q = initproc /\ k[p].pc = "wakeup" /\ k[p].i = initproc
        /\ k[p].on = <<initproc, "exit_parent">>
  BY <1>5 DEF Zombies, WaitPC
<1>8. CASE Wakeup(c, p)
  <2>1. /\ k[p].pc = "wakeup" /\ parent' = parent /\ chan' = chan
        /\ k[p].on[2] \in {"exit_parent", "exit_zombie"} /\ p # initproc
    BY <1>2, <1>8 DEF Wakeup, At, Types, Thread, Tree, ExitPC
  <2>2. CASE k[p].i > NPROC
    <3>1. state' = state /\ k'[p].pc = k[p].on[2]
      BY <1>1, <1>2, <1>8, <2>2, Moves DEF Wakeup
    <3>2. \A q, r \in Procs : ~(Sleeper(q)' /\ parent'[r] = q /\ state'[r] = "ZOMBIE")
      BY <1>1, <1>7, <2>1, <2>2, <3>1 DEF Sleeper
    <3>3. ASSUME NEW r \in Procs, parent'[p] = r, k'[p].pc = "exit_zombie"
          PROVE  ~Sleeper(r)'
      <4>1. parent[p] = r /\ r # None /\ r =< NPROC /\ r \in Nat BY <1>1, <2>1, <3>3
      <4>2. Sleeper(r) => r >= k[p].i BY <2>1, <3>1, <3>3, <4>1 DEF Zombies
      <4>3. ~Sleeper(r) BY <1>1, <1>2, <2>2, <4>1, <4>2
      <4> QED BY <2>1, <3>1, <4>3 DEF Sleeper
    <3> QED BY <1>2, <1>6, <2>1, <3>1, <3>2, <3>3 DEF Types
  <2>3. CASE ~(k[p].i > NPROC)
    <3>1. k'[p].pc = "wakeup" /\ k'[p].i = k[p].i + 1 /\ k'[p].on = k[p].on
      BY <1>8, <2>3, Moves
    <3>2. /\ k[p].i # p /\ Awake(k[p].i, k[p].on[1]) =>
               state' = [state EXCEPT ![k[p].i] = "RUNNABLE"]
          /\ ~(k[p].i # p /\ Awake(k[p].i, k[p].on[1])) => state' = state
      BY <1>8, <2>3 DEF Wakeup
    <3>3. \A q \in Procs : /\ Sleeper(q)' => Sleeper(q)
                           /\ state'[q] = "ZOMBIE" => state[q] = "ZOMBIE"
      BY <1>2, <2>1, <3>2 DEF Sleeper, Types
    <3>4. \A q \in Procs : q = k[p].i /\ q # p /\ q = k[p].on[1] => ~Sleeper(q)'
      BY <1>2, <2>1, <3>2 DEF Sleeper, Types, Awake
    <3>5. \A q, r \in Procs : ~(Sleeper(q)' /\ parent'[r] = q /\ state'[r] = "ZOMBIE")
      <4> SUFFICES ASSUME NEW q \in Procs, NEW r \in Procs, Sleeper(q)',
                          parent'[r] = q, state'[r] = "ZOMBIE"
                   PROVE  FALSE
        OBVIOUS
      <4>1. q = initproc /\ k[p].i = initproc /\ k[p].on[1] = initproc
        BY <1>7, <2>1, <3>3
      <4> QED BY <2>1, <3>4, <4>1
    <3>6. ASSUME NEW r \in Procs, parent'[p] = r, k'[p].on[2] = "exit_zombie"
          PROVE  k'[p].on[1] = r /\ (Sleeper(r)' => r >= k'[p].i)
      <4>1. parent[p] = r /\ r # None BY <1>1, <2>1, <3>6
      <4>2. k[p].on[1] = r /\ (Sleeper(r) => r >= k[p].i)
        BY <2>1, <3>1, <3>6, <4>1 DEF Zombies
      <4>3. r # p BY <2>1, <4>1 DEF Tree, ExitPC
      <4>4. Sleeper(r)' => r # k[p].i BY <3>4, <4>2, <4>3
      <4> QED BY <1>1, <1>2, <3>1, <3>3, <4>2, <4>4
    <3>7. k'[p].on[2] = "exit_parent" => k'[p].on[1] = initproc
      BY <2>1, <3>1 DEF Zombies
    <3> QED BY <1>2, <1>6, <2>1, <3>1, <3>5, <3>6, <3>7 DEF Types
  <2> QED BY <2>2, <2>3
<1>9. CASE ForkParent(c, p)
  <2> DEFINE x == k[p].np
  <2>1. x \in Procs /\ state[x] = "USED" /\ k[p].pc = "fork_parent"
    BY <1>9, ForkChild DEF ForkParent, At, ForkPC
  <2>2. /\ state' = state /\ chan' = chan /\ parent' = [parent EXCEPT ![x] = p]
        /\ Goto(p, "fork_run")
    BY <1>9 DEF ForkParent
  <2>3. k'[p].pc = "fork_run" BY <2>2, Moves
  <2> HIDE DEF x
  <2>4. \A q, r \in Procs : ~(Sleeper(q)' /\ parent'[r] = q /\ state'[r] = "ZOMBIE")
    BY <1>2, <1>7, <2>1, <2>2 DEF Types, Sleeper
  <2>5. parent' \in [Procs -> Procs \cup {None}] BY <1>2, <2>2 DEF Types
  <2> QED BY <1>6, <2>3, <2>4, <2>5
<1>10. CASE ExitReparent(c, p)
  <2>1. /\ state' = state /\ chan' = chan /\ k[p].pc = "user"
        /\ \A q \in Procs : parent'[q] = IF parent[q] = p THEN initproc ELSE parent[q]
        /\ parent' \in [Procs -> Procs \cup {None}]
    BY <1>1, <1>2, <1>10 DEF ExitReparent, At, Types
  <2>2. \/ k'[p].pc = "exit_parent" /\ ~ \E q \in Procs : parent[q] = p
        \/ k'[p].pc = "wakeup" /\ k'[p].i = 1 /\ k'[p].on = <<initproc, "exit_parent">>
    BY <1>10, Moves
  <2>3. \A q, r \in Procs : Sleeper(q)' /\ parent'[r] = q /\ state'[r] = "ZOMBIE" =>
          q = initproc /\ parent[r] = p
    BY <1>7, <2>1 DEF Sleeper
  <2>4. CASE k'[p].pc = "exit_parent" /\ ~ \E q \in Procs : parent[q] = p
    BY <1>6, <2>1, <2>3, <2>4
  <2>5. CASE k'[p].pc = "wakeup" /\ k'[p].i = 1 /\ k'[p].on = <<initproc, "exit_parent">>
    <3>1. k'[p].on[2] = "exit_parent" /\ k'[p].on[1] = initproc BY <2>5
    <3> QED BY <1>1, <1>6, <2>1, <2>3, <2>5, <3>1
  <2> QED BY <2>2, <2>4, <2>5
<1>11. CASE ExitParent(c, p)
  <2>0. UNCHANGED <<state, chan, parent>> /\ k[p].pc = "exit_parent"
    BY <1>11 DEF ExitParent, At
  <2>1. /\ k'[p].pc = "wakeup" /\ k'[p].i = 1
        /\ k'[p].on = <<parent[p], "exit_zombie">>
    BY <1>11, Moves
  <2>2. \A q, r \in Procs : ~(Sleeper(q)' /\ parent'[r] = q /\ state'[r] = "ZOMBIE")
    BY <1>7, <2>0 DEF Sleeper
  <2>3. k'[p].on[1] = parent[p] /\ k'[p].on[2] = "exit_zombie" BY <2>1
  <2> QED BY <1>1, <1>2, <1>6, <2>0, <2>1, <2>2, <2>3 DEF Types
<1>12. CASE ExitZombie(c, p)
  <2>1. /\ state' = [state EXCEPT ![p] = "ZOMBIE"] /\ UNCHANGED <<parent, chan>>
        /\ k[p].pc = "exit_zombie" /\ Goto(p, "sched")
    BY <1>12 DEF ExitZombie, At
  <2>2. k'[p].pc = "sched" BY <2>1, Moves
  <2>3. state'[p] = "ZOMBIE" /\ \A q \in Procs : q # p => state'[q] = state[q]
    BY <1>2, <2>1 DEF Types
  <2>4. \A q \in Procs : Sleeper(q)' => q # p /\ Sleeper(q)
    BY <2>1, <2>3 DEF Sleeper
  <2>5. \A q, r \in Procs : ~(Sleeper(q)' /\ parent'[r] = q /\ state'[r] = "ZOMBIE")
    <3> SUFFICES ASSUME NEW q \in Procs, NEW r \in Procs, Sleeper(q)',
                        parent'[r] = q, state'[r] = "ZOMBIE"
                 PROVE  FALSE
      OBVIOUS
    <3>1. CASE r = p BY <1>1, <2>1, <2>4, <3>1 DEF Zombies
    <3>2. CASE r # p BY <1>7, <2>1, <2>3, <2>4, <3>2
    <3> QED BY <3>1, <3>2
  <2> QED BY <1>2, <1>6, <2>1, <2>2, <2>5 DEF Types
<1>13. CASE WaitStart(c, p) \/ WaitSkip(c, p) \/ WaitSleep(c, p)
  <2>1. UNCHANGED <<state, chan, parent>> /\ k[p].pc # "wakeup"
    BY <1>13 DEF WaitStart, WaitSkip, WaitSleep, InUser, At
  <2>2. \A q, r \in Procs : ~(Sleeper(q)' /\ parent'[r] = q /\ state'[r] = "ZOMBIE")
    BY <1>7, <2>1 DEF Sleeper
  <2>3. k'[p].pc \in {"wait_scan", "sleep"}
    <3>1. WaitSleep(c, p) => Goto(p, "sleep") BY DEF WaitSleep
    <3>2. Goto(p, "sleep") => k'[p].pc = "sleep" BY Moves
    <3> QED BY <1>13, <3>1, <3>2, Moves
  <2>4. ASSUME NEW q \in Procs, parent[q] = p,
               k'[p].pc = "sleep" \/ (k'[p].pc = "wait_scan" /\ q < k'[p].i)
        PROVE  state[q] # "ZOMBIE"
    <3>1. CASE WaitStart(c, p)
      <4>1. k'[p].pc = "wait_scan" /\ k'[p].i = 1 BY <3>1, Moves
      <4>2. q \in Nat /\ q >= 1 BY <1>1
      <4>3. ~(q < 1) BY <4>2
      <4> QED BY <2>4, <4>1, <4>3
    <3>2. CASE WaitSkip(c, p)
      <4>1. k'[p].pc = "wait_scan" /\ k'[p].i = k[p].i + 1 BY <3>2, Moves
      <4>2. /\ k[p].pc = "wait_scan"
            /\ parent[k[p].i] = p => state[k[p].i] # "ZOMBIE"
        BY <3>2 DEF WaitSkip, At
      <4>3. q = k[p].i \/ q < k[p].i
        <5>1. q \in Nat /\ k[p].i \in Nat /\ q < k[p].i + 1 BY <1>1, <1>2, <2>4, <4>1
        <5> QED BY <5>1
      <4> QED BY <2>4, <4>2, <4>3 DEF Zombies
    <3>3. CASE WaitSleep(c, p)
      <4>1. k[p].pc = "wait_scan" /\ k[p].i > NPROC BY <3>3 DEF WaitSleep, At
      <4>2. q < k[p].i BY <1>1, <1>2, <4>1
      <4> QED BY <2>4, <4>1, <4>2 DEF Zombies
    <3> QED BY <1>13, <3>1, <3>2, <3>3
  <2> QED BY <1>2, <1>6, <2>1, <2>2, <2>3, <2>4 DEF Types
<1>14. CASE Sleep(c, p)
  <2>1. /\ state' = [state EXCEPT ![p] = "SLEEPING"] /\ chan' = [chan EXCEPT ![p] = p]
        /\ parent' = parent /\ k[p].pc = "sleep"
    BY <1>14 DEF Sleep, At
  <2>2. /\ \A q \in Procs : state'[q] = "ZOMBIE" => state[q] = "ZOMBIE"
        /\ \A q \in Procs : Sleeper(q)' => q = p \/ Sleeper(q)
    BY <1>2, <2>1 DEF Types, Sleeper
  <2>3. \A q, r \in Procs : ~(Sleeper(q)' /\ parent'[r] = q /\ state'[r] = "ZOMBIE")
    BY <1>7, <2>1, <2>2 DEF Zombies
  <2>4. k'[p].pc = "sched" BY <1>14, Moves
  <2> QED BY <1>2, <1>6, <2>1, <2>3, <2>4 DEF Types
<1> QED BY <1>8, <1>9, <1>10, <1>11, <1>12, <1>13, <1>14

\* The tree and the absence of overlooked zombies are kept by every step.
LEMMA FamilyNext ==
    ASSUME ProcAssumption, Inv, Tree, Zombies, [Next]_vars
    PROVE  Tree' /\ Zombies'
<1>1. CASE UNCHANGED vars
  BY <1>1 DEF vars, Tree, Zombies, In, Sleeper
<1>2. CASE Next
  BY <1>2, TreeQuiet, TreeSteps, ZombiesQuiet, ZombiesSteps DEF Next, Step, KernelStep
<1> QED BY <1>1, <1>2

\* Every zombie has a living parent, which is not asleep in wait() over it once
\* wait_lock is free: sleep() and exit() cannot miss each other, and exit() hands
\* its children to init before it ends.
THEOREM NoZombieIsLost == ASSUME ProcAssumption PROVE Spec => []ZombiesCollected
<1>1. Init => Tree /\ Zombies
  <2> SUFFICES ASSUME Init PROVE Tree /\ Zombies OBVIOUS
  <2>1. initproc \in Procs BY ProcAssumption DEF ProcAssumption, Procs, initproc
  <2>2. \A q \in Procs : /\ k[q].pc = "resume" /\ k[q].back = "user"
                         /\ parent[q] = None
                         /\ q # initproc => state[q] = "UNUSED"
    BY DEF Init, Fresh
  <2>3. state[initproc] = "RUNNABLE" BY <2>1 DEF Init
  <2>4. Tree BY <2>1, <2>2, <2>3 DEF Tree, In, ExitPC, Dead
  <2>5. \A q \in Procs : state[q] # "ZOMBIE" BY <2>2, <2>3
  <2>6. Zombies BY <2>2, <2>5 DEF Zombies
  <2> QED BY <2>4, <2>6
<1>2. Inv /\ Tree /\ Zombies => ZombiesCollected
  <2> SUFFICES ASSUME Inv, Tree, Zombies PROVE ZombiesCollected OBVIOUS
  <2>1. NoZombieOverlooked
    <3> SUFFICES ASSUME waitlock = NoCpu, NEW p \in Procs, NEW q \in Procs,
                        parent[q] = p, state[q] = "ZOMBIE"
                 PROVE  ~(state[p] = "SLEEPING" /\ chan[p] = p)
      BY DEF NoZombieOverlooked
    <3>1. \A e \in Procs : k[e].pc # "wakeup" BY SoleWaiter DEF WaitPC
    <3> QED BY <3>1 DEF Zombies, Sleeper
  <2>2. NoOrphans BY DEF NoOrphans, Tree, Dead
  <2> QED BY <2>1, <2>2 DEF ZombiesCollected
<1>3. Inv /\ Tree /\ Zombies /\ [Next]_vars => Tree' /\ Zombies' BY FamilyNext
<1> QED BY <1>1, <1>2, <1>3, InvAlways, PTL DEF Spec
-----------------------------------------------------------------------------
(***************************************************************************)
(* Traps and context switches.  The invariant says, of each place a hart   *)
(* can be at, what its control registers, its stack and the process it     *)
(* runs hold there; what a process that waits has in p->context and        *)
(* p->trapframe; and that a stack has a frame of kernelvec exactly while   *)
(* its thread is nested in an interrupt.                                   *)
(***************************************************************************)

(* The kinds of record of the model.                                        *)
Ats == {"user", "uservec", "usertrap", "usertrapret", "usertrapret_off", "userret",
        "kernelvec", "kerneltrap_end", "timer", "timer_spin", "timer_held",
        "device", "device_spin", "device_held", "syscall", "syscall_spin", "syscall_held",
        "syscall_done", "yield", "sched", "forkret", "scheduler", "swtched", "pick"}
PlaceRec == [at : Ats, then : Ats \cup {"none"}, n : {0, 1}]
RegsRec == [a0 : {0, 1}, rest : Threads \cup {Nobody}]
HartRec ==
    [pc : PlaceRec, mode : {"U", "S"}, SIE : BOOLEAN, SPIE : BOOLEAN, SPP : {"U", "S"},
     sepc : PlaceRec, scause : {"none", "ecall", "timer", "device"},
     stvec : {"kernelvec", "uservec"}, satp : Threads \cup {Nobody}, regs : RegsRec,
     sp : Harts \cup Threads, tp : Harts \cup {Nobody}, noff : Int, intena : BOOLEAN,
     proc : Threads \cup {Nobody}, sip : BOOLEAN]
ContextRec == [pc : PlaceRec, regs : RegsRec]
TrapframeRec == [regs : RegsRec, epc : PlaceRec, hartid : Harts \cup {Nobody}]
ProcRec == [state : {"RUNNABLE", "RUNNING"}, lock : Harts \cup {Nobody}, intena : BOOLEAN,
            context : ContextRec, tf : TrapframeRec]
FrameRec == [regs : RegsRec, sepc : PlaceRec, SPP : {"U", "S"}, SPIE : BOOLEAN]
UserRec == [regs : RegsRec, pc : {UserPc(0), UserPc(1)}]

TrapType == /\ hart \in [Harts -> HartRec]
            /\ proc \in [Threads -> ProcRec]
            /\ stack = [s \in Harts \cup Threads |-> stack[s]]
            /\ \A s \in Harts \cup Threads :
                  stack[s] # <<>> => stack[s] = <<stack[s][1]>> /\ stack[s][1] \in FrameRec
            /\ lock \in Harts \cup {Nobody}
            /\ irq \in {"idle", "pending", "claimed"}
            /\ user \in [Threads -> UserRec]
            /\ panic \in BOOLEAN

(* Places of the kernel.                                                    *)
UserSide == {"user", "uservec"}                       \* p's registers are the hart's
FromUser == UserSide \cup {"usertrap", "userret"}     \* stvec is uservec
HeldPcs == {"timer_held", "device_held", "syscall_held"}
Handler == {"timer", "timer_spin", "timer_held", "device", "device_spin", "device_held"}
Switching == {"swtched", "sched", "forkret"}          \* holds p->lock
InScheduler == {"scheduler", "pick"}
Open == {"user", "scheduler", "pick", "syscall", "syscall_done", "usertrapret", "yield"}
SysCall == {"syscall", "syscall_spin", "syscall_held", "syscall_done"}
\* The frame of an interrupt in the kernel is on the stack.
Nested(pc) == \/ pc.at = "kerneltrap_end"
              \/ pc.at \in Handler \cup {"yield", "sched"} /\ pc.then = "kerneltrap_end"
\* A system call has its registers, or will have them after it has given up the CPU.
Calls(pc) == pc.at \in SysCall \/ (pc.at \in {"yield", "sched"} /\ pc.then = "syscall_done")

PlaceOK(pc, s) ==
    /\ pc.at \in Handler => pc.then \in {"usertrapret", "kerneltrap_end"}
    /\ pc.at \in {"yield", "sched"} =>
           pc.then \in {"usertrapret", "kerneltrap_end", "syscall_done"}
    /\ pc.at = "forkret" => pc.then = "usertrapret"
    /\ s \in Harts => /\ pc.at \in InScheduler \cup {"swtched", "kernelvec", "kerneltrap_end"} \cup Handler
                      /\ pc.at \in Handler => pc.then = "kerneltrap_end"
    /\ s \in Threads => pc.at \notin InScheduler \cup {"swtched"}

\* Where an interrupt was taken in the kernel.
Interruptible(s, pc, regs) ==
    /\ s \in Harts => pc.at \in InScheduler
    /\ s \in Threads => pc.at \in {"syscall", "syscall_done", "usertrapret", "yield"}
    /\ PlaceOK(pc, s) /\ ~Nested(pc)
    /\ Calls(pc) => regs = Kernel

\* Hart h with registers r, when the device's lock is owned by l.
HartOK(h, r, l) ==
    LET at == r.pc.at
    IN  /\ PlaceOK(r.pc, r.sp)
        /\ r.mode = (IF at = "user" THEN "U" ELSE "S")
        /\ r.satp = (IF at \in UserSide THEN r.proc ELSE Nobody)
        /\ r.tp = (IF at \in UserSide THEN Nobody ELSE h)
        /\ r.stvec = (IF at \in FromUser THEN "uservec" ELSE "kernelvec")
        /\ r.noff = (IF at \in Spinning \cup HeldPcs \cup Switching THEN 1 ELSE 0)
        /\ r.SIE => at \in Open /\ ~Nested(r.pc)
        /\ Nested(r.pc) /\ at \in Spinning \cup HeldPcs => ~r.intena
        /\ l = h <=> at \in HeldPcs
        /\ r.sp = (IF r.proc = Nobody \/ at = "swtched" THEN h ELSE r.proc)
        /\ at = "swtched" => r.proc # Nobody
        /\ at \in {"uservec", "usertrap"} => r.SPP = "U" /\ r.scause # "none"
        /\ at = "userret" => r.SPP = "U" /\ r.SPIE
        /\ at = "kernelvec" => /\ r.SPP = "S" /\ r.SPIE /\ r.scause \in {"timer", "device"}
                               /\ Interruptible(r.sp, r.sepc, r.regs)
        /\ Calls(r.pc) => r.regs = Kernel

\* Hart h with registers r runs a process with the struct proc q, and u is what
\* the program must find.
Flip(pc) == UserPc(1 - pc.n)
RunsOK(h, r, q, u) ==
    LET at == r.pc.at
    IN  /\ q.state = (IF at = "swtched" THEN "RUNNABLE" ELSE "RUNNING")
        /\ q.lock = (IF at \in Switching THEN h ELSE Nobody)
        /\ at = "sched" => r.pc = q.context.pc
        /\ at \in UserSide \cup {"userret"} => q.tf.hartid = h
        /\ at \in UserSide => r.regs = u.regs
        /\ at = "user" => r.pc = u.pc
        /\ at = "userret" => r.sepc = u.pc
        /\ at \in {"uservec", "usertrap"} =>
               r.sepc = (IF r.scause = "ecall" THEN Flip(u.pc) ELSE u.pc)
        /\ at \notin UserSide => q.tf.regs = u.regs
        /\ at \notin UserSide \cup {"usertrap"} => q.tf.epc = u.pc

\* The thread of p that waits, or waited last, in p->context.
ContextOK(p, q) ==
    LET pc == q.context.pc
    IN  /\ pc.at \in {"sched", "forkret"} /\ PlaceOK(pc, p)
        /\ Calls(pc) => q.context.regs = Kernel
        /\ Nested(pc) => ~q.intena

FrameOK(s, frames) ==
    frames # <<>> => /\ frames[1].SPP = "S" /\ frames[1].SPIE
                     /\ Interruptible(s, frames[1].sepc, frames[1].regs)

\* Two harts run two processes.
Apart == \A g, h \in Harts : g # h /\ hart[g].proc # Nobody => hart[g].proc # hart[h].proc
Runs == \A h \in Harts : LET p == hart[h].proc
                         IN  p # Nobody => RunsOK(h, hart[h], proc[p], user[p])
Waits == \A p \in Threads : (\A h \in Harts : hart[h].proc # p) =>
                                proc[p].tf.regs = user[p].regs /\ proc[p].tf.epc = user[p].pc
Locked == \A p \in Threads : proc[p].lock # Nobody => hart[proc[p].lock].proc = p
Frames == \A s \in Harts \cup Threads : FrameOK(s, stack[s])
Nesting == /\ \A h \in Harts : stack[hart[h].sp] # <<>> <=> Nested(hart[h].pc)
           /\ \A h \in Harts : hart[h].sp # h => stack[h] = <<>>
           /\ \A p \in Threads : (\A h \in Harts : hart[h].sp # p) =>
                  (stack[p] # <<>> <=> Nested(proc[p].context.pc))

TrapInv == /\ TrapType
           /\ \A h \in Harts : HartOK(h, hart[h], lock)
           /\ \A p \in Threads : ContextOK(p, proc[p])
           /\ Apart /\ Runs /\ Waits /\ Locked /\ Frames /\ Nesting
           /\ ~panic

-----------------------------------------------------------------------------
(* What the helpers do to the registers.                                    *)

\* Jump() changes where the kernel is and nothing else.
LEMMA JumpFacts ==
    ASSUME NEW r \in HartRec, NEW a \in Ats
    PROVE  /\ Jump(r, a) = [r EXCEPT !.pc = [at |-> a, then |-> r.pc.then, n |-> r.pc.n]]
           /\ Jump(r, a) \in HartRec
<1>1. PICK c \in PlaceRec : c = r.pc
  BY DEF HartRec
<1>2. [c EXCEPT !.at = a] = [at |-> a, then |-> c.then, n |-> c.n]
      /\ [c EXCEPT !.at = a] \in PlaceRec
  BY DEF PlaceRec
<1>3. Jump(r, a) = [r EXCEPT !.pc = [c EXCEPT !.at = a]]
  BY <1>1 DEF Jump
<1> QED  BY <1>1, <1>2, <1>3 DEF HartRec

\* push_off(): interrupts are off, and the first call keeps what they were.
LEMMA PushFacts ==
    ASSUME NEW r \in HartRec
    PROVE  /\ push_off(r) \in HartRec
           /\ push_off(r).SIE = FALSE /\ push_off(r).noff = r.noff + 1
           /\ r.noff = 0 => push_off(r).intena = r.SIE
           /\ \E i \in BOOLEAN : push_off(r) = [r EXCEPT !.SIE = FALSE, !.noff = r.noff + 1, !.intena = i]
<1>1. PICK i \in BOOLEAN : i = (IF r.noff = 0 THEN r.SIE ELSE r.intena)
  BY DEF HartRec
<1>2. push_off(r) = [r EXCEPT !.SIE = FALSE, !.noff = r.noff + 1, !.intena = i]
  BY <1>1, Zenon DEF push_off
<1>3. r.noff + 1 \in Int
  BY DEF HartRec
<1>4. [r EXCEPT !.SIE = FALSE, !.noff = r.noff + 1, !.intena = i] \in HartRec
  BY <1>3 DEF HartRec
<1>5. /\ [r EXCEPT !.SIE = FALSE, !.noff = r.noff + 1, !.intena = i].SIE = FALSE
      /\ [r EXCEPT !.SIE = FALSE, !.noff = r.noff + 1, !.intena = i].noff = r.noff + 1
      /\ [r EXCEPT !.SIE = FALSE, !.noff = r.noff + 1, !.intena = i].intena = i
  BY DEF HartRec
<1> QED  BY <1>1, <1>2, <1>4, <1>5

\* pop_off(): the last call puts interrupts back.
LEMMA PopFacts ==
    ASSUME NEW r \in HartRec, r.noff = 1, ~r.SIE
    PROVE  pop_off(r) = [r EXCEPT !.noff = 0, !.SIE = r.intena] /\ pop_off(r) \in HartRec
<1>0. r.noff - 1 = 0
  OBVIOUS
<1>a. [r EXCEPT !.noff = 0] \in HartRec
  BY DEF HartRec
<1>1. PICK c \in HartRec : c = [r EXCEPT !.noff = r.noff - 1]
  BY <1>0, <1>a, Zenon
<1>2. c = [r EXCEPT !.noff = 0] /\ c.noff = 0 /\ c.intena = r.intena /\ c.SIE = FALSE
  BY <1>0, <1>1 DEF HartRec
<1>3. pop_off(r) = IF c.noff = 0 /\ c.intena THEN [c EXCEPT !.SIE = TRUE] ELSE c
  BY <1>1, Zenon DEF pop_off
<1>4. CASE r.intena
  <2>1. pop_off(r) = [c EXCEPT !.SIE = r.intena]
    BY <1>2, <1>3, <1>4 DEF HartRec
  <2>2. [c EXCEPT !.SIE = r.intena] = [r EXCEPT !.noff = 0, !.SIE = r.intena]
    BY <1>2
  <2>3. [c EXCEPT !.SIE = r.intena] \in HartRec
    BY DEF HartRec
  <2> QED  BY <2>1, <2>2, <2>3
<1>5. CASE ~r.intena
  <2>1. pop_off(r) = c
    BY <1>2, <1>3, <1>5
  <2>2. c = [r EXCEPT !.noff = 0, !.SIE = r.intena]
    BY <1>2, <1>5 DEF HartRec
  <2> QED  BY <2>1, <2>2
<1> QED  BY <1>4, <1>5

\* A trap is taken: the hardware keeps where and how the hart was.
LEMMA EnterFacts ==
    ASSUME NEW r \in HartRec, NEW c \in {"ecall", "timer", "device"}
    PROVE  /\ Enter(r, c) = [r EXCEPT !.sepc = r.pc, !.SPP = r.mode, !.SPIE = r.SIE, !.SIE = FALSE,
                             !.mode = "S", !.scause = c,
                             !.pc = [at |-> r.stvec, then |-> "none", n |-> 0]]
           /\ Enter(r, c) \in HartRec
<1>1. PICK pc1 \in PlaceRec : pc1 = [at |-> r.stvec, then |-> "none", n |-> 0]
  BY DEF HartRec, PlaceRec, Ats
<1>2. Enter(r, c) = [r EXCEPT !.sepc = r.pc, !.SPP = r.mode, !.SPIE = r.SIE, !.SIE = FALSE,
                              !.mode = "S", !.scause = c, !.pc = pc1]
  BY <1>1 DEF Enter, Place
<1>3. /\ r.pc \in PlaceRec /\ r.mode \in {"U", "S"} /\ r.SIE \in BOOLEAN
      /\ c \in {"none", "ecall", "timer", "device"}
  BY DEF HartRec
<1>4. Enter(r, c) \in HartRec
  BY <1>2, <1>3 DEF HartRec
<1> QED  BY <1>1, <1>2, <1>4

LEMMA SretFacts ==
    ASSUME NEW r \in HartRec
    PROVE  /\ Sret(r) = [r EXCEPT !.pc = r.sepc, !.mode = r.SPP, !.SIE = r.SPIE]
           /\ Sret(r) \in HartRec
BY DEF Sret, HartRec

-----------------------------------------------------------------------------
(* A step of hart h that concerns the process it runs, and no other, and    *)
(* stays on the stack it is on.                                             *)

Local(h, p, s, R) ==
    /\ p = hart[h].proc /\ s = hart[h].sp /\ R.proc = p /\ R.sp = s
    /\ hart' = [hart EXCEPT ![h] = R]
    /\ lock' \in Harts \cup {Nobody} /\ \A g \in Harts : g # h => (lock' = g <=> lock = g)
    /\ irq' \in {"idle", "pending", "claimed"} /\ panic' = FALSE
    /\ HartOK(h, R, lock')
    /\ proc' \in [Threads -> ProcRec] /\ \A q \in Threads : q # p => proc'[q] = proc[q]
    /\ user' \in [Threads -> UserRec] /\ \A q \in Threads : q # p => user'[q] = user[q]
    /\ p # Nobody => /\ RunsOK(h, R, proc'[p], user'[p]) /\ ContextOK(p, proc'[p])
                     /\ proc'[p].lock \in {Nobody, h} /\ (s # p => proc'[p] = proc[p])
    /\ stack' = [t \in Harts \cup Threads |-> stack'[t]]
    /\ \A t \in Harts \cup Threads : t # s => stack'[t] = stack[t]
    /\ stack'[s] # <<>> => stack'[s] = <<stack'[s][1]>> /\ stack'[s][1] \in FrameRec
    /\ FrameOK(s, stack'[s])
    /\ stack'[s] # <<>> <=> Nested(R.pc)

LEMMA LocalStep ==
    ASSUME TrapAssumption, TrapInv, NEW h \in Harts, NEW p, NEW s, NEW R \in HartRec, Local(h, p, s, R)
    PROVE  TrapInv'
<1> USE DEF Local
<1>1. /\ hart \in [Harts -> HartRec] /\ proc \in [Threads -> ProcRec]
      /\ p \in Threads \cup {Nobody} /\ s \in Harts \cup Threads
  BY DEF TrapInv, TrapType, HartRec
<1>2. hart' \in [Harts -> HartRec] /\ hart'[h] = R /\ \A g \in Harts : g # h => hart'[g] = hart[g]
  BY <1>1
<1>3. TrapType'
  BY <1>1, <1>2 DEF TrapInv, TrapType
<1>4. \A g \in Harts : HartOK(g, hart'[g], lock')
  <2>1. SUFFICES ASSUME NEW g \in Harts, g # h PROVE HartOK(g, hart[g], lock')
    BY <1>2
  <2>2. HartOK(g, hart[g], lock)
    BY DEF TrapInv
  <2>3. lock' = g <=> lock = g
    BY <2>1
  <2> QED  BY <2>2, <2>3 DEF HartOK
<1>0. p \in Threads => p # Nobody
  BY DEF TrapAssumption
<1>5. \A q \in Threads : ContextOK(q, proc'[q])
  <2>1. ASSUME NEW q \in Threads, q # p PROVE ContextOK(q, proc'[q])
    BY <2>1 DEF TrapInv
  <2> QED  BY <1>0, <2>1
<1>6. \A g \in Harts : hart'[g].proc = hart[g].proc /\ hart'[g].sp = hart[g].sp
  BY <1>2
<1>7. Apart'
  BY <1>6 DEF TrapInv, Apart
<1>8. \A g \in Harts : g # h /\ hart[g].proc # Nobody =>
          hart[g].proc \in Threads /\ hart[g].proc # p
  BY <1>1 DEF TrapInv, Apart, HartRec
<1>9. \A g \in Harts : LET q == hart'[g].proc
                       IN  q # Nobody => RunsOK(g, hart'[g], proc'[q], user'[q])
  <2>1. SUFFICES ASSUME NEW g \in Harts, g # h, NEW q, q = hart[g].proc, q # Nobody
                 PROVE  RunsOK(g, hart[g], proc'[q], user'[q])
    BY <1>2
  <2>2. RunsOK(g, hart[g], proc[q], user[q])
    BY <2>1 DEF TrapInv, Runs
  <2>3. proc'[q] = proc[q] /\ user'[q] = user[q]
    BY <1>8, <2>1
  <2> QED  BY <2>2, <2>3
<1>10. Runs'
  BY <1>9 DEF Runs
<1>11. Waits'
  <2>1. SUFFICES ASSUME NEW q \in Threads, \A g \in Harts : hart'[g].proc # q
                 PROVE  proc'[q].tf.regs = user'[q].regs /\ proc'[q].tf.epc = user'[q].pc
    BY DEF Waits
  <2>2. q # p /\ \A g \in Harts : hart[g].proc # q
    BY <1>6, <2>1
  <2> QED  BY <2>2 DEF TrapInv, Waits
<1>12. Locked'
  <2>1. SUFFICES ASSUME NEW q \in Threads, NEW l, l = proc'[q].lock, l # Nobody
                 PROVE  hart'[l].proc = q
    BY DEF Locked
  <2>2. CASE q = p
    BY <1>0, <1>1, <1>2, <2>1, <2>2
  <2>3. CASE q # p
    <3>1. proc[q].lock = l /\ l \in Harts
      BY <1>1, <2>1, <2>3 DEF ProcRec
    <3> QED  BY <1>6, <2>1, <3>1 DEF TrapInv, Locked
  <2> QED  BY <2>2, <2>3
<1>13. Frames'
  BY <1>1 DEF TrapInv, Frames
<1>14. Nesting'
  <2>1. \A g \in Harts : hart'[g].sp # g => stack'[g] = <<>>
    <3>1. SUFFICES ASSUME NEW g \in Harts, hart'[g].sp # g, g = s PROVE FALSE
      BY <1>6 DEF TrapInv, Nesting
    <3>2. HartOK(h, R, lock')
      OBVIOUS
    <3>3. s \in {h, p}
      BY <3>2 DEF HartOK
    <3>4. s \notin Threads \cup {Nobody}
      BY <3>1 DEF TrapAssumption
    <3> QED  BY <1>1, <1>6, <3>1, <3>3, <3>4
  <2>2. \A g \in Harts : g # h => hart[g].sp # s
    <3>1. SUFFICES ASSUME NEW g \in Harts, g # h, hart[g].sp = s PROVE FALSE
      OBVIOUS
    <3>2. HartOK(g, hart[g], lock) /\ HartOK(h, hart[h], lock)
      BY DEF TrapInv
    <3>3. hart[g] \in HartRec /\ hart[h] \in HartRec
      BY <1>1
    <3>4. /\ hart[g].sp \in {g, hart[g].proc} /\ hart[h].sp \in {h, hart[h].proc}
          /\ hart[g].proc \in Threads \cup {Nobody} /\ hart[h].proc \in Threads \cup {Nobody}
          /\ hart[g].sp # Nobody /\ hart[h].sp # Nobody
      BY <3>2, <3>3 DEF HartOK, HartRec, TrapAssumption
    <3> QED  BY <1>8, <3>1, <3>4 DEF TrapAssumption
  <2>3. \A g \in Harts : stack'[hart'[g].sp] # <<>> <=> Nested(hart'[g].pc)
    <3>1. SUFFICES ASSUME NEW g \in Harts, g # h
                   PROVE  stack'[hart[g].sp] # <<>> <=> Nested(hart[g].pc)
      BY <1>2
    <3>2. hart[g].sp \in Harts \cup Threads
      BY <1>1 DEF HartRec
    <3>3. stack'[hart[g].sp] = stack[hart[g].sp]
      BY <2>2, <3>1, <3>2
    <3> QED  BY <3>3 DEF TrapInv, Nesting
  <2>4. \A q \in Threads : (\A g \in Harts : hart'[g].sp # q) =>
            (stack'[q] # <<>> <=> Nested(proc'[q].context.pc))
    <3>1. SUFFICES ASSUME NEW q \in Threads, \A g \in Harts : hart'[g].sp # q
                   PROVE  stack'[q] # <<>> <=> Nested(proc'[q].context.pc)
      OBVIOUS
    <3>2. q # s /\ \A g \in Harts : hart[g].sp # q
      BY <1>6, <3>1
    <3>3. CASE q # p
      BY <3>2, <3>3 DEF TrapInv, Nesting
    <3>4. CASE q = p
      \* p is on its way out and h on the stack of its scheduler.
      <4>1. proc'[q].context.pc = proc[q].context.pc
        BY <1>0, <3>2, <3>4
      <4> QED  BY <3>2, <4>1 DEF TrapInv, Nesting
    <3> QED  BY <3>3, <3>4
  <2> QED  BY <2>1, <2>3, <2>4 DEF Nesting
<1> QED  BY <1>2, <1>3, <1>4, <1>5, <1>7, <1>10, <1>11, <1>12, <1>13, <1>14 DEF TrapInv

\* What is known of hart h, with names for its registers, its process and its stack.
Facts(h, r, p, s) ==
    /\ r = hart[h] /\ p = r.proc /\ s = r.sp
    /\ HartOK(h, r, lock) /\ s \in {h, p}
    /\ p # Nobody => /\ p \in Threads /\ RunsOK(h, r, proc[p], user[p])
                     /\ ContextOK(p, proc[p]) /\ proc[p] \in ProcRec /\ user[p] \in UserRec
    /\ stack[s] # <<>> <=> Nested(r.pc)
    /\ stack[s] # <<>> => stack[s] = <<stack[s][1]>> /\ stack[s][1] \in FrameRec
    /\ FrameOK(s, stack[s])

LEMMA HartFacts ==
    ASSUME TrapAssumption, TrapInv, NEW h \in Harts
    PROVE  \E r \in HartRec, p \in Threads \cup {Nobody}, s \in Harts \cup Threads : Facts(h, r, p, s)
<1>1. PICK r \in HartRec : r = hart[h]
  BY DEF TrapInv, TrapType
<1>2. PICK p \in Threads \cup {Nobody} : p = r.proc
  BY DEF HartRec
<1>3. PICK s \in Harts \cup Threads : s = r.sp
  BY DEF HartRec
<1>4. HartOK(h, r, lock)
  BY <1>1 DEF TrapInv
<1>5. s \in {h, p}
  BY <1>2, <1>3, <1>4 DEF HartOK
<1>6. p # Nobody => /\ p \in Threads /\ RunsOK(h, r, proc[p], user[p])
                    /\ ContextOK(p, proc[p]) /\ proc[p] \in ProcRec /\ user[p] \in UserRec
  BY <1>1, <1>2 DEF TrapInv, TrapType, Runs
<1>7. /\ stack[s] # <<>> <=> Nested(r.pc)
      /\ stack[s] # <<>> => stack[s] = <<stack[s][1]>> /\ stack[s][1] \in FrameRec
      /\ FrameOK(s, stack[s])
  BY <1>1, <1>3 DEF TrapInv, TrapType, Nesting, Frames
<1> QED  BY <1>1, <1>2, <1>3, <1>4, <1>5, <1>6, <1>7 DEF Facts

\* A step of hart h that changes its registers only.
LEMMA QuietStep ==
    ASSUME TrapAssumption, TrapInv,
           NEW h \in Harts, NEW p, p = hart[h].proc, NEW s, s = hart[h].sp, NEW R \in HartRec,
           hart' = [hart EXCEPT ![h] = R], R.proc = p, R.sp = s,
           UNCHANGED <<proc, stack, lock, user, panic>>, irq' \in {"idle", "pending", "claimed"},
           HartOK(h, R, lock),
           p # Nobody => RunsOK(h, R, proc[p], user[p]),
           Nested(R.pc) <=> Nested(hart[h].pc)
    PROVE  TrapInv'
<1>1. /\ lock' \in Harts \cup {Nobody} /\ \A g \in Harts : g # h => (lock' = g <=> lock = g)
      /\ panic' = FALSE /\ HartOK(h, R, lock')
  BY DEF TrapInv, TrapType
<1>2. /\ proc' \in [Threads -> ProcRec] /\ \A q \in Threads : q # p => proc'[q] = proc[q]
      /\ user' \in [Threads -> UserRec] /\ \A q \in Threads : q # p => user'[q] = user[q]
      /\ stack' = [t \in Harts \cup Threads |-> stack'[t]]
      /\ \A t \in Harts \cup Threads : t # s => stack'[t] = stack[t]
  BY DEF TrapInv, TrapType
<1>3. hart[h] \in HartRec
  BY DEF TrapInv, TrapType
<1>4. s \in Harts \cup Threads /\ (p # Nobody => p \in Threads)
  BY <1>3 DEF HartRec
<1>5. /\ stack'[s] # <<>> => stack'[s] = <<stack'[s][1]>> /\ stack'[s][1] \in FrameRec
      /\ FrameOK(s, stack'[s])
      /\ stack'[s] # <<>> <=> Nested(R.pc)
  BY <1>4 DEF TrapInv, TrapType, Frames, Nesting
<1>6. proc[p].lock \in {Nobody, h} \/ p = Nobody
  BY DEF RunsOK
<1>7. p # Nobody => /\ RunsOK(h, R, proc'[p], user'[p]) /\ ContextOK(p, proc'[p])
                    /\ proc'[p].lock \in {Nobody, h} /\ (s # p => proc'[p] = proc[p])
  BY <1>4, <1>6 DEF TrapInv
<1>8. Local(h, p, s, R)
  BY <1>1, <1>2, <1>5, <1>7 DEF Local
<1> QED  BY <1>8, LocalStep

LEMMA UsertrapretStep ==
    ASSUME TrapAssumption, TrapInv, NEW h \in Harts, usertrapret(h)
    PROVE  TrapInv'
<1>1. PICK r \in HartRec, p \in Threads \cup {Nobody}, s \in Harts \cup Threads : Facts(h, r, p, s)
  BY HartFacts
<1>2. PICK i \in HartRec : i = intr_off(r)
  BY DEF intr_off, HartRec
<1>3. PICK R \in HartRec : R = Jump(i, "usertrapret_off")
  BY JumpFacts DEF Ats
<1>4. /\ r.pc.at = "usertrapret" /\ hart' = [hart EXCEPT ![h] = R]
      /\ UNCHANGED <<proc, stack, lock, irq, user, panic>>
  BY <1>1, <1>2, <1>3 DEF usertrapret, PcAt, Set, Facts
<1>5. /\ i = [r EXCEPT !.SIE = FALSE]
      /\ R = [i EXCEPT !.pc = [at |-> "usertrapret_off", then |-> i.pc.then, n |-> i.pc.n]]
  BY <1>2, <1>3, JumpFacts DEF intr_off, Ats
<1>6. R.proc = p /\ R.sp = s /\ HartOK(h, R, lock)
  BY <1>1, <1>4, <1>5 DEF Facts, HartOK, PlaceOK, Nested, Calls, HartRec, PlaceRec, UserSide,
       FromUser, Handler, Switching, InScheduler, Open, SysCall, HeldPcs, Spinning
<1>7. p # Nobody => RunsOK(h, R, proc[p], user[p])
  BY <1>1, <1>4, <1>5 DEF Facts, RunsOK, HartRec, PlaceRec, UserSide, Switching
<1>8. Nested(R.pc) <=> Nested(r.pc)
  BY <1>4, <1>5 DEF Nested, HartRec, PlaceRec, Handler
<1> QED  BY <1>1, <1>4, <1>6, <1>7, <1>8, QuietStep DEF Facts, TrapInv, TrapType

\* An interrupt goes to uservec from a program and to kernelvec from the kernel.
LEMMA InterruptStep ==
    ASSUME TrapAssumption, TrapInv, NEW h \in Harts, Interrupt(h)
    PROVE  TrapInv'
<1>1. PICK r \in HartRec, p \in Threads \cup {Nobody}, s \in Harts \cup Threads : Facts(h, r, p, s)
  BY HartFacts
<1>2. PICK c \in {"timer", "device"} : hart' = [hart EXCEPT ![h] = Enter(r, c)]
  BY <1>1 DEF Interrupt, Set, Facts
<1>3. PICK R \in HartRec : R = Enter(r, c)
  BY EnterFacts
<1>4. /\ r.mode = "U" \/ r.SIE
      /\ hart' = [hart EXCEPT ![h] = R]
      /\ UNCHANGED <<proc, stack, lock, irq, user, panic>>
  BY <1>1, <1>2, <1>3 DEF Interrupt, Facts
<1>5. R = [r EXCEPT !.sepc = r.pc, !.SPP = r.mode, !.SPIE = r.SIE, !.SIE = FALSE,
                    !.mode = "S", !.scause = c, !.pc = [at |-> r.stvec, then |-> "none", n |-> 0]]
  BY <1>3, EnterFacts
<1>6. /\ R.sepc = r.pc /\ R.SPP = r.mode /\ R.SPIE = r.SIE /\ R.SIE = FALSE /\ R.mode = "S"
      /\ R.scause = c /\ R.pc.at = r.stvec /\ R.pc.then = "none"
      /\ R.proc = p /\ R.sp = s /\ R.satp = r.satp /\ R.regs = r.regs /\ R.tp = r.tp
      /\ R.stvec = r.stvec /\ R.noff = r.noff /\ R.intena = r.intena
  BY <1>1, <1>5 DEF HartRec, Facts
<1>7. HartOK(h, r, lock) /\ p = r.proc /\ s = r.sp /\ r = hart[h]
  BY <1>1 DEF Facts
<1>8. CASE r.pc.at = "user"
  <2>1. R.pc.at = "uservec" /\ r.mode = "U"
    BY <1>6, <1>7, <1>8 DEF HartOK, FromUser, UserSide
  <2>2. HartOK(h, R, lock)
    BY <1>6, <1>7, <1>8, <2>1 DEF HartOK, PlaceOK, Nested, Calls, UserSide, FromUser, Handler,
         Switching, InScheduler, Open, SysCall, HeldPcs, Spinning
  <2>3. p # Nobody => RunsOK(h, R, proc[p], user[p])
    BY <1>1, <1>6, <1>8, <2>1 DEF Facts, RunsOK, UserSide, Switching
  <2>4. Nested(R.pc) <=> Nested(hart[h].pc)
    BY <1>7, <1>8, <2>1 DEF Nested, Handler
  <2> QED  BY <1>4, <1>6, <1>7, <2>2, <2>3, <2>4, QuietStep DEF TrapInv, TrapType
<1>9. CASE r.pc.at # "user"
  <2>1. r.SIE /\ r.mode = "S" /\ r.pc.at \in Open \ {"user"} /\ ~Nested(r.pc)
    BY <1>4, <1>7, <1>9 DEF HartOK
  <2>2. R.pc.at = "kernelvec" /\ r.noff = 0 /\ r.stvec = "kernelvec"
    BY <1>6, <1>7, <2>1 DEF HartOK, FromUser, UserSide, Open, HeldPcs, Spinning, Switching
  <2>3. Interruptible(s, r.pc, r.regs)
    <3>1. PlaceOK(r.pc, s) /\ (Calls(r.pc) => r.regs = Kernel)
      BY <1>7 DEF HartOK
    <3>2. s \in Harts => r.pc.at \in InScheduler
      BY <2>1, <3>1 DEF PlaceOK, Open, InScheduler, Handler
    <3>3. s \in Threads => r.pc.at \in {"syscall", "syscall_done", "usertrapret", "yield"}
      BY <2>1, <3>1 DEF PlaceOK, Open, InScheduler
    <3> QED  BY <2>1, <3>1, <3>2, <3>3 DEF Interruptible
  <2>4. HartOK(h, R, lock)
    BY <1>6, <1>7, <2>1, <2>2, <2>3 DEF HartOK, PlaceOK, Nested, Calls, UserSide, FromUser, Handler,
         Switching, InScheduler, Open, SysCall, HeldPcs, Spinning
  <2>5. p # Nobody => RunsOK(h, R, proc[p], user[p])
    BY <1>1, <1>6, <2>1, <2>2 DEF Facts, RunsOK, UserSide, Switching, Open
  <2>6. Nested(R.pc) <=> Nested(hart[h].pc)
    BY <1>7, <2>1, <2>2 DEF Nested, Handler
  <2> QED  BY <1>4, <1>6, <1>7, <2>4, <2>5, <2>6, QuietStep DEF TrapInv, TrapType
<1> QED  BY <1>8, <1>9

LEMMA TimervecStep ==
    ASSUME TrapAssumption, TrapInv, NEW h \in Harts, timervec(h)
    PROVE  TrapInv'
<1>1. PICK r \in HartRec, p \in Threads \cup {Nobody}, s \in Harts \cup Threads : Facts(h, r, p, s)
  BY HartFacts
<1>2. PICK R \in HartRec : R = [r EXCEPT !.sip = TRUE]
  BY DEF HartRec
<1>3. hart' = [hart EXCEPT ![h] = R] /\ UNCHANGED <<proc, stack, lock, irq, user, panic>>
  BY <1>1, <1>2 DEF timervec, Set, Facts
<1>4. R.proc = p /\ R.sp = s /\ HartOK(h, R, lock)
  BY <1>1, <1>2 DEF Facts, HartOK, HartRec
<1>5. p # Nobody => RunsOK(h, R, proc[p], user[p])
  BY <1>1, <1>2 DEF Facts, RunsOK, HartRec
<1>6. Nested(R.pc) <=> Nested(r.pc)
  BY <1>2 DEF HartRec
<1> QED  BY <1>1, <1>3, <1>4, <1>5, <1>6, QuietStep DEF Facts, TrapInv, TrapType

\* userret: the program goes on with the registers of its trapframe.
LEMMA UserretStep ==
    ASSUME TrapAssumption, TrapInv, NEW h \in Harts, userret(h)
    PROVE  TrapInv'
<1>1. PICK r \in HartRec, p \in Threads \cup {Nobody}, s \in Harts \cup Threads : Facts(h, r, p, s)
  BY HartFacts
<1>2. /\ r.pc.at = "userret" /\ r.tp = h /\ myproc(h) = p
      /\ UNCHANGED <<proc, stack, lock, irq, user, panic>>
  BY <1>1 DEF userret, PcAt, Facts, HartOK, UserSide, myproc, mycpu
<1>3. p # Nobody /\ p \in Threads /\ s = p
  BY <1>1, <1>2 DEF Facts, HartOK, PlaceOK, InScheduler, Handler, TrapAssumption
<1>4. PICK g \in RegsRec : g = proc[p].tf.regs
  BY <1>1, <1>3 DEF Facts, ProcRec, TrapframeRec
<1>5. PICK i \in HartRec : i = [r EXCEPT !.satp = p, !.regs = g, !.tp = Nobody]
  BY DEF HartRec
<1>6. PICK R \in HartRec : R = Sret(i)
  BY SretFacts
<1>7. hart' = [hart EXCEPT ![h] = R]
  BY <1>1, <1>2, <1>4, <1>5, <1>6 DEF userret, Set, Facts
<1>8. R = [i EXCEPT !.pc = i.sepc, !.mode = i.SPP, !.SIE = i.SPIE]
  BY <1>6, SretFacts
<1>9. /\ R.pc = r.sepc /\ R.mode = r.SPP /\ R.SIE = r.SPIE /\ R.satp = p /\ R.regs = g /\ R.tp = Nobody
      /\ R.sp = s /\ R.proc = p /\ R.stvec = r.stvec /\ R.noff = r.noff /\ R.intena = r.intena
  BY <1>1, <1>5, <1>8 DEF HartRec, Facts
<1>10. r.sepc = user[p].pc /\ r.SPP = "U" /\ r.SPIE = TRUE
  BY <1>1, <1>2, <1>3 DEF Facts, RunsOK, HartOK
<1>11. R.pc.at = "user"
  BY <1>1, <1>3, <1>9, <1>10 DEF Facts, UserRec, UserPc
<1>12. HartOK(h, r, lock) /\ r.stvec = "uservec"
  BY <1>1, <1>2 DEF Facts, HartOK, FromUser
<1>13. HartOK(h, R, lock)
  BY <1>2, <1>3, <1>9, <1>10, <1>11, <1>12 DEF HartOK, PlaceOK, Nested, Calls, UserSide, FromUser, Handler,
         Switching, InScheduler, Open, SysCall, HeldPcs, Spinning, TrapAssumption
<1>14. p # Nobody => RunsOK(h, R, proc[p], user[p])
  BY <1>1, <1>2, <1>4, <1>9, <1>10, <1>11 DEF Facts, RunsOK, UserSide, Switching
<1>15. Nested(R.pc) <=> Nested(r.pc)
  BY <1>2, <1>11 DEF Nested, Handler
<1> QED  BY <1>1, <1>2, <1>7, <1>9, <1>13, <1>14, <1>15, QuietStep DEF Facts, TrapInv, TrapType

\* acquire() first turns interrupts off.
LEMMA AcquireStep ==
    ASSUME TrapAssumption, TrapInv, NEW h \in Harts, acquire(h) \/ plic_claim(h)
    PROVE  TrapInv'
<1>1. PICK r \in HartRec, p \in Threads \cup {Nobody}, s \in Harts \cup Threads : Facts(h, r, p, s)
  BY HartFacts
<1>2. /\ UNCHANGED <<proc, stack, lock, user, panic>> /\ irq' \in {"idle", "pending", "claimed"}
      /\ r.pc.at \in {"timer", "syscall", "device"}
  BY <1>1 DEF acquire, plic_claim, Acquires, PcAt, Facts, TrapInv, TrapType
<1>3. r.noff = 0
  BY <1>1, <1>2 DEF Facts, HartOK, HeldPcs, Switching, Spinning
<1>4. PICK i \in HartRec : i = push_off(r)
  BY PushFacts
<1>5. /\ i.SIE = FALSE /\ i.noff = 1 /\ i.intena = r.SIE /\ i.pc = r.pc /\ i.mode = r.mode
      /\ i.satp = r.satp /\ i.tp = r.tp /\ i.stvec = r.stvec /\ i.sp = s /\ i.proc = p /\ i.regs = r.regs
      /\ i.SPP = r.SPP /\ i.SPIE = r.SPIE /\ i.scause = r.scause /\ i.sepc = r.sepc
  <2>1. PICK b \in BOOLEAN : i = [r EXCEPT !.SIE = FALSE, !.noff = r.noff + 1, !.intena = b]
    BY <1>4, PushFacts
  <2>2. /\ i.pc = r.pc /\ i.mode = r.mode /\ i.satp = r.satp /\ i.tp = r.tp /\ i.stvec = r.stvec
        /\ i.sp = s /\ i.proc = p /\ i.regs = r.regs
        /\ i.SPP = r.SPP /\ i.SPIE = r.SPIE /\ i.scause = r.scause /\ i.sepc = r.sepc
    BY <1>1, <2>1 DEF HartRec, Facts
  <2>3. i.SIE = FALSE /\ i.noff = r.noff + 1 /\ (r.noff = 0 => i.intena = r.SIE)
    BY ONLY <1>4, PushFacts, r \in HartRec
  <2>4. i.SIE = FALSE /\ i.noff = 1 /\ i.intena = r.SIE
    BY ONLY <1>3, <2>3
  <2> QED  BY <2>2, <2>4
<1>6. CASE ~(plic_claim(h) /\ irq # "pending")
  <2>1. PICK a \in {"timer_spin", "syscall_spin", "device_spin"} :
            /\ hart' = [hart EXCEPT ![h] = Jump(i, a)]
            /\ a = "timer_spin" <=> r.pc.at = "timer"
            /\ a = "syscall_spin" <=> r.pc.at = "syscall"
            /\ a = "device_spin" <=> r.pc.at = "device"
    <3>1. CASE r.pc.at = "device"
      BY <1>1, <1>4, <1>6, <3>1 DEF acquire, plic_claim, Acquires, PcAt, Set, Facts
    <3>2. CASE r.pc.at = "timer"
      BY <1>1, <1>4, <3>2 DEF acquire, plic_claim, Spin, PcAt, Set, Facts
    <3>3. CASE r.pc.at = "syscall"
      BY <1>1, <1>4, <3>3 DEF acquire, plic_claim, Spin, PcAt, Set, Facts
    <3> QED  BY <1>2, <3>1, <3>2, <3>3
  <2>2. PICK R \in HartRec : R = Jump(i, a)
    BY JumpFacts DEF Ats
  <2>3. R = [i EXCEPT !.pc = [at |-> a, then |-> i.pc.then, n |-> i.pc.n]]
    BY <2>2, JumpFacts DEF Ats
  <2>4. HartOK(h, r, lock) /\ p = r.proc /\ s = r.sp /\ (Calls(r.pc) => r.regs = Kernel)
    BY <1>1 DEF Facts, HartOK
  <2>5. r.SIE => ~Nested(r.pc)
    BY <2>4 DEF HartOK
  <2>6. R.proc = p /\ R.sp = s /\ HartOK(h, R, lock)
    BY <1>2, <1>5, <2>1, <2>3, <2>4, <2>5 DEF HartOK, PlaceOK, Nested, Calls, HartRec, PlaceRec, UserSide,
       FromUser, Handler, Switching, InScheduler, Open, SysCall, HeldPcs, Spinning
  <2>7. p # Nobody => RunsOK(h, R, proc[p], user[p])
    BY <1>1, <1>2, <1>5, <2>1, <2>3 DEF Facts, RunsOK, HartRec, PlaceRec, UserSide, Switching
  <2>8. Nested(R.pc) <=> Nested(r.pc)
    BY <1>2, <1>5, <2>1, <2>3 DEF Nested, HartRec, PlaceRec, Handler
  <2> QED  BY <1>1, <1>2, <2>1, <2>2, <2>6, <2>7, <2>8, QuietStep DEF Facts
<1>7. CASE plic_claim(h) /\ irq # "pending"
  <2>1. r.pc.at = "device" /\ hart' = [hart EXCEPT ![h] = Jump(r, r.pc.then)]
    BY <1>1, <1>7 DEF plic_claim, PcAt, Set, Facts
  <2>2. r.pc.then \in {"usertrapret", "kerneltrap_end"}
    BY <1>1, <2>1 DEF Facts, HartOK, PlaceOK, Handler
  <2>3. PICK R \in HartRec : R = Jump(r, r.pc.then)
    BY <2>2, JumpFacts DEF Ats
  <2>4. R = [r EXCEPT !.pc = [at |-> r.pc.then, then |-> r.pc.then, n |-> r.pc.n]]
    BY <2>2, <2>3, JumpFacts DEF Ats
  <2>5. R.proc = p /\ R.sp = s /\ HartOK(h, R, lock)
    BY <1>1, <2>1, <2>2, <2>4 DEF Facts, HartOK, PlaceOK, Nested, Calls, HartRec, PlaceRec, UserSide,
       FromUser, Handler, Switching, InScheduler, Open, SysCall, HeldPcs, Spinning
  <2>6. p # Nobody => RunsOK(h, R, proc[p], user[p])
    BY <1>1, <2>1, <2>2, <2>4 DEF Facts, RunsOK, HartRec, PlaceRec, UserSide, Switching
  <2>7. Nested(R.pc) <=> Nested(r.pc)
    BY <2>1, <2>2, <2>4 DEF Nested, HartRec, PlaceRec, Handler
  <2> QED  BY <1>1, <1>2, <2>1, <2>3, <2>5, <2>6, <2>7, QuietStep DEF Facts
<1> QED  BY <1>6, <1>7

LEMMA SysSleepStep ==
    ASSUME TrapAssumption, TrapInv, NEW h \in Harts, SysSleep(h)
    PROVE  TrapInv'
<1>1. PICK r \in HartRec, p \in Threads \cup {Nobody}, s \in Harts \cup Threads : Facts(h, r, p, s)
  BY HartFacts
<1>2. PICK pc1 \in PlaceRec : pc1 = Place("yield", "syscall_done")
  BY DEF Place, PlaceRec, Ats
<1>3. PICK R \in HartRec : R = [r EXCEPT !.pc = pc1]
  BY DEF HartRec
<1>4. /\ r.pc.at = "syscall_done" /\ hart' = [hart EXCEPT ![h] = R]
      /\ UNCHANGED <<proc, stack, lock, irq, user, panic>>
  BY <1>1, <1>2, <1>3 DEF SysSleep, PcAt, Set, Facts
<1>5. pc1.at = "yield" /\ pc1.then = "syscall_done"
  BY <1>2 DEF Place
<1>6. R.proc = p /\ R.sp = s /\ HartOK(h, R, lock)
  BY <1>1, <1>3, <1>4, <1>5 DEF Facts, HartOK, PlaceOK, Nested, Calls, HartRec, UserSide,
       FromUser, Handler, Switching, InScheduler, Open, SysCall, HeldPcs, Spinning
<1>7. p # Nobody => RunsOK(h, R, proc[p], user[p])
  BY <1>1, <1>3, <1>4, <1>5 DEF Facts, RunsOK, HartRec, UserSide, Switching
<1>8. Nested(R.pc) <=> Nested(r.pc)
  BY <1>3, <1>4, <1>5 DEF Nested, HartRec, Handler
<1> QED  BY <1>1, <1>4, <1>6, <1>7, <1>8, QuietStep DEF Facts, TrapInv, TrapType

LEMMA SchedulerStep ==
    ASSUME TrapAssumption, TrapInv, NEW h \in Harts, scheduler(h)
    PROVE  TrapInv'
<1>1. PICK r \in HartRec, p \in Threads \cup {Nobody}, s \in Harts \cup Threads : Facts(h, r, p, s)
  BY HartFacts
<1>2. PICK i \in HartRec : i = [r EXCEPT !.SIE = TRUE]
  BY DEF HartRec
<1>3. PICK R \in HartRec : R = Jump(i, "pick")
  BY JumpFacts DEF Ats
<1>4. /\ r.pc.at = "scheduler" /\ hart' = [hart EXCEPT ![h] = R]
      /\ UNCHANGED <<proc, stack, lock, irq, user, panic>>
  BY <1>1, <1>2, <1>3 DEF scheduler, PcAt, Set, Facts
<1>5. R = [i EXCEPT !.pc = [at |-> "pick", then |-> i.pc.then, n |-> i.pc.n]]
  BY <1>3, JumpFacts DEF Ats
<1>6. R.proc = p /\ R.sp = s /\ HartOK(h, R, lock)
  BY <1>1, <1>2, <1>4, <1>5 DEF Facts, HartOK, PlaceOK, Nested, Calls, HartRec, PlaceRec, UserSide,
       FromUser, Handler, Switching, InScheduler, Open, SysCall, HeldPcs, Spinning
<1>7. p # Nobody => RunsOK(h, R, proc[p], user[p])
  BY <1>1, <1>2, <1>4, <1>5 DEF Facts, RunsOK, HartRec, PlaceRec, UserSide, Switching
<1>8. Nested(R.pc) <=> Nested(r.pc)
  BY <1>2, <1>4, <1>5 DEF Nested, HartRec, PlaceRec, Handler
<1> QED  BY <1>1, <1>4, <1>6, <1>7, <1>8, QuietStep DEF Facts, TrapInv, TrapType

\* A step of hart h that changes its registers and the process it runs.
OfProcess(h, p, R, Q, U) ==
    /\ p = hart[h].proc /\ p = hart[h].sp /\ R.proc = p /\ R.sp = p
    /\ hart' = [hart EXCEPT ![h] = R]
    /\ UNCHANGED <<stack, lock, irq>> /\ panic' = FALSE
    /\ proc' = [proc EXCEPT ![p] = Q] /\ user' = [user EXCEPT ![p] = U]
    /\ HartOK(h, R, lock) /\ RunsOK(h, R, Q, U) /\ ContextOK(p, Q)
    /\ Nested(R.pc) <=> Nested(hart[h].pc)

LEMMA ProcessStep ==
    ASSUME TrapAssumption, TrapInv, NEW h \in Harts, NEW p \in Threads, NEW R \in HartRec,
           NEW Q \in ProcRec, NEW U \in UserRec, OfProcess(h, p, R, Q, U)
    PROVE  TrapInv'
<1> USE DEF OfProcess
<1>1. /\ lock' \in Harts \cup {Nobody} /\ \A g \in Harts : g # h => (lock' = g <=> lock = g)
      /\ irq' \in {"idle", "pending", "claimed"} /\ HartOK(h, R, lock')
  BY DEF TrapInv, TrapType
<1>2. /\ proc' \in [Threads -> ProcRec] /\ \A q \in Threads : q # p => proc'[q] = proc[q]
      /\ user' \in [Threads -> UserRec] /\ \A q \in Threads : q # p => user'[q] = user[q]
      /\ proc'[p] = Q /\ user'[p] = U
  BY DEF TrapInv, TrapType
<1>0. PICK s : s = p
  OBVIOUS
<1>3. /\ stack' = [t \in Harts \cup Threads |-> stack'[t]]
      /\ \A t \in Harts \cup Threads : t # s => stack'[t] = stack[t]
  BY DEF TrapInv, TrapType
<1>4. /\ stack'[s] # <<>> => stack'[s] = <<stack'[s][1]>> /\ stack'[s][1] \in FrameRec
      /\ FrameOK(s, stack'[s])
      /\ stack'[s] # <<>> <=> Nested(R.pc)
  BY <1>0 DEF TrapInv, TrapType, Frames, Nesting
<1>5. Q.lock \in {Nobody, h}
  BY DEF RunsOK
<1>6. p # Nobody => /\ RunsOK(h, R, proc'[p], user'[p]) /\ ContextOK(p, proc'[p])
                    /\ proc'[p].lock \in {Nobody, h} /\ (s # p => proc'[p] = proc[p])
  BY <1>0, <1>2, <1>5
<1>7. p = hart[h].proc /\ s = hart[h].sp /\ R.sp = s
  BY <1>0
<1>8. Local(h, p, s, R)
  BY <1>1, <1>2, <1>3, <1>4, <1>6, <1>7 DEF Local
<1> QED  BY <1>8, LocalStep

\* A program traps into the kernel: uservec() will find its registers.
LEMMA EcallStep ==
    ASSUME TrapAssumption, TrapInv, NEW h \in Harts, Ecall(h)
    PROVE  TrapInv'
<1>1. PICK r \in HartRec, p \in Threads \cup {Nobody}, s \in Harts \cup Threads : Facts(h, r, p, s)
  BY HartFacts
<1>2. r.pc.at = "user" /\ UNCHANGED <<proc, stack, lock, irq, panic>>
  BY <1>1 DEF Ecall, PcAt, Facts
<1>3. p # Nobody /\ p \in Threads /\ s = p
  BY <1>1, <1>2 DEF Facts, HartOK, PlaceOK, InScheduler, Handler, TrapAssumption
<1>4. PICK R \in HartRec : R = Enter(r, "ecall")
  BY EnterFacts
<1>5. R = [r EXCEPT !.sepc = r.pc, !.SPP = r.mode, !.SPIE = r.SIE, !.SIE = FALSE,
                    !.mode = "S", !.scause = "ecall", !.pc = [at |-> r.stvec, then |-> "none", n |-> 0]]
  BY <1>4, EnterFacts
<1>6. /\ R.sepc = r.pc /\ R.SPP = r.mode /\ R.SPIE = r.SIE /\ R.SIE = FALSE /\ R.mode = "S"
      /\ R.scause = "ecall" /\ R.pc.at = r.stvec /\ R.pc.then = "none"
      /\ R.proc = p /\ R.sp = s /\ R.satp = r.satp /\ R.regs = r.regs /\ R.tp = r.tp
      /\ R.stvec = r.stvec /\ R.noff = r.noff /\ R.intena = r.intena
  BY <1>1, <1>5 DEF HartRec, Facts
<1>7. PICK u \in UserRec : u = user[p]
  BY <1>1, <1>3 DEF Facts
<1>8. PICK n \in {0, 1} : n = r.pc.n
  BY DEF HartRec, PlaceRec
<1>9. r.pc = u.pc /\ u.pc = UserPc(n) /\ u.regs = r.regs
  <2>1. r.pc = u.pc /\ u.regs = r.regs
    BY <1>1, <1>2, <1>3, <1>7 DEF Facts, RunsOK, UserSide
  <2>2. u.pc = UserPc(0) \/ u.pc = UserPc(1)
    BY DEF UserRec
  <2> QED  BY <1>8, <2>1, <2>2 DEF UserPc
<1>10. PICK pc1 \in {UserPc(0), UserPc(1)} : pc1 = UserPc(1 - n)
  BY <1>8
<1>11. PICK U \in UserRec : U = [u EXCEPT !.pc = pc1]
  BY DEF UserRec
<1>12. user' = [user EXCEPT ![p] = U]
  <2>1. r = hart[h] /\ p = r.proc
    BY <1>1 DEF Facts
  <2>2. user' = [user EXCEPT ![p] = [user[p] EXCEPT !.pc = UserPc(1 - r.pc.n)]]
    BY <2>1, Zenon DEF Ecall
  <2> QED  BY <1>7, <1>8, <1>10, <1>11, <2>2
<1>13. U.pc = pc1 /\ U.regs = u.regs
  BY <1>11 DEF UserRec
<1>14. Flip(pc1) = UserPc(n)
  BY <1>8, <1>10 DEF Flip, UserPc
<1>15. HartOK(h, r, lock) /\ r.stvec = "uservec" /\ r.mode = "U" /\ p = r.proc /\ s = r.sp
  BY <1>1, <1>2 DEF Facts, HartOK, FromUser, UserSide
<1>16. HartOK(h, R, lock)
  BY <1>2, <1>3, <1>6, <1>15 DEF HartOK, PlaceOK, Nested, Calls, UserSide, FromUser, Handler,
       Switching, InScheduler, Open, SysCall, HeldPcs, Spinning
<1>17. RunsOK(h, R, proc[p], U)
  BY <1>1, <1>2, <1>3, <1>6, <1>9, <1>13, <1>14, <1>15 DEF Facts, RunsOK, UserSide, Switching
<1>18. Nested(R.pc) <=> Nested(r.pc)
  BY <1>2, <1>6, <1>15 DEF Nested, Handler
<1>19. PICK Q \in ProcRec : Q = proc[p]
  BY <1>1, <1>3 DEF Facts
<1>20. proc' = [proc EXCEPT ![p] = Q] /\ ContextOK(p, Q) /\ panic' = FALSE
  BY <1>1, <1>2, <1>3, <1>19 DEF Facts, TrapInv, TrapType
<1>21. hart' = [hart EXCEPT ![h] = R] /\ r = hart[h] /\ p = hart[h].proc /\ p = hart[h].sp
  BY <1>1, <1>3, <1>4 DEF Ecall, Set, Facts
<1>22. OfProcess(h, p, R, Q, U)
  BY <1>2, <1>3, <1>6, <1>12, <1>16, <1>17, <1>18, <1>19, <1>20, <1>21 DEF OfProcess
<1> QED  BY <1>3, <1>22, ProcessStep

\* uservec(): the registers of the program go into its trapframe.
LEMMA UservecStep ==
    ASSUME TrapAssumption, TrapInv, NEW h \in Harts, uservec(h)
    PROVE  TrapInv'
<1>1. PICK r \in HartRec, p \in Threads \cup {Nobody}, s \in Harts \cup Threads : Facts(h, r, p, s)
  BY HartFacts
<1>2. /\ r.pc.at = "uservec" /\ r.satp = p /\ p # Nobody /\ p \in Threads
      /\ UNCHANGED <<stack, lock, irq, user, panic>>
  BY <1>1 DEF uservec, PcAt, Facts, HartOK, UserSide
<1>3. s = p /\ r = hart[h] /\ HartOK(h, r, lock) /\ p = r.proc /\ s = r.sp
  BY <1>1, <1>2 DEF Facts, HartOK
<1>4. PICK q \in ProcRec : q = proc[p]
  BY <1>1, <1>2 DEF Facts
<1>5. PICK t \in TrapframeRec : t = q.tf
  BY DEF ProcRec
<1>6. RunsOK(h, r, q, user[p]) /\ ContextOK(p, q)
  BY <1>1, <1>2, <1>4 DEF Facts
<1>7. t.hartid = h
  BY <1>2, <1>5, <1>6 DEF RunsOK, UserSide
<1>8. PICK g \in RegsRec : g = r.regs
  BY DEF HartRec
<1>9. PICK T \in TrapframeRec : T = [t EXCEPT !.regs = g]
  BY DEF TrapframeRec
<1>10. PICK Q \in ProcRec : Q = [q EXCEPT !.tf = T]
  BY DEF ProcRec
<1>11. proc' = [proc EXCEPT ![p] = Q]
  <2>1. proc' = [proc EXCEPT ![p] = [proc[p] EXCEPT !.tf = [proc[p].tf EXCEPT !.regs = r.regs]]]
    BY <1>2, <1>3, Zenon DEF uservec
  <2> QED  BY <1>4, <1>5, <1>8, <1>9, <1>10, <2>1
<1>12. Junk \in RegsRec
  BY DEF Junk, RegsRec
<1>13. PICK i \in HartRec : i = [r EXCEPT !.sp = p, !.tp = h, !.satp = Nobody, !.regs = Junk]
  BY <1>2, <1>12 DEF HartRec
<1>14. PICK R \in HartRec : R = Jump(i, "usertrap")
  BY JumpFacts DEF Ats
<1>15. hart' = [hart EXCEPT ![h] = R]
  BY <1>2, <1>3, <1>4, <1>5, <1>7, <1>13, <1>14 DEF uservec, Set
<1>16. R = [i EXCEPT !.pc = [at |-> "usertrap", then |-> i.pc.then, n |-> i.pc.n]]
  BY <1>14, JumpFacts DEF Ats
<1>17. /\ R.pc.at = "usertrap" /\ R.pc.then = r.pc.then /\ R.mode = r.mode /\ R.SIE = r.SIE
       /\ R.SPP = r.SPP /\ R.sepc = r.sepc /\ R.scause = r.scause /\ R.stvec = r.stvec
       /\ R.satp = Nobody /\ R.regs = Junk /\ R.sp = p /\ R.tp = h /\ R.noff = r.noff
       /\ R.intena = r.intena /\ R.proc = p
  BY <1>3, <1>13, <1>16 DEF HartRec, PlaceRec
<1>18. HartOK(h, R, lock)
  BY <1>2, <1>3, <1>17 DEF HartOK, PlaceOK, Nested, Calls, UserSide, FromUser, Handler,
       Switching, InScheduler, Open, SysCall, HeldPcs, Spinning, TrapAssumption
<1>19. PICK U \in UserRec : U = user[p]
  BY <1>1, <1>2 DEF Facts
<1>20. Q.tf = T /\ Q.state = q.state /\ Q.lock = q.lock /\ Q.context = q.context /\ Q.intena = q.intena
       /\ T.regs = g /\ T.epc = t.epc /\ T.hartid = t.hartid
  BY <1>9, <1>10 DEF ProcRec, TrapframeRec
<1>21. RunsOK(h, R, Q, U)
  BY <1>2, <1>6, <1>8, <1>17, <1>19, <1>20 DEF RunsOK, UserSide, Switching
<1>22. ContextOK(p, Q)
  BY <1>6, <1>20 DEF ContextOK
<1>23. Nested(R.pc) <=> Nested(r.pc)
  BY <1>2, <1>17 DEF Nested, Handler
<1>24. user' = [user EXCEPT ![p] = U] /\ panic' = FALSE
  BY <1>2, <1>19 DEF TrapInv, TrapType
<1>25. OfProcess(h, p, R, Q, U)
  BY <1>2, <1>3, <1>11, <1>15, <1>17, <1>18, <1>21, <1>22, <1>23, <1>24 DEF OfProcess
<1> QED  BY <1>2, <1>25, ProcessStep

\* usertrap(): the pc of the program goes into its trapframe.
LEMMA UsertrapStep ==
    ASSUME TrapAssumption, TrapInv, NEW h \in Harts, usertrap(h)
    PROVE  TrapInv'
<1>1. PICK r \in HartRec, p \in Threads \cup {Nobody}, s \in Harts \cup Threads : Facts(h, r, p, s)
  BY HartFacts
<1>2. /\ r.pc.at = "usertrap" /\ r.tp = h /\ r.SPP = "U" /\ r.scause # "none" /\ myproc(h) = p
      /\ UNCHANGED <<stack, lock, irq, user>> /\ panic' = FALSE
  BY <1>1 DEF usertrap, PcAt, Facts, HartOK, UserSide, myproc, mycpu, TrapInv
<1>3. p # Nobody /\ p \in Threads /\ s = p
  BY <1>1, <1>2 DEF Facts, HartOK, PlaceOK, InScheduler, Handler, TrapAssumption
<1>4. r = hart[h] /\ HartOK(h, r, lock) /\ p = r.proc /\ s = r.sp
  BY <1>1, <1>2 DEF Facts
<1>5. PICK q \in ProcRec : q = proc[p]
  BY <1>1, <1>3 DEF Facts
<1>6. PICK t \in TrapframeRec : t = q.tf
  BY DEF ProcRec
<1>7. PICK U \in UserRec : U = user[p]
  BY <1>1, <1>3 DEF Facts
<1>8. RunsOK(h, r, q, U) /\ ContextOK(p, q)
  BY <1>1, <1>3, <1>5, <1>7 DEF Facts
<1>9. r.scause \in {"ecall", "timer", "device"}
  BY <1>2 DEF HartRec
<1>10. PICK e \in PlaceRec : e = U.pc
  BY DEF UserRec, UserPc, PlaceRec, Ats
<1>11. PICK T \in TrapframeRec : T = [t EXCEPT !.epc = e]
  BY DEF TrapframeRec
<1>12. PICK Q \in ProcRec : Q = [q EXCEPT !.tf = T]
  BY DEF ProcRec
<1>13. (IF r.scause = "ecall" THEN [r.sepc EXCEPT !.n = 1 - r.sepc.n] ELSE r.sepc) = e
  <2>1. r.sepc = (IF r.scause = "ecall" THEN Flip(e) ELSE e)
    BY <1>2, <1>8, <1>10 DEF RunsOK
  <2>2. e = UserPc(0) \/ e = UserPc(1)
    BY <1>10 DEF UserRec
  <2>3. [Flip(e) EXCEPT !.n = 1 - Flip(e).n] = e
    BY <2>2 DEF Flip, UserPc
  <2> QED  BY <2>1, <2>3
<1>14. proc' = [proc EXCEPT ![p] = Q]
  <2>1. proc' = [proc EXCEPT ![p] = [proc[p] EXCEPT !.tf = [proc[p].tf EXCEPT !.epc =
                    IF r.scause = "ecall" THEN [r.sepc EXCEPT !.n = 1 - r.sepc.n] ELSE r.sepc]]]
    BY <1>2, <1>4, Zenon DEF usertrap
  <2> QED  BY <1>5, <1>6, <1>11, <1>12, <1>13, <2>1
<1>15. PICK c \in {"ecall", "timer", "device"} : c = r.scause
  BY <1>9
<1>16. Kernel \in RegsRec
  BY DEF Kernel, RegsRec
<1>17. PICK g \in RegsRec : g = (IF c = "ecall" THEN Kernel ELSE r.regs)
  BY <1>16 DEF HartRec
<1>18. PICK pc1 \in PlaceRec : pc1 = (IF c = "ecall" THEN Place("syscall", "none") ELSE Place(c, "usertrapret"))
  BY DEF PlaceRec, Place, Ats
<1>19. PICK b \in BOOLEAN : b = (c = "ecall")
  OBVIOUS
<1>20. PICK R \in HartRec : R = [r EXCEPT !.stvec = "kernelvec", !.SIE = b, !.regs = g, !.pc = pc1]
  BY DEF HartRec
<1>21. hart' = [hart EXCEPT ![h] = R]
  <2>1. hart' = [hart EXCEPT ![h] =
                   [r EXCEPT !.stvec = "kernelvec", !.SIE = (r.scause = "ecall"),
                             !.regs = IF r.scause = "ecall" THEN Kernel ELSE r.regs,
                             !.pc = IF r.scause = "ecall" THEN Place("syscall", "none")
                                    ELSE Place(r.scause, "usertrapret")]]
    BY <1>4, Zenon DEF usertrap, Set
  <2> QED  BY ONLY <1>15, <1>17, <1>18, <1>19, <1>20, <2>1
<1>22. /\ R.pc = pc1 /\ R.mode = r.mode /\ R.SIE = b /\ R.SPP = r.SPP /\ R.sepc = r.sepc
       /\ R.scause = r.scause /\ R.stvec = "kernelvec" /\ R.satp = r.satp /\ R.regs = g /\ R.sp = p
       /\ R.tp = h /\ R.noff = r.noff /\ R.intena = r.intena /\ R.proc = p
  BY <1>2, <1>3, <1>4, <1>20 DEF HartRec
<1>23. /\ c = "ecall" => pc1.at = "syscall" /\ pc1.then = "none" /\ g = Kernel /\ b
       /\ c # "ecall" => pc1.at \in {"timer", "device"} /\ pc1.then = "usertrapret" /\ ~b
  BY <1>15, <1>17, <1>18, <1>19 DEF Place
<1>24. HartOK(h, R, lock)
  BY <1>2, <1>3, <1>4, <1>22, <1>23 DEF HartOK, PlaceOK, Nested, Calls, UserSide, FromUser, Handler,
       Switching, InScheduler, Open, SysCall, HeldPcs, Spinning, TrapAssumption
<1>25. /\ Q.tf = T /\ Q.state = q.state /\ Q.lock = q.lock /\ Q.context = q.context
       /\ Q.intena = q.intena /\ T.regs = t.regs /\ T.epc = e /\ T.hartid = t.hartid
  BY <1>11, <1>12 DEF ProcRec, TrapframeRec
<1>26. RunsOK(h, R, Q, U)
  BY <1>2, <1>6, <1>8, <1>10, <1>22, <1>23, <1>25 DEF RunsOK, UserSide, Switching
<1>27. ContextOK(p, Q)
  BY <1>8, <1>25 DEF ContextOK
<1>28. Nested(R.pc) <=> Nested(r.pc)
  BY <1>2, <1>22, <1>23 DEF Nested, Handler
<1>29. user' = [user EXCEPT ![p] = U]
  BY <1>2, <1>7 DEF TrapInv, TrapType
<1>30. OfProcess(h, p, R, Q, U)
  BY <1>2, <1>3, <1>4, <1>14, <1>21, <1>22, <1>24, <1>26, <1>27, <1>28, <1>29 DEF OfProcess
<1> QED  BY <1>3, <1>30, ProcessStep

\* usertrapret(), with interrupts off: what uservec() and userret() need.
LEMMA UsertrapretOffStep ==
    ASSUME TrapAssumption, TrapInv, NEW h \in Harts, usertrapret_off(h)
    PROVE  TrapInv'
<1>1. PICK r \in HartRec, p \in Threads \cup {Nobody}, s \in Harts \cup Threads : Facts(h, r, p, s)
  BY HartFacts
<1>2. /\ r.pc.at = "usertrapret_off" /\ r.tp = h /\ myproc(h) = p
      /\ UNCHANGED <<stack, lock, irq, user, panic>> /\ panic' = FALSE
  BY <1>1 DEF usertrapret_off, PcAt, Facts, HartOK, UserSide, myproc, mycpu, TrapInv
<1>3. p # Nobody /\ p \in Threads /\ s = p
  BY <1>1, <1>2 DEF Facts, HartOK, PlaceOK, InScheduler, Handler, TrapAssumption
<1>4. r = hart[h] /\ HartOK(h, r, lock) /\ p = r.proc /\ s = r.sp
  BY <1>1, <1>2 DEF Facts
<1>5. PICK q \in ProcRec : q = proc[p]
  BY <1>1, <1>3 DEF Facts
<1>6. PICK t \in TrapframeRec : t = q.tf
  BY DEF ProcRec
<1>7. PICK U \in UserRec : U = user[p]
  BY <1>1, <1>3 DEF Facts
<1>8. RunsOK(h, r, q, U) /\ ContextOK(p, q)
  BY <1>1, <1>3, <1>5, <1>7 DEF Facts
<1>9. PICK T \in TrapframeRec : T = [t EXCEPT !.hartid = h]
  BY DEF TrapframeRec
<1>10. PICK Q \in ProcRec : Q = [q EXCEPT !.tf = T]
  BY DEF ProcRec
<1>11. proc' = [proc EXCEPT ![p] = Q]
  <2>1. proc' = [proc EXCEPT ![p] = [proc[p] EXCEPT !.tf = [proc[p].tf EXCEPT !.hartid = h]]]
    BY <1>2, <1>4, Zenon DEF usertrapret_off
  <2> QED  BY <1>5, <1>6, <1>9, <1>10, <2>1
<1>12. PICK pc1 \in PlaceRec : pc1 = Place("userret", "none")
  BY DEF Place, PlaceRec, Ats
<1>13. PICK e \in PlaceRec : e = t.epc
  BY DEF TrapframeRec
<1>14. PICK R \in HartRec : R = [r EXCEPT !.stvec = "uservec", !.SPP = "U", !.SPIE = TRUE,
                                          !.sepc = e, !.pc = pc1]
  BY DEF HartRec
<1>15. hart' = [hart EXCEPT ![h] = R]
  BY <1>2, <1>4, <1>5, <1>6, <1>12, <1>13, <1>14 DEF usertrapret_off, Set
<1>16. /\ R.pc = pc1 /\ R.mode = r.mode /\ R.SIE = r.SIE /\ R.SPP = "U" /\ R.sepc = e /\ R.SPIE = TRUE
       /\ R.scause = r.scause /\ R.stvec = "uservec" /\ R.satp = r.satp /\ R.regs = r.regs /\ R.sp = p
       /\ R.tp = h /\ R.noff = r.noff /\ R.intena = r.intena /\ R.proc = p
  BY <1>2, <1>3, <1>4, <1>14 DEF HartRec
<1>17. pc1.at = "userret" /\ pc1.then = "none"
  BY <1>12 DEF Place
<1>18. HartOK(h, R, lock)
  BY <1>2, <1>3, <1>4, <1>16, <1>17 DEF HartOK, PlaceOK, Nested, Calls, UserSide, FromUser, Handler,
       Switching, InScheduler, Open, SysCall, HeldPcs, Spinning, TrapAssumption
<1>19. /\ Q.tf = T /\ Q.state = q.state /\ Q.lock = q.lock /\ Q.context = q.context
       /\ Q.intena = q.intena /\ T.regs = t.regs /\ T.epc = t.epc /\ T.hartid = h
  BY <1>9, <1>10 DEF ProcRec, TrapframeRec
<1>20. RunsOK(h, R, Q, U)
  BY <1>2, <1>6, <1>8, <1>13, <1>16, <1>17, <1>19 DEF RunsOK, UserSide, Switching
<1>21. ContextOK(p, Q)
  BY <1>8, <1>19 DEF ContextOK
<1>22. Nested(R.pc) <=> Nested(r.pc)
  BY <1>2, <1>16, <1>17 DEF Nested, Handler
<1>23. user' = [user EXCEPT ![p] = U]
  BY <1>2, <1>7 DEF TrapInv, TrapType
<1>24. OfProcess(h, p, R, Q, U)
  BY <1>2, <1>3, <1>4, <1>11, <1>15, <1>16, <1>18, <1>20, <1>21, <1>22, <1>23 DEF OfProcess
<1> QED  BY <1>3, <1>24, ProcessStep

\* syscall() returns: a0 of the trapframe is what the program must find.
LEMMA SysReturnStep ==
    ASSUME TrapAssumption, TrapInv, NEW h \in Harts, SysReturn(h)
    PROVE  TrapInv'
<1>1. PICK r \in HartRec, p \in Threads \cup {Nobody}, s \in Harts \cup Threads : Facts(h, r, p, s)
  BY HartFacts
<1>2. /\ r.pc.at = "syscall_done" /\ r.tp = h /\ myproc(h) = p
      /\ UNCHANGED <<stack, lock, irq, panic>> /\ panic' = FALSE
  BY <1>1 DEF SysReturn, PcAt, Facts, HartOK, UserSide, myproc, mycpu, TrapInv
<1>3. p # Nobody /\ p \in Threads /\ s = p
  BY <1>1, <1>2 DEF Facts, HartOK, PlaceOK, InScheduler, Handler, TrapAssumption
<1>4. r = hart[h] /\ HartOK(h, r, lock) /\ p = r.proc /\ s = r.sp
  BY <1>1, <1>2 DEF Facts
<1>5. PICK q \in ProcRec : q = proc[p]
  BY <1>1, <1>3 DEF Facts
<1>6. PICK t \in TrapframeRec : t = q.tf
  BY DEF ProcRec
<1>7. PICK u \in UserRec : u = user[p]
  BY <1>1, <1>3 DEF Facts
<1>8. RunsOK(h, r, q, u) /\ ContextOK(p, q)
  BY <1>1, <1>3, <1>5, <1>7 DEF Facts
<1>9. PICK g \in RegsRec : g = u.regs
  BY DEF UserRec
<1>10. PICK x \in {0, 1} : x = 1 - g.a0
  <2>1. g.a0 = 0 \/ g.a0 = 1
    BY DEF RegsRec
  <2> QED  BY <2>1
<1>11. PICK G \in RegsRec : G = [g EXCEPT !.a0 = x]
  BY DEF RegsRec
<1>12. t.regs = g
  BY <1>2, <1>6, <1>8, <1>9 DEF RunsOK, UserSide
<1>13. PICK T \in TrapframeRec : T = [t EXCEPT !.regs = G]
  BY DEF TrapframeRec
<1>14. PICK Q \in ProcRec : Q = [q EXCEPT !.tf = T]
  BY DEF ProcRec
<1>15. PICK U \in UserRec : U = [u EXCEPT !.regs = G]
  BY DEF UserRec
<1>16. proc' = [proc EXCEPT ![p] = Q]
  <2>1. proc' = [proc EXCEPT ![p] = [proc[p] EXCEPT !.tf = [proc[p].tf EXCEPT !.regs =
                    [proc[p].tf.regs EXCEPT !.a0 = 1 - proc[p].tf.regs.a0]]]]
    BY <1>2, <1>4, Zenon DEF SysReturn
  <2> QED  BY <1>5, <1>6, <1>10, <1>11, <1>12, <1>13, <1>14, <2>1
<1>17. user' = [user EXCEPT ![p] = U]
  <2>1. user' = [user EXCEPT ![p] = [user[p] EXCEPT !.regs =
                    [user[p].regs EXCEPT !.a0 = 1 - user[p].regs.a0]]]
    BY <1>2, <1>4, Zenon DEF SysReturn
  <2> QED  BY <1>7, <1>9, <1>10, <1>11, <1>15, <2>1
<1>18. PICK R \in HartRec : R = Jump(r, "usertrapret")
  BY JumpFacts DEF Ats
<1>19. hart' = [hart EXCEPT ![h] = R]
  BY <1>4, <1>18 DEF SysReturn, Set
<1>20. R = [r EXCEPT !.pc = [at |-> "usertrapret", then |-> r.pc.then, n |-> r.pc.n]]
  BY <1>18, JumpFacts DEF Ats
<1>21. /\ R.pc.at = "usertrapret" /\ R.pc.then = r.pc.then /\ R.mode = r.mode /\ R.SIE = r.SIE
       /\ R.SPP = r.SPP /\ R.sepc = r.sepc /\ R.SPIE = r.SPIE
       /\ R.scause = r.scause /\ R.stvec = r.stvec /\ R.satp = r.satp /\ R.regs = r.regs /\ R.sp = p
       /\ R.tp = h /\ R.noff = r.noff /\ R.intena = r.intena /\ R.proc = p
  BY <1>2, <1>3, <1>4, <1>20 DEF HartRec
<1>22. HartOK(h, R, lock)
  BY <1>2, <1>3, <1>4, <1>21 DEF HartOK, PlaceOK, Nested, Calls, UserSide, FromUser, Handler,
       Switching, InScheduler, Open, SysCall, HeldPcs, Spinning, TrapAssumption
<1>23. /\ Q.tf = T /\ Q.state = q.state /\ Q.lock = q.lock /\ Q.context = q.context
       /\ Q.intena = q.intena /\ T.regs = G /\ T.epc = t.epc /\ T.hartid = t.hartid
       /\ U.regs = G /\ U.pc = u.pc
  BY <1>13, <1>14, <1>15 DEF ProcRec, TrapframeRec, UserRec
<1>24. RunsOK(h, R, Q, U)
  BY <1>2, <1>6, <1>8, <1>21, <1>23 DEF RunsOK, UserSide, Switching
<1>25. ContextOK(p, Q)
  BY <1>8, <1>23 DEF ContextOK
<1>26. Nested(R.pc) <=> Nested(r.pc)
  BY <1>2, <1>21 DEF Nested, Handler
<1>27. OfProcess(h, p, R, Q, U)
  BY <1>2, <1>3, <1>4, <1>16, <1>17, <1>19, <1>21, <1>22, <1>24, <1>25, <1>26 DEF OfProcess
<1> QED  BY <1>3, <1>27, ProcessStep

\* sched() returns, or forkret(): p->lock is released with p's own intena.
LEMMA ResumeStep ==
    ASSUME TrapAssumption, TrapInv, NEW h \in Harts, resume(h)
    PROVE  TrapInv'
<1>1. PICK r \in HartRec, p \in Threads \cup {Nobody}, s \in Harts \cup Threads : Facts(h, r, p, s)
  BY HartFacts
<1>2. /\ r.pc.at \in {"sched", "forkret"} /\ r.tp = h /\ myproc(h) = p /\ r.noff = 1 /\ ~r.SIE
      /\ UNCHANGED <<stack, lock, irq, user>>
  BY <1>1 DEF resume, PcAt, Facts, HartOK, UserSide, Switching, Open, myproc, mycpu, TrapInv
<1>3. p # Nobody /\ p \in Threads /\ s = p
  BY <1>1, <1>2 DEF Facts, HartOK, PlaceOK, InScheduler, Handler, TrapAssumption
<1>4. r = hart[h] /\ HartOK(h, r, lock) /\ p = r.proc /\ s = r.sp
  BY <1>1, <1>2 DEF Facts
<1>5. PICK q \in ProcRec : q = proc[p]
  BY <1>1, <1>3 DEF Facts
<1>6. PICK U \in UserRec : U = user[p]
  BY <1>1, <1>3 DEF Facts
<1>7. RunsOK(h, r, q, U) /\ ContextOK(p, q)
  BY <1>1, <1>3, <1>5, <1>6 DEF Facts
<1>8. PICK Q \in ProcRec : Q = [q EXCEPT !.lock = Nobody]
  BY DEF ProcRec
<1>9. proc' = [proc EXCEPT ![p] = Q]
  <2>1. proc' = [proc EXCEPT ![p] = [proc[p] EXCEPT !.lock = Nobody]]
    BY <1>2, <1>4, Zenon DEF resume
  <2> QED  BY <1>5, <1>8, <2>1
<1>10. PICK c \in HartRec : c = IF r.pc.at = "sched" THEN RestoreIntena(r, p) ELSE r
  <2>1. proc[p].intena \in BOOLEAN
    BY <1>5 DEF ProcRec
  <2> QED  BY <2>1 DEF RestoreIntena, HartRec
<1>11. /\ c.pc = r.pc /\ c.mode = r.mode /\ c.SIE = r.SIE /\ c.SPP = r.SPP /\ c.sepc = r.sepc
       /\ c.SPIE = r.SPIE /\ c.scause = r.scause /\ c.stvec = r.stvec /\ c.satp = r.satp
       /\ c.regs = r.regs /\ c.sp = p /\ c.tp = h /\ c.noff = 1 /\ c.proc = p
       /\ r.pc.at = "sched" => (c.intena <=> q.intena)
  BY <1>2, <1>3, <1>4, <1>5, <1>10 DEF RestoreIntena, HartRec
<1>12. ~c.SIE /\ c.noff = 1
  BY <1>2, <1>11
<1>13. PICK o \in HartRec : o = pop_off(c)
  BY <1>12, PopFacts
<1>14. o = [c EXCEPT !.noff = 0, !.SIE = c.intena]
  BY <1>12, <1>13, PopFacts
<1>15. PICK a \in {"usertrapret", "kerneltrap_end", "syscall_done"} : a = r.pc.then
  BY <1>2, <1>4 DEF HartOK, PlaceOK
<1>16. PICK R \in HartRec : R = Jump(o, a)
  BY JumpFacts DEF Ats
<1>17. R = [o EXCEPT !.pc = [at |-> a, then |-> o.pc.then, n |-> o.pc.n]]
  BY <1>16, JumpFacts DEF Ats
<1>18. hart' = [hart EXCEPT ![h] = R] /\ panic' = FALSE
  <2>1. /\ hart' = [hart EXCEPT ![h] = Jump(pop_off(c), c.pc.then)]
        /\ panic' = (panic \/ BadPop(c))
    BY <1>2, <1>4, <1>10 DEF resume, Set, PcAt
  <2>2. ~BadPop(c)
    BY <1>12 DEF BadPop
  <2> QED  BY <1>11, <1>13, <1>15, <1>16, <2>1, <2>2 DEF TrapInv
<1>19. /\ R.pc.at = a /\ R.mode = r.mode /\ (R.SIE => c.intena) /\ R.SPP = r.SPP /\ R.sepc = r.sepc
       /\ R.SPIE = r.SPIE /\ R.scause = r.scause /\ R.stvec = r.stvec /\ R.satp = r.satp
       /\ R.regs = r.regs /\ R.sp = p /\ R.tp = h /\ R.noff = 0 /\ R.intena = c.intena /\ R.proc = p
       /\ R.pc.then = a
  BY <1>2, <1>3, <1>4, <1>11, <1>14, <1>15, <1>17 DEF HartRec, PlaceRec
<1>20. a = "kerneltrap_end" => ~c.intena
  BY <1>2, <1>4, <1>7, <1>11, <1>15 DEF RunsOK, ContextOK, Nested, HartOK, PlaceOK
<1>21. a = "syscall_done" => r.regs = Kernel
  BY <1>2, <1>4, <1>15 DEF HartOK, PlaceOK, Calls
<1>22. HartOK(h, R, lock)
  BY <1>2, <1>3, <1>4, <1>15, <1>19, <1>20, <1>21 DEF HartOK, PlaceOK, Nested, Calls, UserSide, FromUser,
       Handler, Switching, InScheduler, Open, SysCall, HeldPcs, Spinning, TrapAssumption
<1>23. Q.tf = q.tf /\ Q.state = q.state /\ Q.lock = Nobody /\ Q.context = q.context
       /\ Q.intena = q.intena
  BY <1>8 DEF ProcRec
<1>24. RunsOK(h, R, Q, U)
  BY <1>2, <1>7, <1>15, <1>19, <1>23 DEF RunsOK, UserSide, Switching
<1>25. ContextOK(p, Q)
  BY <1>7, <1>23 DEF ContextOK
<1>26. Nested(R.pc) <=> Nested(r.pc)
  BY <1>2, <1>4, <1>15, <1>19 DEF Nested, Handler, HartOK, PlaceOK
<1>27. user' = [user EXCEPT ![p] = U]
  BY <1>2, <1>6 DEF TrapInv, TrapType
<1>28. OfProcess(h, p, R, Q, U)
  BY <1>2, <1>3, <1>4, <1>9, <1>18, <1>19, <1>22, <1>24, <1>25, <1>26, <1>27 DEF OfProcess
<1> QED  BY <1>3, <1>28, ProcessStep

\* kernelvec: the interrupted code of the kernel is in the frame.
LEMMA KernelvecStep ==
    ASSUME TrapAssumption, TrapInv, NEW h \in Harts, kernelvec(h)
    PROVE  TrapInv'
<1>1. PICK r \in HartRec, p \in Threads \cup {Nobody}, s \in Harts \cup Threads : Facts(h, r, p, s)
  BY HartFacts
<1>2. /\ r = hart[h] /\ HartOK(h, r, lock) /\ p = r.proc /\ s = r.sp
      /\ r.pc.at = "kernelvec" /\ UNCHANGED <<proc, lock, irq, user>>
  BY <1>1 DEF kernelvec, PcAt, Facts
<1>3. /\ r.SPP = "S" /\ r.SPIE = TRUE /\ r.scause \in {"timer", "device"} /\ r.SIE = FALSE
      /\ Interruptible(s, r.sepc, r.regs)
  BY <1>2 DEF HartOK, Open, HartRec
<1>4. stack[s] = <<>>
  BY <1>1, <1>2 DEF Facts, Nested, Handler
<1>5. PICK f \in FrameRec : f = [regs |-> r.regs, sepc |-> r.sepc, SPP |-> r.SPP, SPIE |-> r.SPIE]
  BY DEF FrameRec, HartRec
<1>6. f.regs = r.regs /\ f.sepc = r.sepc /\ f.SPP = "S" /\ f.SPIE = TRUE
  BY <1>3, <1>5
<1>7. /\ stack' = [t \in Harts \cup Threads |-> stack'[t]] /\ stack'[s] = <<f>>
      /\ \A t \in Harts \cup Threads : t # s => stack'[t] = stack[t]
  <2>1. stack' = [stack EXCEPT ![s] = Append(stack[s], f)]
    BY <1>2, <1>5 DEF kernelvec
  <2>2. Append(stack[s], f) = <<f>>
    BY <1>4
  <2>3. stack = [t \in Harts \cup Threads |-> stack[t]]
    BY DEF TrapInv, TrapType
  <2> QED  BY <2>1, <2>2, <2>3
<1>8. PICK c \in {"timer", "device"} : c = r.scause
  BY <1>3
<1>9. PICK pc1 \in PlaceRec : pc1 = Place(c, "kerneltrap_end")
  BY DEF Place, PlaceRec, Ats
<1>10. Junk \in RegsRec
  BY DEF Junk, RegsRec
<1>11. PICK R \in HartRec : R = [r EXCEPT !.regs = Junk, !.pc = pc1]
  BY <1>10 DEF HartRec
<1>12. hart' = [hart EXCEPT ![h] = R] /\ panic' = FALSE
  BY <1>2, <1>3, <1>8, <1>9, <1>11 DEF kernelvec, Set, TrapInv
<1>13. /\ R.pc = pc1 /\ R.mode = r.mode /\ R.SIE = r.SIE /\ R.SPP = r.SPP /\ R.sepc = r.sepc
       /\ R.SPIE = r.SPIE /\ R.scause = r.scause /\ R.stvec = r.stvec /\ R.satp = r.satp
       /\ R.regs = Junk /\ R.sp = s /\ R.tp = r.tp /\ R.noff = r.noff /\ R.intena = r.intena
       /\ R.proc = p
  BY <1>2, <1>11 DEF HartRec
<1>14. pc1.at = c /\ pc1.then = "kerneltrap_end"
  BY <1>9 DEF Place
<1>15. HartOK(h, R, lock)
  BY <1>2, <1>3, <1>8, <1>13, <1>14 DEF HartOK, PlaceOK, Nested, Calls, UserSide, FromUser,
       Handler, Switching, InScheduler, Open, SysCall, HeldPcs, Spinning
<1>16. p # Nobody => /\ RunsOK(h, R, proc'[p], user'[p]) /\ ContextOK(p, proc'[p])
                     /\ proc'[p].lock \in {Nobody, h} /\ (s # p => proc'[p] = proc[p])
  BY <1>1, <1>2, <1>8, <1>13, <1>14 DEF Facts, RunsOK, UserSide, Switching
<1>17. stack'[s] # <<>> <=> Nested(R.pc)
  BY <1>7, <1>8, <1>13, <1>14 DEF Nested, Handler
<1>18. /\ stack'[s] # <<>> => stack'[s] = <<stack'[s][1]>> /\ stack'[s][1] \in FrameRec
       /\ FrameOK(s, stack'[s])
  BY <1>3, <1>6, <1>7 DEF FrameOK
<1>19. /\ lock' \in Harts \cup {Nobody} /\ \A g \in Harts : g # h => (lock' = g <=> lock = g)
       /\ irq' \in {"idle", "pending", "claimed"} /\ HartOK(h, R, lock')
       /\ proc' \in [Threads -> ProcRec] /\ \A q \in Threads : q # p => proc'[q] = proc[q]
       /\ user' \in [Threads -> UserRec] /\ \A q \in Threads : q # p => user'[q] = user[q]
  BY <1>2, <1>15 DEF TrapInv, TrapType
<1>20. Local(h, p, s, R)
  BY <1>2, <1>7, <1>12, <1>13, <1>16, <1>17, <1>18, <1>19 DEF Local
<1> QED  BY <1>20, LocalStep

\* kernelvec returns: the interrupted code goes on as the frame says.
LEMMA KerneltrapEndStep ==
    ASSUME TrapAssumption, TrapInv, NEW h \in Harts, kerneltrap_end(h)
    PROVE  TrapInv'
<1>1. PICK r \in HartRec, p \in Threads \cup {Nobody}, s \in Harts \cup Threads : Facts(h, r, p, s)
  BY HartFacts
<1>2. /\ r = hart[h] /\ HartOK(h, r, lock) /\ p = r.proc /\ s = r.sp
      /\ r.pc.at = "kerneltrap_end" /\ UNCHANGED <<proc, lock, irq, user, panic>>
  BY <1>1 DEF kerneltrap_end, PcAt, Facts
<1>3. stack[s] # <<>>
  BY <1>1, <1>2 DEF Facts, Nested
<1>4. PICK f \in FrameRec : f = stack[s][1]
  BY <1>1, <1>3 DEF Facts
<1>5. stack[s] = <<f>>
  BY <1>1, <1>3, <1>4 DEF Facts
<1>6. f.SPP = "S" /\ f.SPIE = TRUE /\ Interruptible(s, f.sepc, f.regs)
  BY <1>1, <1>3, <1>4 DEF Facts, FrameOK, FrameRec
<1>7. /\ stack' = [t \in Harts \cup Threads |-> stack'[t]] /\ stack'[s] = <<>>
      /\ \A t \in Harts \cup Threads : t # s => stack'[t] = stack[t]
  <2>1. stack' = [stack EXCEPT ![s] = SubSeq(stack[s], 1, Len(stack[s]) - 1)]
    BY <1>2 DEF kerneltrap_end
  <2>2. SubSeq(stack[s], 1, Len(stack[s]) - 1) = <<>>
    BY <1>5
  <2>3. stack = [t \in Harts \cup Threads |-> stack[t]]
    BY DEF TrapInv, TrapType
  <2> QED  BY <2>1, <2>2, <2>3
<1>8. PICK i \in HartRec : i = [r EXCEPT !.sepc = f.sepc, !.SPP = f.SPP, !.SPIE = f.SPIE]
  BY DEF HartRec, FrameRec
<1>9. PICK j \in HartRec : j = [i EXCEPT !.regs = f.regs]
  BY DEF HartRec, FrameRec
<1>10. PICK R \in HartRec : R = Sret(j)
  BY SretFacts
<1>11. R = [j EXCEPT !.pc = j.sepc, !.mode = j.SPP, !.SIE = j.SPIE]
  BY <1>10, SretFacts
<1>12. hart' = [hart EXCEPT ![h] = R] /\ panic' = FALSE
  <2>1. stack[s][Len(stack[s])] = f
    BY <1>5
  <2>2. hart' = [hart EXCEPT ![h] = Sret(RestoreFrame(RestoreTrap(r, f), f))]
    BY <1>2, <2>1 DEF kerneltrap_end, Set
  <2>3. Sret(RestoreFrame(RestoreTrap(r, f), f)) = R
    BY <1>8, <1>9, <1>10 DEF RestoreFrame, RestoreTrap
  <2> QED  BY <1>2, <2>2, <2>3 DEF TrapInv
<1>13. /\ R.pc = f.sepc /\ R.mode = "S" /\ R.SIE = TRUE /\ R.SPP = f.SPP /\ R.sepc = f.sepc
       /\ R.scause = r.scause /\ R.stvec = r.stvec /\ R.satp = r.satp /\ R.regs = f.regs
       /\ R.sp = s /\ R.tp = r.tp /\ R.noff = r.noff /\ R.intena = r.intena /\ R.proc = p
  BY <1>2, <1>6, <1>8, <1>9, <1>11 DEF HartRec
<1>14. /\ s \in Harts => f.sepc.at \in InScheduler
       /\ s \in Threads => f.sepc.at \in {"syscall", "syscall_done", "usertrapret", "yield"}
       /\ PlaceOK(f.sepc, s) /\ ~Nested(f.sepc) /\ (Calls(f.sepc) => f.regs = Kernel)
  BY <1>6 DEF Interruptible
<1>15. f.sepc.at \in {"scheduler", "pick", "syscall", "syscall_done", "usertrapret", "yield"}
  BY <1>14 DEF InScheduler
<1>16. HartOK(h, R, lock)
  BY <1>2, <1>13, <1>14, <1>15 DEF HartOK, UserSide, FromUser,
       Handler, Switching, InScheduler, Open, HeldPcs, Spinning
<1>17. p # Nobody => /\ RunsOK(h, R, proc'[p], user'[p]) /\ ContextOK(p, proc'[p])
                     /\ proc'[p].lock \in {Nobody, h} /\ (s # p => proc'[p] = proc[p])
  BY <1>1, <1>2, <1>13, <1>15 DEF Facts, RunsOK, UserSide, Switching
<1>18. /\ stack'[s] # <<>> <=> Nested(R.pc)
       /\ stack'[s] # <<>> => stack'[s] = <<stack'[s][1]>> /\ stack'[s][1] \in FrameRec
       /\ FrameOK(s, stack'[s])
  BY <1>7, <1>13, <1>14 DEF FrameOK
<1>19. /\ lock' \in Harts \cup {Nobody} /\ \A g \in Harts : g # h => (lock' = g <=> lock = g)
       /\ irq' \in {"idle", "pending", "claimed"} /\ HartOK(h, R, lock')
       /\ proc' \in [Threads -> ProcRec] /\ \A q \in Threads : q # p => proc'[q] = proc[q]
       /\ user' \in [Threads -> UserRec] /\ \A q \in Threads : q # p => user'[q] = user[q]
  BY <1>2, <1>16 DEF TrapInv, TrapType
<1>20. Local(h, p, s, R)
  BY <1>2, <1>7, <1>12, <1>13, <1>17, <1>18, <1>19 DEF Local
<1> QED  BY <1>20, LocalStep

\* acquire() gets the lock: it was free, for a hart that has it does not spin.
LEMMA TestAndSetStep ==
    ASSUME TrapAssumption, TrapInv, NEW h \in Harts, test_and_set(h)
    PROVE  TrapInv'
<1>1. PICK r \in HartRec, p \in Threads \cup {Nobody}, s \in Harts \cup Threads : Facts(h, r, p, s)
  BY HartFacts
<1>2. /\ r = hart[h] /\ HartOK(h, r, lock) /\ p = r.proc /\ s = r.sp
      /\ r.pc.at \in Spinning /\ lock \in {Nobody, h} /\ lock' = h
      /\ UNCHANGED <<proc, stack, irq, user>>
  BY <1>1 DEF test_and_set, Facts
<1>3. lock = Nobody
  BY <1>2 DEF HartOK, Spinning, HeldPcs
<1>4. PICK a \in HeldPcs : /\ a = HeldPc[r.pc.at]
                           /\ a = "syscall_held" <=> r.pc.at = "syscall_spin"
                           /\ a = "timer_held" <=> r.pc.at = "timer_spin"
                           /\ a = "device_held" <=> r.pc.at = "device_spin"
  <2>1. HeldPc["timer_spin"] = "timer_held" /\ HeldPc["device_spin"] = "device_held"
        /\ HeldPc["syscall_spin"] = "syscall_held"
    BY DEF HeldPc, Spinning
  <2>2. CASE r.pc.at = "timer_spin"
    BY <2>1, <2>2 DEF HeldPcs
  <2>3. CASE r.pc.at = "device_spin"
    BY <2>1, <2>3 DEF HeldPcs
  <2>4. CASE r.pc.at = "syscall_spin"
    BY <2>1, <2>4 DEF HeldPcs
  <2> QED  BY <1>2, <2>2, <2>3, <2>4 DEF Spinning
<1>5. PICK R \in HartRec : R = Jump(r, a)
  BY JumpFacts DEF Ats, HeldPcs
<1>6. R = [r EXCEPT !.pc = [at |-> a, then |-> r.pc.then, n |-> r.pc.n]]
  BY <1>5, JumpFacts DEF Ats, HeldPcs
<1>7. hart' = [hart EXCEPT ![h] = R] /\ panic' = FALSE
  BY <1>2, <1>3, <1>4, <1>5 DEF test_and_set, Set, TrapInv, TrapAssumption
<1>8. /\ R.pc.at = a /\ R.pc.then = r.pc.then /\ R.mode = r.mode /\ R.SIE = r.SIE /\ R.SPP = r.SPP
      /\ R.sepc = r.sepc /\ R.SPIE = r.SPIE /\ R.scause = r.scause /\ R.stvec = r.stvec
      /\ R.satp = r.satp /\ R.regs = r.regs /\ R.sp = s /\ R.tp = r.tp /\ R.noff = r.noff
      /\ R.intena = r.intena /\ R.proc = p
  BY <1>2, <1>6 DEF HartRec, PlaceRec
<1>9. r.pc.at \in {"timer_spin", "device_spin", "syscall_spin"}
      /\ a \in {"timer_held", "device_held", "syscall_held"}
  BY <1>2 DEF Spinning, HeldPcs
<1>10. Nested(R.pc) <=> Nested(r.pc)
  BY <1>4, <1>8, <1>9 DEF Nested, Handler
<1>11. HartOK(h, R, lock')
  BY <1>2, <1>4, <1>8, <1>9, <1>10 DEF HartOK, PlaceOK, Calls, UserSide, FromUser,
       Handler, Switching, InScheduler, Open, SysCall, HeldPcs, Spinning
<1>12. p # Nobody => /\ RunsOK(h, R, proc'[p], user'[p]) /\ ContextOK(p, proc'[p])
                     /\ proc'[p].lock \in {Nobody, h} /\ (s # p => proc'[p] = proc[p])
  BY <1>1, <1>2, <1>8, <1>9 DEF Facts, RunsOK, UserSide, Switching
<1>13. /\ stack' = [t \in Harts \cup Threads |-> stack'[t]]
       /\ \A t \in Harts \cup Threads : t # s => stack'[t] = stack[t]
       /\ stack'[s] # <<>> => stack'[s] = <<stack'[s][1]>> /\ stack'[s][1] \in FrameRec
       /\ FrameOK(s, stack'[s])
       /\ stack'[s] # <<>> <=> Nested(R.pc)
  BY <1>1, <1>2, <1>10 DEF Facts, TrapInv, TrapType
<1>14. /\ lock' \in Harts \cup {Nobody} /\ \A g \in Harts : g # h => (lock' = g <=> lock = g)
       /\ irq' \in {"idle", "pending", "claimed"}
       /\ proc' \in [Threads -> ProcRec] /\ \A q \in Threads : q # p => proc'[q] = proc[q]
       /\ user' \in [Threads -> UserRec] /\ \A q \in Threads : q # p => user'[q] = user[q]
  BY <1>2, <1>3 DEF TrapInv, TrapType, TrapAssumption
<1>15. Local(h, p, s, R)
  BY <1>2, <1>7, <1>8, <1>11, <1>12, <1>13, <1>14 DEF Local
<1> QED  BY <1>15, LocalStep

\* release(), and the rest of devintr(): interrupts come back unless they were
\* off, as they are in an interrupt.
LEMMA ReleaseStep ==
    ASSUME TrapAssumption, TrapInv, NEW h \in Harts, release(h)
    PROVE  TrapInv'
<1>1. PICK r \in HartRec, p \in Threads \cup {Nobody}, s \in Harts \cup Threads : Facts(h, r, p, s)
  BY HartFacts
<1>2. /\ r = hart[h] /\ HartOK(h, r, lock) /\ p = r.proc /\ s = r.sp
      /\ r.pc.at \in HeldPcs /\ lock' = Nobody
      /\ UNCHANGED <<proc, stack, user>>
  BY <1>1 DEF release, Facts, HeldPcs
<1>3. lock = h /\ r.noff = 1 /\ ~r.SIE /\ r.tp = h /\ myproc(h) = p
  BY <1>2 DEF HartOK, HeldPcs, Open, UserSide, myproc, mycpu
<1>4. PICK o \in HartRec : o = pop_off(r)
  BY <1>3, PopFacts
<1>5. o = [r EXCEPT !.noff = 0, !.SIE = r.intena]
  BY <1>3, <1>4, PopFacts
<1>6. PICK i \in HartRec : i = IF r.pc.at = "timer_held" THEN [o EXCEPT !.sip = FALSE] ELSE o
  <2>1. [o EXCEPT !.sip = FALSE] \in HartRec
    BY DEF HartRec
  <2> QED  BY <2>1
<1>7. /\ i.pc = r.pc /\ i.mode = r.mode /\ i.SIE = r.intena /\ i.SPP = r.SPP
      /\ i.sepc = r.sepc /\ i.SPIE = r.SPIE /\ i.scause = r.scause /\ i.stvec = r.stvec
      /\ i.satp = r.satp /\ i.regs = r.regs /\ i.sp = s /\ i.tp = r.tp /\ i.noff = 0
      /\ i.intena = r.intena /\ i.proc = p
  BY <1>2, <1>5, <1>6 DEF HartRec
<1>8. r.pc.at # "syscall_held" => r.pc.then \in {"usertrapret", "kerneltrap_end"}
  BY <1>2 DEF HartOK, PlaceOK, Handler, HeldPcs
<1>9. PICK a \in {"syscall_done", "yield", "usertrapret", "kerneltrap_end"} :
          /\ devintr_end(h, o) = Jump(i, a)
          /\ a = "syscall_done" <=> r.pc.at = "syscall_held"
          /\ a \in {"usertrapret", "kerneltrap_end"} => a = r.pc.then
          /\ a = "yield" => r.pc.then = "usertrapret" \/ p # Nobody
  <2>1. o.pc = r.pc
    BY <1>5 DEF HartRec
  <2>2. CASE r.pc.at = "syscall_held"
    BY <1>2, <1>6, <2>2 DEF devintr_end, PcAt
  <2>3. CASE r.pc.at = "device_held"
    BY <1>2, <1>6, <1>8, <2>1, <2>3 DEF devintr_end, PcAt
  <2>4. CASE r.pc.at = "timer_held"
    <3>1. devintr_end(h, o) =
             Jump(i, IF \/ r.pc.then = "usertrapret"
                        \/ p # Nobody /\ proc[p].state = "RUNNING"
                     THEN "yield" ELSE r.pc.then)
      BY <1>2, <1>3, <1>6, <2>1, <2>4 DEF devintr_end, PcAt
    <3> QED  BY <1>8, <2>4, <3>1
  <2> QED  BY <1>2, <2>2, <2>3, <2>4 DEF HeldPcs
<1>10. PICK R \in HartRec : R = Jump(i, a)
  BY JumpFacts DEF Ats
<1>11. R = [i EXCEPT !.pc = [at |-> a, then |-> i.pc.then, n |-> i.pc.n]]
  BY <1>10, JumpFacts DEF Ats
<1>12. ~BadPop(r)
  BY <1>3 DEF BadPop
<1>13. hart' = [hart EXCEPT ![h] = R] /\ panic' = FALSE
  BY <1>2, <1>3, <1>4, <1>9, <1>10, <1>12 DEF release, Set, TrapInv
<1>14. /\ R.pc.at = a /\ R.pc.then = r.pc.then /\ R.mode = r.mode /\ (R.SIE => r.intena) /\ R.SPP = r.SPP
       /\ R.sepc = r.sepc /\ R.SPIE = r.SPIE /\ R.scause = r.scause /\ R.stvec = r.stvec
       /\ R.satp = r.satp /\ R.regs = r.regs /\ R.sp = s /\ R.tp = r.tp /\ R.noff = 0
       /\ R.intena = r.intena /\ R.proc = p
  BY <1>2, <1>7, <1>11 DEF HartRec, PlaceRec
<1>15. Nested(R.pc) <=> Nested(r.pc)
  BY <1>2, <1>8, <1>9, <1>14 DEF Nested, Handler, HeldPcs
<1>16. R.SIE => ~Nested(R.pc)
  BY <1>2, <1>14, <1>15 DEF HartOK
<1>17. s \in Harts => a = "kerneltrap_end"
  <2>1. s \in Harts => r.pc.at # "syscall_held" /\ r.pc.then = "kerneltrap_end"
    BY <1>2 DEF HartOK, PlaceOK, InScheduler, Handler, HeldPcs
  <2>2. p # Nobody => s = p
    BY <1>2 DEF HartOK, HeldPcs
  <2> QED  BY <1>9, <2>1, <2>2 DEF TrapAssumption
<1>18. PlaceOK(R.pc, s)
  BY <1>2, <1>8, <1>9, <1>14, <1>17 DEF PlaceOK, Handler, InScheduler
<1>19. Calls(R.pc) => R.regs = Kernel
  BY <1>2, <1>8, <1>9, <1>14 DEF HartOK, Calls, SysCall, HeldPcs
<1>20. HartOK(h, R, lock')
  BY <1>2, <1>9, <1>14, <1>16, <1>18, <1>19 DEF HartOK, UserSide, FromUser, Nested,
       Handler, Switching, Open, HeldPcs, Spinning, TrapAssumption
<1>21. p # Nobody => /\ RunsOK(h, R, proc'[p], user'[p]) /\ ContextOK(p, proc'[p])
                     /\ proc'[p].lock \in {Nobody, h} /\ (s # p => proc'[p] = proc[p])
  BY <1>1, <1>2, <1>9, <1>14 DEF Facts, RunsOK, UserSide, Switching, HeldPcs
<1>22. /\ stack' = [t \in Harts \cup Threads |-> stack'[t]]
       /\ \A t \in Harts \cup Threads : t # s => stack'[t] = stack[t]
       /\ stack'[s] # <<>> => stack'[s] = <<stack'[s][1]>> /\ stack'[s][1] \in FrameRec
       /\ FrameOK(s, stack'[s])
       /\ stack'[s] # <<>> <=> Nested(R.pc)
  BY <1>1, <1>2, <1>15 DEF Facts, TrapInv, TrapType
<1>23. irq' \in {"idle", "pending", "claimed"}
  BY DEF release, plic_complete, TrapInv, TrapType
<1>24. /\ lock' \in Harts \cup {Nobody} /\ \A g \in Harts : g # h => (lock' = g <=> lock = g)
       /\ proc' \in [Threads -> ProcRec] /\ \A q \in Threads : q # p => proc'[q] = proc[q]
       /\ user' \in [Threads -> UserRec] /\ \A q \in Threads : q # p => user'[q] = user[q]
  BY <1>2, <1>3 DEF TrapInv, TrapType, TrapAssumption
<1>25. Local(h, p, s, R)
  BY <1>2, <1>13, <1>14, <1>20, <1>21, <1>22, <1>23, <1>24 DEF Local
<1> QED  BY <1>25, LocalStep

\* Hart h begins to run p, or ends it, or goes from one stack to the other.
Switch(h, p, R, Q) ==
    /\ hart' = [hart EXCEPT ![h] = R] /\ proc' = [proc EXCEPT ![p] = Q]
    /\ UNCHANGED <<stack, lock, irq, user>> /\ panic' = FALSE
    /\ \A g \in Harts : g # h => hart[g].proc # p
    /\ hart[h].proc \in {Nobody, p} /\ R.proc \in {Nobody, p}
    /\ hart[h].sp \in {h, p} /\ R.sp \in {h, p}
    /\ HartOK(h, R, lock) /\ ContextOK(p, Q)
    /\ R.proc = p => RunsOK(h, R, Q, user[p])
    /\ R.proc = Nobody => /\ Q.tf.regs = user[p].regs /\ Q.tf.epc = user[p].pc
                          /\ Q.lock = Nobody
    /\ Q.lock \in {Nobody, h}
    /\ stack[R.sp] # <<>> <=> Nested(R.pc)
    /\ R.sp # h => stack[h] = <<>>
    /\ R.sp # p => (stack[p] # <<>> <=> Nested(Q.context.pc))

LEMMA SwitchStep ==
    ASSUME TrapAssumption, TrapInv, NEW h \in Harts, NEW p \in Threads, NEW R \in HartRec,
           NEW Q \in ProcRec, Switch(h, p, R, Q)
    PROVE  TrapInv'
<1> USE DEF Switch
<1>0. p # Nobody /\ h # Nobody /\ h # p /\ p \notin Harts
  BY DEF TrapAssumption
<1>1. hart \in [Harts -> HartRec] /\ proc \in [Threads -> ProcRec]
  BY DEF TrapInv, TrapType
<1>2. /\ hart' \in [Harts -> HartRec] /\ hart'[h] = R /\ \A g \in Harts : g # h => hart'[g] = hart[g]
      /\ proc' \in [Threads -> ProcRec] /\ proc'[p] = Q /\ \A q \in Threads : q # p => proc'[q] = proc[q]
  BY <1>1
<1>3. TrapType'
  BY <1>2 DEF TrapInv, TrapType
<1>4. \A g \in Harts : HartOK(g, hart'[g], lock')
  <2>1. SUFFICES ASSUME NEW g \in Harts, g # h PROVE HartOK(g, hart[g], lock)
    BY <1>2
  <2> QED  BY DEF TrapInv
<1>5. \A q \in Threads : ContextOK(q, proc'[q])
  <2>1. ASSUME NEW q \in Threads, q # p PROVE ContextOK(q, proc'[q])
    BY <1>2, <2>1 DEF TrapInv
  <2> QED  BY <1>2, <2>1
<1>6. Apart'
  <2>1. SUFFICES ASSUME NEW g \in Harts, NEW pc1 \in Harts, g # pc1, hart'[g].proc # Nobody
                 PROVE  hart'[g].proc # hart'[pc1].proc
    BY DEF Apart
  <2>2. CASE g = h
    BY <1>2, <2>1, <2>2
  <2>3. CASE pc1 = h
    BY <1>2, <2>1, <2>3
  <2>4. CASE g # h /\ pc1 # h
    BY <1>2, <2>1, <2>4 DEF TrapInv, Apart
  <2> QED  BY <2>2, <2>3, <2>4
<1>7. Runs'
  <2>1. SUFFICES ASSUME NEW g \in Harts, NEW q, q = hart'[g].proc, q # Nobody
                 PROVE  RunsOK(g, hart'[g], proc'[q], user[q])
    BY DEF Runs
  <2>2. CASE g = h
    BY <1>2, <2>1, <2>2
  <2>3. CASE g # h
    <3>1. hart'[g] = hart[g] /\ q = hart[g].proc /\ q \in Threads /\ q # p
      BY <1>1, <1>2, <2>1, <2>3 DEF HartRec
    <3>2. RunsOK(g, hart[g], proc[q], user[q])
      BY <2>1, <3>1 DEF TrapInv, Runs
    <3> QED  BY <1>2, <3>1, <3>2
  <2> QED  BY <2>2, <2>3
<1>8. Waits'
  <2>1. SUFFICES ASSUME NEW q \in Threads, \A g \in Harts : hart'[g].proc # q
                 PROVE  proc'[q].tf.regs = user[q].regs /\ proc'[q].tf.epc = user[q].pc
    BY DEF Waits
  <2>2. CASE q = p
    BY <1>2, <2>1, <2>2
  <2>3. CASE q # p
    <3>1. \A g \in Harts : hart[g].proc # q
      <4>1. ASSUME NEW g \in Harts, g # h PROVE hart[g].proc # q
        BY <1>2, <2>1, <4>1
      <4>2. hart[h].proc # q
        BY <2>3 DEF TrapAssumption
      <4> QED  BY <4>1, <4>2
    <3>2. proc[q].tf.regs = user[q].regs /\ proc[q].tf.epc = user[q].pc
      BY <3>1 DEF TrapInv, Waits
    <3> QED  BY <1>2, <2>3, <3>2
  <2> QED  BY <2>2, <2>3
<1>9. Locked'
  <2>1. SUFFICES ASSUME NEW q \in Threads, NEW l, l = proc'[q].lock, l # Nobody
                 PROVE  hart'[l].proc = q
    BY DEF Locked
  <2>2. CASE q = p
    BY <1>2, <2>1, <2>2
  <2>3. CASE q # p
    <3>1. proc[q].lock = l /\ l \in Harts
      BY <1>1, <1>2, <2>1, <2>3 DEF ProcRec
    <3>2. hart[l].proc = q
      BY <2>1, <3>1 DEF TrapInv, Locked
    <3>3. l # h
      BY <2>3, <3>2 DEF TrapAssumption
    <3> QED  BY <1>2, <3>1, <3>2, <3>3
  <2> QED  BY <2>2, <2>3
<1>10. Frames'
  BY DEF TrapInv, Frames
<1>11. \A g \in Harts : g # h => hart[g].sp \notin {h, p}
  <2>1. SUFFICES ASSUME NEW g \in Harts, g # h PROVE hart[g].sp \notin {h, p}
    OBVIOUS
  <2>2. HartOK(g, hart[g], lock) /\ hart[g] \in HartRec
    BY <1>1 DEF TrapInv
  <2>3. hart[g].sp \in {g, hart[g].proc} /\ hart[g].proc \in Threads \cup {Nobody} /\ hart[g].proc # p
    BY <2>1, <2>2 DEF HartOK, HartRec
  <2> QED  BY <2>1, <2>3 DEF TrapAssumption
<1>12. Nesting'
  <2>1. \A g \in Harts : stack[hart'[g].sp] # <<>> <=> Nested(hart'[g].pc)
    <3>1. SUFFICES ASSUME NEW g \in Harts, g # h
                   PROVE  stack[hart[g].sp] # <<>> <=> Nested(hart[g].pc)
      BY <1>2
    <3> QED  BY DEF TrapInv, Nesting
  <2>2. \A g \in Harts : hart'[g].sp # g => stack[g] = <<>>
    <3>1. SUFFICES ASSUME NEW g \in Harts, g # h, hart[g].sp # g
                   PROVE  stack[g] = <<>>
      BY <1>2
    <3> QED  BY <3>1 DEF TrapInv, Nesting
  <2>3. \A q \in Threads : (\A g \in Harts : hart'[g].sp # q) =>
            (stack[q] # <<>> <=> Nested(proc'[q].context.pc))
    <3>1. SUFFICES ASSUME NEW q \in Threads, \A g \in Harts : hart'[g].sp # q
                   PROVE  stack[q] # <<>> <=> Nested(proc'[q].context.pc)
      OBVIOUS
    <3>2. CASE q = p
      BY <1>2, <3>1, <3>2
    <3>3. CASE q # p
      <4>1. \A g \in Harts : hart[g].sp # q
        <5>1. ASSUME NEW g \in Harts, g # h PROVE hart[g].sp # q
          BY <1>2, <3>1, <5>1
        <5>2. hart[h].sp # q
          BY <3>3 DEF TrapAssumption
        <5> QED  BY <5>1, <5>2
      <4>2. stack[q] # <<>> <=> Nested(proc[q].context.pc)
        BY <4>1 DEF TrapInv, Nesting
      <4> QED  BY <1>2, <3>3, <4>2
    <3> QED  BY <3>2, <3>3
  <2> QED  BY <2>1, <2>2, <2>3 DEF Nesting
<1> QED  BY <1>3, <1>4, <1>5, <1>6, <1>7, <1>8, <1>9, <1>10, <1>12 DEF TrapInv

\* yield(): the process leaves with its p->lock held, and the hart is back in
\* its scheduler's context.
LEMMA YieldStep ==
    ASSUME TrapAssumption, TrapInv, NEW h \in Harts, yield(h)
    PROVE  TrapInv'
<1>1. PICK r \in HartRec, p \in Threads \cup {Nobody}, s \in Harts \cup Threads : Facts(h, r, p, s)
  BY HartFacts
<1>2. /\ r = hart[h] /\ HartOK(h, r, lock) /\ p = r.proc /\ s = r.sp /\ r.pc.at = "yield"
      /\ r.tp = h /\ myproc(h) = p /\ r.noff = 0
      /\ UNCHANGED <<stack, lock, irq, user>>
  BY <1>1 DEF yield, PcAt, Facts, HartOK, UserSide, Spinning, HeldPcs, Switching, myproc, mycpu
<1>3. p # Nobody /\ p \in Threads /\ s = p
  BY <1>2 DEF HartOK, PlaceOK, InScheduler, Handler, TrapAssumption
<1>4. PICK q \in ProcRec : q = proc[p]
  BY <1>1, <1>3 DEF Facts
<1>5. RunsOK(h, r, q, user[p])
  BY <1>1, <1>3, <1>4 DEF Facts
<1>6. PICK c \in HartRec : c = push_off(r)
  BY PushFacts
<1>7. PICK b \in BOOLEAN : c = [r EXCEPT !.SIE = FALSE, !.noff = r.noff + 1, !.intena = b]
  BY <1>6, PushFacts
<1>8. /\ c.pc = r.pc /\ c.mode = r.mode /\ c.satp = r.satp /\ c.tp = r.tp /\ c.stvec = r.stvec
      /\ c.proc = p /\ c.regs = r.regs
  BY <1>2, <1>7 DEF HartRec
<1>9. c.SIE = FALSE /\ c.noff = 1 /\ (c.intena <=> r.SIE)
  <2>1. c.SIE = FALSE /\ c.noff = r.noff + 1 /\ (r.noff = 0 => c.intena = r.SIE)
    BY ONLY <1>6, PushFacts, r \in HartRec
  <2>2. c.SIE = FALSE /\ c.noff = 1 /\ c.intena = r.SIE
    BY ONLY <1>2, <2>1
  <2> QED  BY <2>2
<1>10. PICK i \in BOOLEAN : i = c.intena
  BY DEF HartRec
<1>11. PICK x \in {"usertrapret", "kerneltrap_end", "syscall_done"} : x = r.pc.then
  BY <1>2 DEF HartOK, PlaceOK
<1>12. PICK pc1 \in PlaceRec : pc1 = Place("sched", x)
  BY DEF Place, PlaceRec, Ats
<1>13. pc1.at = "sched" /\ pc1.then = x
  BY <1>12 DEF Place
<1>14. PICK z \in ContextRec : z = [pc |-> pc1, regs |-> r.regs]
  BY DEF ContextRec, HartRec
<1>15. z.pc = pc1 /\ z.regs = r.regs
  BY <1>14
<1>16. PICK Q \in ProcRec : Q = [q EXCEPT !.lock = h, !.state = "RUNNABLE", !.intena = i, !.context = z]
  BY DEF ProcRec
<1>17. Q.lock = h /\ Q.state = "RUNNABLE" /\ (Q.intena <=> r.SIE) /\ Q.context = z /\ Q.tf = q.tf
  BY <1>9, <1>10, <1>16 DEF ProcRec
<1>18. proc' = [proc EXCEPT ![p] = Q]
  <2>1. proc' = [proc EXCEPT ![p] = [proc[p] EXCEPT !.lock = h, !.state = "RUNNABLE",
                    !.intena = c.intena,
                    !.context = [pc |-> Place("sched", c.pc.then), regs |-> c.regs]]]
    BY <1>2, <1>6, Zenon DEF yield
  <2>2. [pc |-> Place("sched", c.pc.then), regs |-> c.regs] = z
    BY <1>8, <1>11, <1>12, <1>14
  <2> QED  BY <1>4, <1>10, <1>16, <2>1, <2>2
<1>19. PICK j \in PlaceRec : j = Place("swtched", "scheduler")
  BY DEF Place, PlaceRec, Ats
<1>20. j.at = "swtched" /\ j.then = "scheduler"
  BY <1>19 DEF Place
<1>21. Junk \in RegsRec
  BY DEF Junk, RegsRec
<1>22. PICK R \in HartRec : R = [c EXCEPT !.pc = j, !.sp = h, !.regs = Junk]
  BY <1>21 DEF HartRec
<1>23. hart' = [hart EXCEPT ![h] = R] /\ panic' = FALSE
  <2>1. /\ hart' = [hart EXCEPT ![h] = [c EXCEPT !.pc = Place("swtched", "scheduler"), !.sp = h,
                                                 !.regs = Junk]]
        /\ panic' = (panic \/ c.noff # 1 \/ c.SIE)
    BY <1>2, <1>6, Zenon DEF yield, Set
  <2> QED  BY <1>9, <1>19, <1>22, <2>1 DEF TrapInv
<1>24. /\ R.pc = j /\ R.mode = r.mode /\ R.satp = r.satp /\ R.tp = r.tp /\ R.stvec = r.stvec
       /\ R.proc = p /\ R.sp = h /\ R.SIE = FALSE /\ R.noff = 1
  BY <1>8, <1>9, <1>22 DEF HartRec
<1>25. HartOK(h, R, lock)
  BY <1>2, <1>3, <1>20, <1>24 DEF HartOK, PlaceOK, Nested, Calls, UserSide, FromUser, Handler,
       Switching, InScheduler, Open, SysCall, HeldPcs, Spinning, TrapAssumption
<1>26. ContextOK(p, Q)
  <2>1. PlaceOK(pc1, p)
    BY <1>3, <1>13 DEF PlaceOK, InScheduler, Handler, TrapAssumption
  <2>2. Calls(pc1) => r.regs = Kernel
    BY <1>2, <1>11, <1>13 DEF Calls, HartOK, SysCall
  <2>3. Nested(pc1) => ~r.SIE
    BY <1>2, <1>11, <1>13 DEF Nested, HartOK, Handler
  <2> QED  BY <1>13, <1>15, <1>17, <2>1, <2>2, <2>3 DEF ContextOK
<1>27. RunsOK(h, R, Q, user[p])
  BY <1>2, <1>5, <1>17, <1>20, <1>24 DEF RunsOK, UserSide, Switching
<1>28. \A g \in Harts : g # h => hart[g].proc # p
  BY <1>2, <1>3 DEF TrapInv, Apart
<1>29. stack[h] = <<>>
  BY <1>2, <1>3 DEF TrapInv, Nesting, TrapAssumption
<1>30. stack[R.sp] # <<>> <=> Nested(R.pc)
  BY <1>20, <1>24, <1>29 DEF Nested, Handler
<1>31. stack[p] # <<>> <=> Nested(Q.context.pc)
  <2>1. stack[p] # <<>> <=> Nested(r.pc)
    BY <1>1, <1>3 DEF Facts
  <2>2. Nested(r.pc) <=> Nested(pc1)
    BY <1>2, <1>11, <1>13 DEF Nested, Handler
  <2> QED  BY <1>15, <1>17, <2>1, <2>2
<1>32. Switch(h, p, R, Q)
  BY <1>2, <1>3, <1>17, <1>18, <1>23, <1>24, <1>25, <1>26, <1>27, <1>28, <1>29, <1>30, <1>31
     DEF Switch, TrapAssumption
<1> QED  BY <1>3, <1>32, SwitchStep

\* Back in scheduler(): the process is any hart's again.
LEMMA SwtchedStep ==
    ASSUME TrapAssumption, TrapInv, NEW h \in Harts, swtched(h)
    PROVE  TrapInv'
<1>1. PICK r \in HartRec, p \in Threads \cup {Nobody}, s \in Harts \cup Threads : Facts(h, r, p, s)
  BY HartFacts
<1>2. /\ r = hart[h] /\ HartOK(h, r, lock) /\ p = r.proc /\ s = r.sp /\ r.pc.at = "swtched"
      /\ r.noff = 1 /\ ~r.SIE /\ p # Nobody /\ p \in Threads /\ s = h
      /\ UNCHANGED <<stack, lock, irq, user>>
  BY <1>1 DEF swtched, PcAt, Facts, HartOK, Switching, Open
<1>3. PICK q \in ProcRec : q = proc[p]
  BY <1>1, <1>2 DEF Facts
<1>4. RunsOK(h, r, q, user[p]) /\ ContextOK(p, q)
  BY <1>1, <1>2, <1>3 DEF Facts
<1>5. PICK Q \in ProcRec : Q = [q EXCEPT !.lock = Nobody]
  BY DEF ProcRec
<1>6. proc' = [proc EXCEPT ![p] = Q]
  <2>1. proc' = [proc EXCEPT ![p] = [proc[p] EXCEPT !.lock = Nobody]]
    BY <1>2, Zenon DEF swtched
  <2> QED  BY <1>3, <1>5, <2>1
<1>7. Q.tf = q.tf /\ Q.state = q.state /\ Q.lock = Nobody /\ Q.context = q.context
       /\ Q.intena = q.intena
  BY <1>5 DEF ProcRec
<1>8. PICK c \in HartRec : c = [r EXCEPT !.proc = Nobody]
  BY DEF HartRec
<1>9. /\ c.pc = r.pc /\ c.mode = r.mode /\ c.SIE = r.SIE /\ c.satp = r.satp /\ c.tp = r.tp
      /\ c.stvec = r.stvec /\ c.proc = Nobody /\ c.sp = h /\ c.noff = 1 /\ ~c.SIE /\ c.regs = r.regs
  BY <1>2, <1>8 DEF HartRec
<1>10. PICK o \in HartRec : o = pop_off(c)
  BY <1>9, PopFacts
<1>11. o = [c EXCEPT !.noff = 0, !.SIE = c.intena]
  BY <1>9, <1>10, PopFacts
<1>12. PICK R \in HartRec : R = Jump(o, "scheduler")
  BY JumpFacts DEF Ats
<1>13. R = [o EXCEPT !.pc = [at |-> "scheduler", then |-> o.pc.then, n |-> o.pc.n]]
  BY <1>12, JumpFacts DEF Ats
<1>14. hart' = [hart EXCEPT ![h] = R] /\ panic' = FALSE
  <2>1. /\ hart' = [hart EXCEPT ![h] = Jump(pop_off(c), "scheduler")]
        /\ panic' = (panic \/ BadPop(r))
    BY <1>2, <1>8, Zenon DEF swtched, Set
  <2>2. ~BadPop(r)
    BY <1>2 DEF BadPop
  <2> QED  BY <1>10, <1>12, <2>1, <2>2 DEF TrapInv
<1>15. /\ R.pc.at = "scheduler" /\ R.mode = r.mode /\ R.satp = r.satp /\ R.tp = r.tp
       /\ R.stvec = r.stvec /\ R.proc = Nobody /\ R.sp = h /\ R.noff = 0
  BY <1>9, <1>11, <1>13 DEF HartRec, PlaceRec
<1>16. HartOK(h, R, lock)
  BY <1>2, <1>15 DEF HartOK, PlaceOK, Nested, Calls, UserSide, FromUser, Handler,
       Switching, InScheduler, Open, SysCall, HeldPcs, Spinning, TrapAssumption
<1>17. ContextOK(p, Q)
  BY <1>4, <1>7 DEF ContextOK
<1>18. Q.tf.regs = user[p].regs /\ Q.tf.epc = user[p].pc
  BY <1>2, <1>4, <1>7 DEF RunsOK, UserSide
<1>19. \A g \in Harts : g # h => hart[g].proc # p
  BY <1>2 DEF TrapInv, Apart
<1>20. stack[h] = <<>>
  BY <1>1, <1>2 DEF Facts, Nested, Handler
<1>21. ~Nested(R.pc)
  BY <1>15 DEF Nested, Handler
<1>22. stack[p] # <<>> <=> Nested(Q.context.pc)
  <2>1. \A g \in Harts : hart[g].sp # p
    <3>1. ASSUME NEW g \in Harts, g # h PROVE hart[g].sp # p
      <4>1. HartOK(g, hart[g], lock)
        BY DEF TrapInv
      <4>2. hart[g].sp \in {g, hart[g].proc}
        BY <4>1 DEF HartOK
      <4> QED  BY <1>2, <1>19, <3>1, <4>2 DEF TrapAssumption
    <3>2. hart[h].sp # p
      BY <1>2 DEF TrapAssumption
    <3> QED  BY <3>1, <3>2
  <2>2. stack[p] # <<>> <=> Nested(proc[p].context.pc)
    BY <1>2, <2>1 DEF TrapInv, Nesting
  <2> QED  BY <1>3, <1>7, <2>2
<1>23. Switch(h, p, R, Q)
  BY <1>2, <1>6, <1>7, <1>14, <1>15, <1>16, <1>17, <1>18, <1>19, <1>20, <1>21, <1>22
     DEF Switch, TrapAssumption
<1> QED  BY <1>2, <1>23, SwitchStep

\* scheduler() switches to a process that waits, which no hart runs.
LEMMA PickStep ==
    ASSUME TrapAssumption, TrapInv, NEW h \in Harts, NEW p \in Threads, pick(h, p)
    PROVE  TrapInv'
<1>1. PICK r \in HartRec, o \in Threads \cup {Nobody}, s \in Harts \cup Threads : Facts(h, r, o, s)
  BY HartFacts
<1>2. /\ r = hart[h] /\ HartOK(h, r, lock) /\ o = r.proc /\ s = r.sp /\ r.pc.at = "pick"
      /\ r.noff = 0 /\ UNCHANGED <<stack, lock, irq, user, panic>> /\ panic' = FALSE
      /\ proc[p].lock = Nobody /\ proc[p].state = "RUNNABLE"
  BY <1>1 DEF pick, PcAt, Facts, HartOK, Switching, HeldPcs, Spinning, TrapInv
<1>3. o = Nobody /\ s = h /\ s # Nobody
  BY <1>2 DEF HartOK, PlaceOK, InScheduler, TrapAssumption
<1>4. PICK q \in ProcRec : q = proc[p]
  BY DEF TrapInv, TrapType
<1>5. PICK Q \in ProcRec : Q = [q EXCEPT !.lock = h, !.state = "RUNNING"]
  BY DEF ProcRec
<1>6. proc' = [proc EXCEPT ![p] = Q]
  <2>1. proc' = [proc EXCEPT ![p] = [proc[p] EXCEPT !.lock = h, !.state = "RUNNING"]]
    BY DEF pick, TrapInv, TrapType
  <2> QED  BY <1>4, <1>5, <2>1
<1>7. Q.tf = q.tf /\ Q.state = "RUNNING" /\ Q.lock = h /\ Q.context = q.context
       /\ Q.intena = q.intena
  BY <1>5 DEF ProcRec
<1>8. ContextOK(p, q)
  BY <1>4 DEF TrapInv
<1>9. PICK z \in ContextRec : z = q.context
  BY DEF ProcRec
<1>10. PICK c \in HartRec : c = push_off(r)
  BY PushFacts
<1>11. PICK b \in BOOLEAN : c = [r EXCEPT !.SIE = FALSE, !.noff = r.noff + 1, !.intena = b]
  BY <1>10, PushFacts
<1>12. /\ c.mode = r.mode /\ c.satp = r.satp /\ c.tp = r.tp /\ c.stvec = r.stvec
  BY <1>2, <1>11 DEF HartRec
<1>13. c.SIE = FALSE /\ c.noff = 1
  <2>1. c.SIE = FALSE /\ c.noff = r.noff + 1
    BY ONLY <1>10, PushFacts, r \in HartRec
  <2> QED  BY ONLY <1>2, <2>1
<1>14. PICK R \in HartRec : R = [c EXCEPT !.proc = p, !.sp = p, !.pc = z.pc, !.regs = z.regs]
  BY DEF HartRec, ContextRec
<1>15. hart' = [hart EXCEPT ![h] = R]
  BY <1>2, <1>4, <1>9, <1>10, <1>14 DEF pick, Set
<1>16. /\ R.pc = z.pc /\ R.mode = r.mode /\ R.satp = r.satp /\ R.tp = r.tp /\ R.stvec = r.stvec
       /\ R.proc = p /\ R.sp = p /\ R.SIE = FALSE /\ R.noff = 1 /\ R.regs = z.regs
  BY <1>12, <1>13, <1>14 DEF HartRec, ContextRec
<1>17. /\ z.pc.at \in {"sched", "forkret"} /\ PlaceOK(z.pc, p)
       /\ Calls(z.pc) => z.regs = Kernel
  BY <1>8, <1>9 DEF ContextOK
<1>18. HartOK(h, R, lock)
  BY <1>2, <1>16, <1>17 DEF HartOK, UserSide, FromUser,
       Switching, InScheduler, Open, HeldPcs, Spinning, TrapAssumption
<1>19. ContextOK(p, Q)
  BY <1>7, <1>8 DEF ContextOK
<1>20. \A g \in Harts : hart[g].proc # p
  <2>1. SUFFICES ASSUME NEW g \in Harts, p = hart[g].proc PROVE FALSE
    OBVIOUS
  <2>2. RunsOK(g, hart[g], proc[p], user[p])
    BY <2>1 DEF TrapInv, Runs, TrapAssumption
  <2> QED  BY <1>2, <2>2 DEF RunsOK, Switching, TrapAssumption
<1>21. Q.tf.regs = user[p].regs /\ Q.tf.epc = user[p].pc
  BY <1>4, <1>7, <1>20 DEF TrapInv, Waits
<1>22. RunsOK(h, R, Q, user[p])
  BY <1>7, <1>9, <1>16, <1>17, <1>21 DEF RunsOK, UserSide, Switching
<1>23. stack[h] = <<>>
  BY <1>1, <1>2, <1>3 DEF Facts, Nested, Handler
<1>24. stack[p] # <<>> <=> Nested(z.pc)
  <2>1. \A g \in Harts : hart[g].sp # p
    <3>1. SUFFICES ASSUME NEW g \in Harts PROVE hart[g].sp # p
      OBVIOUS
    <3>2. HartOK(g, hart[g], lock)
      BY DEF TrapInv
    <3>3. hart[g].sp \in {g, hart[g].proc}
      BY <3>2 DEF HartOK
    <3> QED  BY <1>20, <3>3 DEF TrapAssumption
  <2>2. stack[p] # <<>> <=> Nested(proc[p].context.pc)
    BY <2>1 DEF TrapInv, Nesting
  <2> QED  BY <1>4, <1>9, <2>2
<1>25. Switch(h, p, R, Q)
  BY <1>2, <1>3, <1>6, <1>7, <1>15, <1>16, <1>18, <1>19, <1>20, <1>22, <1>23, <1>24
     DEF Switch, TrapAssumption
<1> QED  BY <1>25, SwitchStep

-----------------------------------------------------------------------------
\* At first nobody has a lock, a frame or a program running.
LEMMA TrapInitOK ==
    ASSUME TrapAssumption, TrapInit
    PROVE  TrapInv
<1>1. /\ Place("scheduler", "scheduler") \in PlaceRec /\ Place("forkret", "usertrapret") \in PlaceRec
      /\ Place("scheduler", "scheduler").at = "scheduler"
      /\ Place("forkret", "usertrapret").at = "forkret"
      /\ Place("forkret", "usertrapret").then = "usertrapret"
  BY DEF Place, PlaceRec, Ats
<1>2. Junk \in RegsRec /\ \A p \in Threads : Own(p, 0) \in RegsRec
  BY DEF Junk, Own, RegsRec
<1>3. UserPc(0) \in PlaceRec
  BY DEF UserPc, PlaceRec, Ats
<1>4. ASSUME NEW h \in Harts
      PROVE  /\ hart[h] \in HartRec /\ hart[h].pc = Place("scheduler", "scheduler")
             /\ hart[h].mode = "S" /\ hart[h].SIE = FALSE /\ hart[h].stvec = "kernelvec"
             /\ hart[h].satp = Nobody /\ hart[h].sp = h /\ hart[h].tp = h /\ hart[h].noff = 0
             /\ hart[h].proc = Nobody
  BY <1>1, <1>2, <1>4 DEF TrapInit, HartRec
<1>5. ASSUME NEW p \in Threads
      PROVE  /\ proc[p] \in ProcRec /\ proc[p].state = "RUNNABLE" /\ proc[p].lock = Nobody
             /\ proc[p].intena = FALSE /\ proc[p].context.pc = Place("forkret", "usertrapret")
             /\ proc[p].tf.regs = Own(p, 0) /\ proc[p].tf.epc = UserPc(0)
  <2>1. PICK z \in ContextRec : z = [pc |-> Place("forkret", "usertrapret"), regs |-> Junk]
    BY <1>1, <1>2 DEF ContextRec
  <2>2. PICK t \in TrapframeRec : t = [regs |-> Own(p, 0), epc |-> UserPc(0), hartid |-> Nobody]
    BY <1>2, <1>3 DEF TrapframeRec
  <2>3. proc[p] = [state |-> "RUNNABLE", lock |-> Nobody, intena |-> FALSE, context |-> z, tf |-> t]
    BY <2>1, <2>2 DEF TrapInit
  <2>4. z.pc = Place("forkret", "usertrapret") /\ t.regs = Own(p, 0) /\ t.epc = UserPc(0)
    BY <2>1, <2>2
  <2>5. proc[p] \in ProcRec
    BY <2>3 DEF ProcRec
  <2> QED  BY <2>3, <2>4, <2>5
<1>6. ASSUME NEW p \in Threads
      PROVE  user[p] \in UserRec /\ user[p].regs = Own(p, 0) /\ user[p].pc = UserPc(0)
  BY <1>2 DEF TrapInit, UserRec
<1>7. /\ hart \in [Harts -> HartRec] /\ proc \in [Threads -> ProcRec] /\ user \in [Threads -> UserRec]
      /\ stack = [s \in Harts \cup Threads |-> stack[s]]
      /\ \A s \in Harts \cup Threads : stack[s] = <<>>
      /\ lock = Nobody /\ irq = "idle" /\ panic = FALSE
  <2>1. hart = [h \in Harts |-> hart[h]] /\ proc = [p \in Threads |-> proc[p]]
        /\ user = [p \in Threads |-> user[p]]
    BY DEF TrapInit
  <2>2. stack = [s \in Harts \cup Threads |-> <<>>] /\ lock = Nobody /\ irq = "idle" /\ panic = FALSE
    BY DEF TrapInit
  <2>3. hart \in [Harts -> HartRec]
    BY ONLY <1>4, <2>1
  <2>4. proc \in [Threads -> ProcRec]
    BY ONLY <1>5, <2>1
  <2>5. user \in [Threads -> UserRec]
    BY ONLY <1>6, <2>1
  <2> QED  BY ONLY <2>2, <2>3, <2>4, <2>5
<1>8. TrapType
  BY <1>7 DEF TrapType
<1>9. ASSUME NEW h \in Harts PROVE HartOK(h, hart[h], lock)
  BY <1>1, <1>4, <1>7 DEF HartOK, PlaceOK, Nested, Calls, UserSide, FromUser, Handler,
       Switching, InScheduler, Open, SysCall, HeldPcs, Spinning, TrapAssumption
<1>10. ASSUME NEW p \in Threads PROVE ContextOK(p, proc[p])
  BY <1>1, <1>5 DEF ContextOK, PlaceOK, Calls, InScheduler, Handler, SysCall, TrapAssumption
<1>11. Apart /\ Runs /\ Waits /\ Locked /\ Frames
  <2>1. Apart /\ Runs
    BY <1>4 DEF Apart, Runs
  <2>2. Waits /\ Locked
    BY <1>5, <1>6 DEF Waits, Locked
  <2>3. Frames
    BY <1>7 DEF Frames, FrameOK
  <2> QED  BY <2>1, <2>2, <2>3
<1>12. Nesting
  <2>1. ~Nested(Place("scheduler", "scheduler")) /\ ~Nested(Place("forkret", "usertrapret"))
    BY <1>1 DEF Nested, Handler
  <2> QED  BY <1>4, <1>5, <1>7, <2>1 DEF Nesting
<1> QED  BY <1>7, <1>8, <1>9, <1>10, <1>11, <1>12 DEF TrapInv

\* Each step keeps it.
LEMMA TrapStep ==
    ASSUME TrapAssumption, TrapInv, [TrapNext]_trapVars
    PROVE  TrapInv'
<1>1. CASE Device
  <2>1. UNCHANGED <<hart, proc, stack, lock, user, panic>> /\ irq' = "pending"
    BY <1>1 DEF Device
  <2>2. TrapType'
    BY <2>1 DEF TrapInv, TrapType
  <2>3. /\ \A h \in Harts : HartOK(h, hart'[h], lock')
        /\ \A p \in Threads : ContextOK(p, proc'[p])
    BY <2>1 DEF TrapInv
  <2>4. Apart' /\ Runs' /\ Waits'
    BY <2>1 DEF TrapInv, Apart, Runs, Waits
  <2>5. Locked' /\ Frames' /\ Nesting'
    BY <2>1 DEF TrapInv, Locked, Frames, Nesting
  <2> QED  BY <2>1, <2>2, <2>3, <2>4, <2>5 DEF TrapInv
<1>2. CASE UNCHANGED trapVars
  <2>1. UNCHANGED <<hart, proc, stack, lock, irq, user, panic>>
    BY <1>2 DEF trapVars
  <2>2. TrapType'
    BY <2>1 DEF TrapInv, TrapType
  <2>3. /\ \A h \in Harts : HartOK(h, hart'[h], lock')
        /\ \A p \in Threads : ContextOK(p, proc'[p])
    BY <2>1 DEF TrapInv
  <2>4. Apart' /\ Runs' /\ Waits'
    BY <2>1 DEF TrapInv, Apart, Runs, Waits
  <2>5. Locked' /\ Frames' /\ Nesting'
    BY <2>1 DEF TrapInv, Locked, Frames, Nesting
  <2> QED  BY <2>1, <2>2, <2>3, <2>4, <2>5 DEF TrapInv
<1>3. ASSUME NEW h \in Harts,
             \/ Ecall(h) \/ Interrupt(h) \/ timervec(h)
             \/ uservec(h) \/ usertrap(h) \/ usertrapret(h) \/ usertrapret_off(h) \/ userret(h)
      PROVE  TrapInv'
  BY <1>3, EcallStep, InterruptStep, TimervecStep, UservecStep, UsertrapStep, UsertrapretStep,
     UsertrapretOffStep, UserretStep
<1>4. ASSUME NEW h \in Harts,
             \/ kernelvec(h) \/ kerneltrap_end(h)
             \/ plic_claim(h) \/ acquire(h) \/ test_and_set(h) \/ release(h)
             \/ SysReturn(h) \/ SysSleep(h)
      PROVE  TrapInv'
  BY <1>4, KernelvecStep, KerneltrapEndStep, AcquireStep, TestAndSetStep, ReleaseStep,
     SysReturnStep, SysSleepStep
<1>5. ASSUME NEW h \in Harts,
             \/ yield(h) \/ swtched(h) \/ scheduler(h) \/ resume(h)
             \/ \E p \in Threads : pick(h, p)
      PROVE  TrapInv'
  BY <1>5, YieldStep, SwtchedStep, SchedulerStep, ResumeStep, PickStep
<1> QED  BY <1>1, <1>2, <1>3, <1>4, <1>5 DEF TrapNext

LEMMA TrapSafe == ASSUME TrapAssumption PROVE TrapSpec => []TrapInv
<1>1. TrapInit => TrapInv
  BY TrapInitOK
<1>2. TrapInv /\ [TrapNext]_trapVars => TrapInv'
  BY TrapStep
<1> QED  BY <1>1, <1>2, PTL DEF TrapSpec

\* A program finds its registers and its pc, a system call its own, wherever
\* they were interrupted, switched out and moved to.
THEOREM TrapRegistersKept == ASSUME TrapAssumption PROVE TrapSpec => []RegistersKept
<1>1. ASSUME TrapInv PROVE RegistersKept
  <2>1. SUFFICES ASSUME NEW h \in Harts
                 PROVE  /\ PcAt(h, "user") => /\ hart[h].regs = user[hart[h].proc].regs
                                              /\ hart[h].pc = user[hart[h].proc].pc
                                              /\ hart[h].satp = hart[h].proc
                        /\ hart[h].pc.at \in {"syscall", "syscall_held", "syscall_done"} =>
                               hart[h].regs = Kernel
    BY DEF RegistersKept
  <2>2. PICK r \in HartRec, p \in Threads \cup {Nobody}, s \in Harts \cup Threads : Facts(h, r, p, s)
    BY <1>1, HartFacts
  <2>3. r = hart[h] /\ p = r.proc /\ HartOK(h, r, lock)
    BY <2>2 DEF Facts
  <2>4. r.pc.at = "user" => p # Nobody /\ r.satp = p
    <3>1. r.pc.at = "user" => s \notin Harts
      BY <2>2 DEF Facts, HartOK, PlaceOK, InScheduler, Handler
    <3>2. p = Nobody => s \in Harts
      BY <2>2 DEF Facts, HartOK, PlaceOK
    <3> QED  BY <2>3, <3>1, <3>2 DEF HartOK, UserSide
  <2>5. r.pc.at = "user" => r.regs = user[p].regs /\ r.pc = user[p].pc
    BY <2>2, <2>4 DEF Facts, RunsOK, UserSide
  <2>6. r.pc.at \in {"syscall", "syscall_held", "syscall_done"} => r.regs = Kernel
    BY <2>3 DEF HartOK, Calls, SysCall
  <2> QED  BY <2>3, <2>4, <2>5, <2>6 DEF PcAt
<1> QED  BY <1>1, TrapSafe, PTL

\* No interrupt meets a lock, a wrong vector or a wrong tp; no two harts share
\* a process or a stack; and no check of the kernel fails.
THEOREM TrapTrapsSound == ASSUME TrapAssumption PROVE TrapSpec => []TrapsSound
<1>1. ASSUME TrapInv PROVE TrapsSafe
  <2>1. SUFFICES ASSUME NEW h \in Harts
                 PROVE  /\ hart[h].mode = "U" => hart[h].stvec = "uservec"
                        /\ hart[h].mode = "S" /\ hart[h].SIE =>
                               /\ hart[h].stvec = "kernelvec" /\ hart[h].noff = 0
                               /\ lock # h /\ \A p \in Threads : proc[p].lock # h
                        /\ hart[h].mode = "S" /\ ~PcAt(h, "uservec") => hart[h].tp = h
    BY DEF TrapsSafe
  <2>2. PICK r \in HartRec, p \in Threads \cup {Nobody}, s \in Harts \cup Threads : Facts(h, r, p, s)
    BY <1>1, HartFacts
  <2>3. r = hart[h] /\ p = r.proc /\ HartOK(h, r, lock)
    BY <2>2 DEF Facts
  <2>4. r.mode = "U" => r.stvec = "uservec"
    BY <2>3 DEF HartOK, FromUser, UserSide
  <2>5. r.mode = "S" /\ r.SIE => r.pc.at \in Open \ {"user"}
    BY <2>3 DEF HartOK
  <2>6. r.mode = "S" /\ r.SIE => r.stvec = "kernelvec" /\ r.noff = 0 /\ lock # h
    BY <2>3, <2>5 DEF HartOK, Open, FromUser, UserSide, Spinning, HeldPcs, Switching
  <2>7. ASSUME r.mode = "S", r.SIE, NEW q \in Threads, proc[q].lock = h PROVE FALSE
    <3>1. q = p
      BY <1>1, <2>3, <2>7 DEF TrapInv, Locked, TrapAssumption
    <3>2. RunsOK(h, r, proc[q], user[q])
      BY <2>2, <3>1 DEF Facts, TrapAssumption
    <3> QED  BY <2>5, <2>7, <3>2 DEF RunsOK, Switching, Open, TrapAssumption
  <2>8. r.mode = "S" /\ r.pc.at # "uservec" => r.tp = h
    BY <2>3 DEF HartOK, UserSide
  <2> QED  BY <2>3, <2>4, <2>6, <2>7, <2>8 DEF PcAt
<1>2. ASSUME TrapInv PROVE KernelSound
  <2>1. ASSUME NEW g \in Harts, NEW h \in Harts, g # h
        PROVE  hart[g].sp # hart[h].sp /\ (hart[g].proc # Nobody => hart[g].proc # hart[h].proc)
    <3>1. /\ HartOK(g, hart[g], lock) /\ HartOK(h, hart[h], lock)
          /\ hart[g] \in HartRec /\ hart[h] \in HartRec
      BY <1>2 DEF TrapInv, TrapType
    <3>2. hart[g].proc # Nobody => hart[g].proc # hart[h].proc
      BY <1>2, <2>1 DEF TrapInv, Apart
    <3>3. /\ hart[g].sp = (IF hart[g].proc = Nobody \/ hart[g].pc.at = "swtched" THEN g ELSE hart[g].proc)
          /\ hart[h].sp = (IF hart[h].proc = Nobody \/ hart[h].pc.at = "swtched" THEN h ELSE hart[h].proc)
          /\ hart[g].proc \in Threads \cup {Nobody} /\ hart[h].proc \in Threads \cup {Nobody}
      BY <3>1 DEF HartOK, HartRec
    <3> QED  BY <2>1, <3>2, <3>3 DEF TrapAssumption
  <2>2. \A s \in DOMAIN stack : Len(stack[s]) <= 1
    <3>1. SUFFICES ASSUME NEW s \in Harts \cup Threads PROVE Len(stack[s]) <= 1
      BY <1>2 DEF TrapInv, TrapType
    <3>2. stack[s] = <<>> \/ stack[s] = <<stack[s][1]>>
      BY <1>2 DEF TrapInv, TrapType
    <3>3. Len(<<>>) = 0 /\ Len(<<stack[s][1]>>) = 1
      OBVIOUS
    <3>4. Len(stack[s]) = 0 \/ Len(stack[s]) = 1
      BY <3>2, <3>3
    <3>5. PICK n \in {0, 1} : n = Len(stack[s])
      BY <3>4
    <3>6. n <= 1
      OBVIOUS
    <3> QED  BY ONLY <3>5, <3>6
  <2> QED  BY <1>2, <2>1, <2>2 DEF KernelSound, TrapInv
<1>3. TrapInv => TrapsSound
  BY <1>1, <1>2 DEF TrapsSound
<1> QED  BY <1>3, TrapSafe, PTL

(***************************************************************************)
(* The file table.  Two counts are exact only together with the calls in   *)
(* progress: f->ref with the references a call has in hand, and the        *)
(* references to inodes and the open ends of pipes with the copies of      *)
(* entries whose last fileclose() is halfway.  The invariant says where a  *)
(* call can be when it has something in hand, and that an entry in the     *)
(* making is known to nobody else.                                         *)
(***************************************************************************)

Labels == {"user", "embryo", "exit", "closing", "drop", "open", "open_fd", "pipe", "pipe_fds",
           "dup", "fork", "rw", "advance"}
Entry == [ref : Nat, type : {"FD_NONE", "FD_INODE", "FD_PIPE"},
          obj : Inodes \cup Pipes \cup {Nil}, writable : BOOLEAN, off : 0 .. MaxOff]
Call == [pc : Labels, f0 : 0 .. NFILE, f1 : 0 .. NFILE, hold : Inodes \cup {Nil}, ff : Entry,
         fd : Fds \cup {NoFd}, n : Int, child : Tasks \cup {Nil}, f : 0 .. NFILE,
         r : 0 .. MaxOff]

FileTypes ==
    /\ file \in [Files -> Entry]
    /\ ofile \in [Tasks -> [Fds -> 0 .. NFILE]]
    /\ live \subseteq Tasks
    /\ iref \in [Inodes -> Int]
    /\ ends \in [Pipes -> SUBSET {"read", "write"}]
    /\ locked \in [Inodes -> Tasks \cup {Nil}]
    /\ op \in [Tasks -> Call]
    /\ moved \in [Files -> [0 .. MaxOff - 1 -> Nat]]

\* What a call has in hand tells where it is, and the other way round.
ShapeOf(p) ==
    /\ op[p].f0 # 0 => op[p].pc \in {"closing", "open_fd", "pipe", "pipe_fds"}
    /\ op[p].f1 # 0 => op[p].pc \in {"closing", "drop", "pipe", "pipe_fds"}
    /\ op[p].hold # Nil => op[p].pc \in {"open", "open_fd", "closing", "drop"}
    /\ op[p].fd # NoFd => op[p].pc \in {"dup", "closing", "drop"}
    /\ op[p].pc = "open" => op[p].hold # Nil
    /\ op[p].pc = "open_fd" => op[p].f0 # 0 /\ op[p].hold # Nil
    /\ op[p].pc = "pipe" => (op[p].f1 # 0 => op[p].f0 # 0)
    /\ op[p].pc = "pipe_fds" => op[p].f0 # 0 /\ op[p].f1 # 0
    /\ op[p].pc = "dup" => op[p].fd # NoFd
Shape == \A p \in Tasks : ShapeOf(p)

\* A free slot has no descriptors.
Slots == \A p \in Tasks :
    p \notin live => /\ op[p].pc \in {"user", "embryo"}
                     /\ op[p].pc = "user" => \A fd \in Fds : ofile[p][fd] = 0

\* The child of a fork() in progress is nobody else's and has no descriptors
\* beyond those copied.
FileForks == \A p \in Tasks : op[p].pc = "fork" =>
    /\ op[p].child \in Tasks /\ op[op[p].child].pc = "embryo"
    /\ \A fd \in Fds : fd >= op[p].n => ofile[op[p].child][fd] = 0
    /\ \A q \in Tasks : op[q].pc = "fork" /\ op[q].child = op[p].child => q = p

\* dup() has entered the descriptor before it counts it: the file has another
\* descriptor of the same process.
DupOf(p) == op[p].pc = "dup" =>
    \E fd \in Fds : fd # op[p].fd /\ ofile[p][fd] = ofile[p][op[p].fd] /\ ofile[p][fd] # 0
Dups == \A p \in Tasks : DupOf(p)

\* An entry between filealloc() and fdalloc() is known to its call only.
FreshOf(p) == \A f \in Files : f \in InHand(p) =>
    /\ op[p].pc \in {"open_fd", "pipe"} => file[f].ref = 1 /\ file[f].type = "FD_NONE"
    /\ op[p].pc = "pipe_fds" => file[f].ref = 1
FreshEntries == \A p \in Tasks : FreshOf(p)

\* What the types of entries say of them.
Sound(ff) == /\ ff.type = "FD_INODE" => ff.obj \in Inodes
             /\ ff.type = "FD_PIPE" => ff.obj \in Pipes
Sorts == /\ \A f \in Files : Sound(file[f]) /\ (file[f].ref = 0 => file[f].type = "FD_NONE")
         /\ \A p \in Tasks : op[p].pc = "drop" => Sound(op[p].ff)

\* Every end of a pipe has one entry, or one fileclose() halfway.
Is(ff, i, w) == Standing(ff, i) /\ ff.writable = w
Dropping(p, i, w) == Doing(p, "drop") /\ Is(op[p].ff, i, w)
OneEnd == \A i \in Pipes : \A w \in BOOLEAN :
    /\ \A f, g \in Files : Is(file[f], i, w) /\ Is(file[g], i, w) => f = g
    /\ \A p, q \in Tasks : Dropping(p, i, w) /\ Dropping(q, i, w) => p = q
    /\ \A f \in Files : \A p \in Tasks : ~(Is(file[f], i, w) /\ Dropping(p, i, w))

\* Who has locked which inode.
InodeLocks == \A p \in Tasks :
    /\ op[p].hold # Nil => locked[op[p].hold] = p
    /\ op[p].pc = "advance" => locked[file[op[p].f].obj] = p

\* The entry that read() or write() uses stays open.
Using == \A p \in Tasks : op[p].pc \in {"rw", "advance"} =>
    /\ op[p].f \in Files /\ \E fd \in Fds : ofile[p][fd] = op[p].f
    /\ file[op[p].f].type = "FD_INODE"
    /\ op[p].pc = "advance" => file[op[p].f].off + op[p].r =< MaxOff

\* Beyond the offset nothing has been transferred but what a call is about to
\* account for.
Stream == \A f \in Files : \A b \in 0 .. MaxOff - 1 :
    /\ moved[f][b] =< 1
    /\ file[f].type = "FD_INODE" /\ b >= file[f].off /\ moved[f][b] > 0 =>
          \E p \in Tasks : op[p].pc = "advance" /\ op[p].f = f /\ b < file[f].off + op[p].r

Control == FileTypes /\ Shape /\ Slots /\ FileForks /\ Dups
Counts == RefsExact /\ FreshEntries /\ Sorts
Objects == ObjectsExact /\ OneEnd
Streams == InodeLocks /\ Using /\ Stream
FileInv == Control /\ Counts /\ Objects /\ Streams

-----------------------------------------------------------------------------
(* Counting *)

\* Two sets that agree but for one element.
LEMMA ChangeOne ==
    ASSUME NEW S, NEW T, NEW x, IsFiniteSet(S), \A y : y # x => (y \in S <=> y \in T)
    PROVE  /\ IsFiniteSet(T) /\ Cardinality(S) \in Nat /\ Cardinality(T) \in Nat
           /\ (x \in S <=> x \in T) => Cardinality(T) = Cardinality(S)
           /\ x \notin S /\ x \in T => Cardinality(T) = Cardinality(S) + 1
           /\ x \in S /\ x \notin T => Cardinality(T) = Cardinality(S) - 1
<1>1. CASE x \in S <=> x \in T
  <2>1. S = T
    BY <1>1
  <2> QED
    BY <1>1, <2>1, FS_CardinalityType
<1>2. CASE x \notin S /\ x \in T
  <2>1. T = S \cup {x}
    BY <1>2
  <2> QED
    BY <1>2, <2>1, FS_AddElement, FS_CardinalityType
<1>3. CASE x \in S /\ x \notin T
  <2>1. T = S \ {x}
    BY <1>3
  <2> QED
    BY <1>3, <2>1, FS_RemoveElement, FS_CardinalityType
<1> QED
  BY <1>1, <1>2, <1>3

\* The first free descriptor, the first free entry.
LEMMA MinIn ==
    ASSUME FileTableAssumption, NEW S, S # {}, S \subseteq Fds \/ S \subseteq Files
    PROVE  Min(S) \in S /\ \A m \in S : Min(S) =< m
<1>1. IsFiniteSet(Fds) /\ IsFiniteSet(Files)
  <2>1. 0 \in Int /\ 1 \in Int /\ NFILE \in Int /\ NOFILE - 1 \in Int
    BY DEF FileTableAssumption
  <2> QED
    BY <2>1, FS_Interval DEF Fds, Files
<1>2. IsFiniteSet(S)
  BY <1>1, FS_Subset
<1>3. S \in SUBSET Nat
  BY DEF Fds, Files, FileTableAssumption
<1>4. \E n \in S : \A m \in S : n =< m
  BY <1>2, <1>3, Least
<1> QED
  BY <1>4 DEF Min

F0(f) == {p \in Tasks : op[p].f0 = f}
F1(f) == {p \in Tasks : op[p].f1 = f}
Count(f) == Cardinality(Descriptors(f)) + Cardinality(F0(f)) + Cardinality(F1(f))

LEMMA CountFinite ==
    ASSUME FileTableAssumption, NEW f
    PROVE  /\ IsFiniteSet(Descriptors(f)) /\ IsFiniteSet(F0(f)) /\ IsFiniteSet(F1(f))
           /\ Cardinality(Descriptors(f)) \in Nat /\ Cardinality(F0(f)) \in Nat
           /\ Cardinality(F1(f)) \in Nat
<1>1. IsFiniteSet(Tasks) /\ IsFiniteSet(Fds)
  <2>1. 0 \in Int /\ NOFILE - 1 \in Int
    BY DEF FileTableAssumption
  <2> QED
    BY <2>1, FS_Interval DEF FileTableAssumption, Fds
<1>2. IsFiniteSet(Tasks \X Fds)
  BY <1>1, FS_Product
<1>3. IsFiniteSet(Descriptors(f)) /\ IsFiniteSet(F0(f)) /\ IsFiniteSet(F1(f))
  BY <1>1, <1>2, FS_Subset DEF Descriptors, F0, F1
<1> QED
  BY <1>3, FS_CardinalityType

LEMMA RefIsCount == RefsExact <=> \A f \in Files : file[f].ref = Count(f)
  BY DEF RefsExact, Count, F0, F1

\* A descriptor and a reference in hand are counted.
LEMMA Counted ==
    ASSUME FileTableAssumption, FileTypes, RefsExact, NEW f \in Files
    PROVE  /\ \A p \in Tasks : \A fd \in Fds :
                 ofile[p][fd] = f /\ op[p].fd # fd => file[f].ref >= 1
           /\ \A p \in Tasks : f \in InHand(p) => file[f].ref >= 1
           /\ \A p, q \in Tasks : \A fd \in Fds :
                 f \in InHand(q) /\ ofile[p][fd] = f /\ op[p].fd # fd => file[f].ref >= 2
           /\ \A p, q \in Tasks : f \in InHand(p) /\ f \in InHand(q) /\ p # q => file[f].ref >= 2
           /\ \A p \in Tasks : op[p].f0 = f /\ op[p].f1 = f => file[f].ref >= 2
<1> DEFINE D == Descriptors(f)
           A == F0(f)
           B == F1(f)
<1>1. /\ IsFiniteSet(D) /\ IsFiniteSet(A) /\ IsFiniteSet(B)
      /\ Cardinality(D) \in Nat /\ Cardinality(A) \in Nat /\ Cardinality(B) \in Nat
  BY CountFinite
<1>2. file[f].ref = Cardinality(D) + Cardinality(A) + Cardinality(B)
  BY RefIsCount DEF Count
<1>3. \A p \in Tasks : \A fd \in Fds :
        ofile[p][fd] = f /\ op[p].fd # fd => <<p, fd>> \in D
  BY DEF Descriptors
<1>4. /\ \A p \in Tasks : op[p].f0 = f <=> p \in A
      /\ \A p \in Tasks : op[p].f1 = f <=> p \in B
      /\ \A p \in Tasks : f \in InHand(p) => p \in A \/ p \in B
  BY DEF F0, F1, InHand
<1> HIDE DEF D, A, B
<1>5. /\ \A x : x \in D => Cardinality(D) >= 1
      /\ \A x : x \in A => Cardinality(A) >= 1
      /\ \A x : x \in B => Cardinality(B) >= 1
  BY <1>1, FS_EmptySet
<1>6. ASSUME NEW p, NEW q, p # q, p \in A, q \in A
      PROVE  Cardinality(A) >= 2
  <2>1. Cardinality(A \ {p}) = Cardinality(A) - 1 /\ IsFiniteSet(A \ {p})
    BY <1>1, <1>6, FS_RemoveElement
  <2>2. Cardinality(A \ {p}) # 0
    BY <1>6, <2>1, FS_EmptySet
  <2> QED
    BY <1>1, <1>5, <1>6, <2>1, <2>2
<1>7. ASSUME NEW p, NEW q, p # q, p \in B, q \in B
      PROVE  Cardinality(B) >= 2
  <2>1. Cardinality(B \ {p}) = Cardinality(B) - 1 /\ IsFiniteSet(B \ {p})
    BY <1>1, <1>7, FS_RemoveElement
  <2>2. Cardinality(B \ {p}) # 0
    BY <1>7, <2>1, FS_EmptySet
  <2> QED
    BY <1>1, <1>5, <1>7, <2>1, <2>2
<1>8. \A p \in Tasks : \A fd \in Fds :
        ofile[p][fd] = f /\ op[p].fd # fd => Cardinality(D) >= 1
  BY <1>3, <1>5
<1>9. \A p \in Tasks : f \in InHand(p) => Cardinality(A) + Cardinality(B) >= 1
  BY <1>1, <1>4, <1>5
<1>10. \A p, q \in Tasks : f \in InHand(p) /\ f \in InHand(q) /\ p # q =>
         Cardinality(A) + Cardinality(B) >= 2
  BY <1>1, <1>4, <1>5, <1>6, <1>7
<1>11. \A p \in Tasks : op[p].f0 = f /\ op[p].f1 = f => Cardinality(A) + Cardinality(B) >= 2
  BY <1>1, <1>4, <1>5
<1> QED
  BY <1>1, <1>2, <1>8, <1>9, <1>10, <1>11

\* How the number of references changes with one descriptor and the hand of
\* one process.
Has(q, fd, f) == ofile[q][fd] = f /\ op[q].fd # fd
LEMMA CountStep ==
    ASSUME FileTableAssumption, NEW f, NEW p \in Tasks, NEW q \in Tasks, NEW fd \in Fds,
           \A t \in Tasks : \A e \in Fds : t # q \/ e # fd => (Has(t, e, f)' <=> Has(t, e, f)),
           \A t \in Tasks : t # p => op'[t].f0 = op[t].f0 /\ op'[t].f1 = op[t].f1
    PROVE  \E d, d0, d1 \in Int :
             /\ Count(f)' = Count(f) + d + d0 + d1
             /\ (Has(q, fd, f)' <=> Has(q, fd, f)) => d = 0
             /\ Has(q, fd, f)' /\ ~Has(q, fd, f) => d = 1
             /\ ~Has(q, fd, f)' /\ Has(q, fd, f) => d = -1
             /\ (op'[p].f0 = f <=> op[p].f0 = f) => d0 = 0
             /\ op'[p].f0 = f /\ op[p].f0 # f => d0 = 1
             /\ op'[p].f0 # f /\ op[p].f0 = f => d0 = -1
             /\ (op'[p].f1 = f <=> op[p].f1 = f) => d1 = 0
             /\ op'[p].f1 = f /\ op[p].f1 # f => d1 = 1
             /\ op'[p].f1 # f /\ op[p].f1 = f => d1 = -1
<1> DEFINE D == Descriptors(f)
           A == F0(f)
           B == F1(f)
           x == <<q, fd>>
<1>1. /\ IsFiniteSet(D) /\ IsFiniteSet(A) /\ IsFiniteSet(B)
      /\ Cardinality(D) \in Nat /\ Cardinality(A) \in Nat /\ Cardinality(B) \in Nat
  BY CountFinite
<1>2. \A y : y # x => (y \in D <=> y \in D')
  BY DEF Descriptors, Has
<1>3. (x \in D <=> Has(q, fd, f)) /\ (x \in D' <=> Has(q, fd, f)')
  BY DEF Descriptors, Has
<1>4. \A y : y # p => (y \in A <=> y \in A') /\ (y \in B <=> y \in B')
  BY DEF F0, F1
<1>5. /\ p \in A <=> op[p].f0 = f
      /\ p \in A' <=> op'[p].f0 = f
      /\ p \in B <=> op[p].f1 = f
      /\ p \in B' <=> op'[p].f1 = f
  BY DEF F0, F1
<1>6. Count(f) = Cardinality(D) + Cardinality(A) + Cardinality(B)
  BY DEF Count
<1>7. Count(f)' = Cardinality(D') + Cardinality(A') + Cardinality(B')
  BY DEF Count
<1> HIDE DEF D, A, B, x
<1>8. /\ Cardinality(D') \in Nat
      /\ (x \in D <=> x \in D') => Cardinality(D') = Cardinality(D)
      /\ x \notin D /\ x \in D' => Cardinality(D') = Cardinality(D) + 1
      /\ x \in D /\ x \notin D' => Cardinality(D') = Cardinality(D) - 1
  BY <1>1, <1>2, ChangeOne
<1>9. /\ Cardinality(A') \in Nat
      /\ (p \in A <=> p \in A') => Cardinality(A') = Cardinality(A)
      /\ p \notin A /\ p \in A' => Cardinality(A') = Cardinality(A) + 1
      /\ p \in A /\ p \notin A' => Cardinality(A') = Cardinality(A) - 1
  BY <1>1, <1>4, ChangeOne
<1>10. /\ Cardinality(B') \in Nat
       /\ (p \in B <=> p \in B') => Cardinality(B') = Cardinality(B)
       /\ p \notin B /\ p \in B' => Cardinality(B') = Cardinality(B) + 1
       /\ p \in B /\ p \notin B' => Cardinality(B') = Cardinality(B) - 1
  BY <1>1, <1>4, ChangeOne
<1> WITNESS Cardinality(D') - Cardinality(D) \in Int,
            Cardinality(A') - Cardinality(A) \in Int,
            Cardinality(B') - Cardinality(B) \in Int
<1> QED
  BY <1>1, <1>3, <1>5, <1>6, <1>7, <1>8, <1>9, <1>10

\* The same for the references to an inode, with one entry and one process.
Entries(i) == {f \in Files : Standing(file[f], i)}
Holds(i) == {p \in Tasks : op[p].hold = i}
Drops(i) == {p \in Tasks : Doing(p, "drop") /\ Standing(op[p].ff, i)}
Uses(i) == Cardinality(Entries(i)) + Cardinality(Holds(i)) + Cardinality(Drops(i))

LEMMA UsesStep ==
    ASSUME FileTableAssumption, NEW i, NEW p \in Tasks, NEW g \in Files,
           \A f \in Files : f # g => (Standing(file[f], i)' <=> Standing(file[f], i)),
           \A t \in Tasks : t # p => /\ op'[t].hold = op[t].hold
                                     /\ t \in Drops(i)' <=> t \in Drops(i)
    PROVE  \E d, d0, d1 \in Int :
             /\ Uses(i)' = Uses(i) + d + d0 + d1
             /\ (Standing(file[g], i)' <=> Standing(file[g], i)) => d = 0
             /\ Standing(file[g], i)' /\ ~Standing(file[g], i) => d = 1
             /\ ~Standing(file[g], i)' /\ Standing(file[g], i) => d = -1
             /\ (op'[p].hold = i <=> op[p].hold = i) => d0 = 0
             /\ op'[p].hold = i /\ op[p].hold # i => d0 = 1
             /\ op'[p].hold # i /\ op[p].hold = i => d0 = -1
             /\ (p \in Drops(i)' <=> p \in Drops(i)) => d1 = 0
             /\ p \in Drops(i)' /\ p \notin Drops(i) => d1 = 1
             /\ p \notin Drops(i)' /\ p \in Drops(i) => d1 = -1
<1> DEFINE D == Entries(i)
           A == Holds(i)
           B == Drops(i)
<1>1. /\ IsFiniteSet(D) /\ IsFiniteSet(A) /\ IsFiniteSet(B)
      /\ Cardinality(D) \in Nat /\ Cardinality(A) \in Nat /\ Cardinality(B) \in Nat
  <2>1. IsFiniteSet(Tasks) /\ IsFiniteSet(Files)
    <3>1. 1 \in Int /\ NFILE \in Int
      BY DEF FileTableAssumption
    <3> QED
      BY <3>1, FS_Interval DEF FileTableAssumption, Files
  <2>2. IsFiniteSet(D) /\ IsFiniteSet(A) /\ IsFiniteSet(B)
    BY <2>1, FS_Subset DEF Entries, Holds, Drops
  <2> QED
    BY <2>2, FS_CardinalityType
<1>2. \A y : y # g => (y \in D <=> y \in D')
  BY DEF Entries
<1>3. (g \in D <=> Standing(file[g], i)) /\ (g \in D' <=> Standing(file[g], i)')
  BY DEF Entries
<1>4. \A y : y # p => (y \in A <=> y \in A') /\ (y \in B <=> y \in B')
  BY DEF Holds, Drops
<1>5. (p \in A <=> op[p].hold = i) /\ (p \in A' <=> op'[p].hold = i)
  BY DEF Holds
<1>6. Uses(i) = Cardinality(D) + Cardinality(A) + Cardinality(B)
  BY DEF Uses
<1>7. Uses(i)' = Cardinality(D') + Cardinality(A') + Cardinality(B')
  BY DEF Uses
<1>11. (p \in B <=> p \in Drops(i)) /\ (p \in B' <=> p \in Drops(i)')
  OBVIOUS
<1> HIDE DEF D, A, B
<1>8. /\ Cardinality(D') \in Nat
      /\ (g \in D <=> g \in D') => Cardinality(D') = Cardinality(D)
      /\ g \notin D /\ g \in D' => Cardinality(D') = Cardinality(D) + 1
      /\ g \in D /\ g \notin D' => Cardinality(D') = Cardinality(D) - 1
  BY <1>1, <1>2, ChangeOne
<1>9. /\ Cardinality(A') \in Nat
      /\ (p \in A <=> p \in A') => Cardinality(A') = Cardinality(A)
      /\ p \notin A /\ p \in A' => Cardinality(A') = Cardinality(A) + 1
      /\ p \in A /\ p \notin A' => Cardinality(A') = Cardinality(A) - 1
  BY <1>1, <1>4, ChangeOne
<1>10. /\ Cardinality(B') \in Nat
       /\ (p \in B <=> p \in B') => Cardinality(B') = Cardinality(B)
       /\ p \notin B /\ p \in B' => Cardinality(B') = Cardinality(B) + 1
       /\ p \in B /\ p \notin B' => Cardinality(B') = Cardinality(B) - 1
  BY <1>1, <1>4, ChangeOne
<1> WITNESS Cardinality(D') - Cardinality(D) \in Int,
            Cardinality(A') - Cardinality(A) \in Int,
            Cardinality(B') - Cardinality(B) \in Int
<1> QED
  BY <1>1, <1>3, <1>5, <1>6, <1>7, <1>8, <1>9, <1>10, <1>11

-----------------------------------------------------------------------------
(* What a step leaves alone *)

\* A process that is not in a call.
Quiet(p) == /\ op[p].pc \in {"user", "embryo"} /\ op[p].hold = Nil
            /\ op[p].f0 = 0 /\ op[p].f1 = 0 /\ op[p].fd = NoFd
\* A step of p leaves the calls of the others alone.
Only(p) == op' \in [Tasks -> Call] /\ \A q \in Tasks : q # p => op'[q] = op[q]
Others(p) == /\ op' \in [Tasks -> Call]
             /\ \A q \in Tasks : q # p => op'[q] = op[q] \/ (Quiet(q) /\ Quiet(q)')

LEMMA OnlyOthers == \A p : Only(p) => Others(p)
  BY DEF Only, Others

LEMMA SetFacts ==
    ASSUME FileTypes, NEW p \in Tasks, NEW R \in Call, op' = [op EXCEPT ![p] = R]
    PROVE  Only(p) /\ op'[p] = R
  BY DEF FileTypes, Only

LEMMA ControlKept ==
    ASSUME FileTableAssumption, Control, NEW p \in Tasks, Only(p), FileTypes', live' = live,
           op[p].pc \notin {"fork", "embryo"}, op'[p].pc \notin {"fork", "embryo"},
           op[p].pc = "user" => p \in live,
           \A q \in Tasks : q # p => ofile'[q] = ofile[q],
           ShapeOf(p)', DupOf(p)'
    PROVE  Control'
<1> USE DEF Control
<1>1. Shape'
  BY DEF Only, Shape, ShapeOf
<1>2. p \in live
  BY DEF Slots
<1>3. Slots'
  BY <1>2 DEF Slots, Only
<1>4. FileForks'
  <2> SUFFICES ASSUME NEW q \in Tasks, op'[q].pc = "fork"
               PROVE  /\ op'[q].child \in Tasks /\ op'[op'[q].child].pc = "embryo"
                      /\ \A fd \in Fds : fd >= op'[q].n => ofile'[op'[q].child][fd] = 0
                      /\ \A t \in Tasks : op'[t].pc = "fork" /\ op'[t].child = op'[q].child => t = q
    BY DEF FileForks
  <2>1. q # p /\ op'[q] = op[q]
    BY DEF Only
  <2>2. op[q].child \in Tasks /\ op[op[q].child].pc = "embryo" /\ op[q].child # p
    BY <2>1 DEF FileForks
  <2>3. op'[op[q].child] = op[op[q].child] /\ ofile'[op[q].child] = ofile[op[q].child]
    BY <2>2 DEF Only
  <2>4. \A t \in Tasks : op'[t].pc = "fork" => t # p /\ op'[t] = op[t]
    BY DEF Only
  <2> QED
    BY <2>1, <2>2, <2>3, <2>4 DEF FileForks
<1>5. Dups'
  BY DEF Dups, DupOf, Only
<1> QED
  BY <1>1, <1>3, <1>4, <1>5

\* The count of an entry changes with the calls of p and one descriptor.
LEMMA FreshKept ==
    ASSUME FileTableAssumption, FileInv, NEW p \in Tasks, Others(p), FreshOf(p)',
           \A f \in Files : \/ file'[f].ref = file[f].ref /\ file'[f].type = file[f].type
                            \/ file[f].ref # 1
                            \/ f \in InHand(p)
                            \/ \E t \in Tasks : \E e \in Fds : Has(t, e, f)
    PROVE  FreshEntries'
<1> SUFFICES ASSUME NEW q \in Tasks, q # p
             PROVE  FreshOf(q)'
  BY DEF FreshEntries
<1>1. CASE Quiet(q)'
  BY <1>1 DEF Quiet, FreshOf, InHand
<1>2. CASE op'[q] = op[q]
  <2> SUFFICES ASSUME NEW f \in Files, f \in InHand(q),
                      op[q].pc \in {"open_fd", "pipe", "pipe_fds"}
               PROVE  file'[f].ref = file[f].ref /\ file'[f].type = file[f].type
    BY <1>2 DEF FreshOf, FreshEntries, InHand, FileInv, Counts
  <2>1. file[f].ref = 1
    BY DEF FileInv, Counts, FreshEntries, FreshOf
  <2>2. f \notin InHand(p) /\ ~\E t \in Tasks : \E e \in Fds : Has(t, e, f)
    BY <2>1, Counted DEF FileInv, Counts, Control, Has
  <2> QED
    BY <2>1, <2>2
<1> QED
  BY <1>1, <1>2 DEF Others

\* Entries that stay open, or free, stay sound.
LEMMA SortsKept ==
    ASSUME FileInv, NEW p \in Tasks, Others(p), op'[p].pc # "drop",
           \A f \in Files :
             \/ /\ file'[f].type = file[f].type /\ file'[f].obj = file[f].obj
                /\ file'[f].ref = 0 => file[f].ref = 0
             \/ file'[f].type = "FD_NONE"
    PROVE  Sorts'
  BY DEF FileInv, Counts, Sorts, Sound, Others, Quiet

\* ObjectsExact in these words.
Balance ==
    /\ \A i \in Inodes : iref[i] = Uses(i)
    /\ \A i \in Pipes : \A w \in BOOLEAN :
          ((IF w THEN "write" ELSE "read") \in ends[i]) <=>
             \/ \E f \in Files : Is(file[f], i, w)
             \/ \E p \in Tasks : Dropping(p, i, w)
LEMMA ObjectsAre == ObjectsExact <=> Balance
  BY DEF ObjectsExact, Balance, Uses, Entries, Holds, Drops, Is, Dropping
LEMMA ObjectsWillBe == ObjectsExact' <=> Balance'
  BY ObjectsAre, PTL

LEMMA ObjectsKept ==
    ASSUME FileTableAssumption, FileInv, NEW p \in Tasks, Others(p),
           op'[p].hold = op[p].hold, op[p].pc # "drop", op'[p].pc # "drop",
           \A f \in Files :
             \/ /\ file'[f].type = file[f].type /\ file'[f].obj = file[f].obj
                /\ file'[f].writable = file[f].writable
             \/ file[f].type = "FD_NONE" /\ file'[f].type = "FD_NONE",
           iref' = iref, ends' = ends
    PROVE  Objects'
<1>1. \A f \in Files : \A i, w : /\ Standing(file[f], i)' <=> Standing(file[f], i)
                                 /\ Is(file[f], i, w)' <=> Is(file[f], i, w)
  BY DEF Standing, Is
<1>2. \A q \in Tasks : \A i, w : /\ Dropping(q, i, w)' <=> Dropping(q, i, w)
                                 /\ q \in Drops(i)' <=> q \in Drops(i)
                                 /\ op'[q].hold = op[q].hold
  BY DEF Others, Quiet, Dropping, Drops, Doing
<1>3. \A i : Entries(i)' = Entries(i) /\ Holds(i)' = Holds(i) /\ Drops(i)' = Drops(i)
  BY <1>1, <1>2 DEF Entries, Holds, Drops
<1>4. \A i : Uses(i)' = Uses(i)
  BY <1>3 DEF Uses
<1>5. Balance'
  BY <1>1, <1>2, <1>4, ObjectsAre DEF FileInv, Objects, Balance
<1>6. OneEnd'
  BY <1>1, <1>2 DEF FileInv, Objects, OneEnd
<1> QED
  BY <1>5, <1>6, ObjectsWillBe DEF Objects

\* A step that neither begins nor ends a transfer and opens no inode.
Moving == {"rw", "advance"}
LEMMA StreamsKept ==
    ASSUME FileTableAssumption, FileInv, NEW p \in Tasks, Others(p), FileTypes',
           op[p].pc \notin Moving, op'[p].pc \notin Moving, moved' = moved,
           op'[p].hold # Nil => locked'[op'[p].hold] = p,
           \A i \in Inodes : locked[i] \in Tasks /\ locked[i] # p => locked'[i] = locked[i],
           \A f \in Files : file'[f].type = "FD_INODE" =>
               /\ file[f].type = "FD_INODE"
               /\ file'[f].obj = file[f].obj /\ file'[f].off = file[f].off,
           \A q \in Tasks : op[q].pc \in Moving =>
               ofile'[q] = ofile[q] /\ file'[op[q].f].type = "FD_INODE"
    PROVE  Streams'
<1> USE DEF FileInv, Streams
<1>1. \A q \in Tasks : op'[q].pc \in Moving => q # p /\ op'[q] = op[q]
  BY DEF Others, Quiet, Moving
<1>2. \A q \in Tasks : op[q].pc \in Moving => q # p /\ op'[q] = op[q]
  BY DEF Others, Quiet, Moving
<1>3. \A q \in Tasks : op[q].pc \in Moving =>
        /\ op[q].f \in Files /\ file'[op[q].f].type = "FD_INODE"
        /\ file'[op[q].f].obj = file[op[q].f].obj /\ file'[op[q].f].off = file[op[q].f].off
        /\ file[op[q].f].obj \in Inodes
  BY DEF Using, Moving, Counts, Sorts, Sound
<1>4. InodeLocks'
  <2> SUFFICES ASSUME NEW q \in Tasks, q # p
               PROVE  /\ op'[q].hold # Nil => locked'[op'[q].hold] = q
                      /\ op'[q].pc = "advance" => locked'[file'[op'[q].f].obj] = q
    BY DEF InodeLocks, Moving
  <2>1. op'[q].hold # Nil => locked'[op'[q].hold] = q
    BY DEF Others, Quiet, InodeLocks, Control, FileTypes, Call
  <2>2. op'[q].pc = "advance" => locked'[file'[op'[q].f].obj] = q
    BY <1>1, <1>3 DEF InodeLocks, Moving
  <2> QED
    BY <2>1, <2>2
<1>5. Using'
  BY <1>1, <1>3 DEF Using, Moving
<1>6. Stream'
  <2> SUFFICES ASSUME NEW f \in Files, NEW b \in 0 .. MaxOff - 1
               PROVE  /\ moved[f][b] =< 1
                      /\ file'[f].type = "FD_INODE" /\ b >= file'[f].off /\ moved[f][b] > 0 =>
                           \E q \in Tasks : /\ op'[q].pc = "advance" /\ op'[q].f = f
                                            /\ b < file'[f].off + op'[q].r
    BY DEF Stream
  <2>1. moved[f][b] =< 1
    BY DEF Stream
  <2>2. ASSUME file'[f].type = "FD_INODE", b >= file'[f].off, moved[f][b] > 0
        PROVE  \E q \in Tasks : /\ op'[q].pc = "advance" /\ op'[q].f = f
                                /\ b < file'[f].off + op'[q].r
    <3>1. file[f].type = "FD_INODE" /\ file'[f].off = file[f].off
      BY <2>2
    <3>2. PICK q \in Tasks : op[q].pc = "advance" /\ op[q].f = f /\ b < file[f].off + op[q].r
      BY <2>2, <3>1 DEF Stream
    <3>3. op'[q] = op[q]
      BY <1>2, <3>2 DEF Moving
    <3> QED
      BY <3>1, <3>2, <3>3
  <2> QED
    BY <2>1, <2>2
<1> QED
  BY <1>4, <1>5, <1>6

LEMMA RefsAre ==
    ASSUME \A f \in Files : file'[f].ref = Count(f)'
    PROVE  RefsExact'
  BY DEF RefsExact, Count, F0, F1

-----------------------------------------------------------------------------
(* The steps *)

\* A call that only goes on.
LEMMA GoFacts ==
    ASSUME FileTypes, NEW p \in Tasks, NEW x \in Labels, Go(p, x)
    PROVE  /\ Only(p) /\ op'[p].pc = x /\ op'[p].f0 = op[p].f0 /\ op'[p].f1 = op[p].f1
           /\ op'[p].hold = op[p].hold /\ op'[p].fd = op[p].fd /\ op'[p].ff = op[p].ff
<1> DEFINE R == [op[p] EXCEPT !.pc = x]
<1>1. op[p] \in Call
  BY DEF FileTypes
<1>2. /\ R \in Call /\ R.pc = x /\ R.f0 = op[p].f0 /\ R.f1 = op[p].f1
      /\ R.hold = op[p].hold /\ R.fd = op[p].fd /\ R.ff = op[p].ff
  BY <1>1 DEF Call
<1>3. op' = [op EXCEPT ![p] = R]
  BY DEF Go
<1> HIDE DEF R
<1> QED
  BY <1>2, <1>3, SetFacts

\* A step of a call that changes counts and descriptors only.
Special == {"fork", "embryo", "drop", "rw", "advance"}
LEMMA RegularInv ==
    ASSUME FileTableAssumption, FileInv, NEW p \in Tasks, Only(p), FileTypes',
           ShapeOf(p)', DupOf(p)', FreshOf(p)',
           op[p].pc \notin Special, op'[p].pc \notin Special, op[p].pc = "user" => p \in live,
           op'[p].hold = op[p].hold, \A q \in Tasks : q # p => ofile'[q] = ofile[q],
           \A f \in Files :
             /\ file'[f].type = file[f].type /\ file'[f].obj = file[f].obj
             /\ file'[f].writable = file[f].writable /\ file'[f].off = file[f].off
             /\ file'[f].ref = 0 => file[f].ref = 0
             /\ \/ file'[f].ref = file[f].ref \/ file[f].ref # 1 \/ f \in InHand(p)
                \/ \E t \in Tasks : \E e \in Fds : Has(t, e, f)
             /\ file'[f].ref = Count(f)',
           UNCHANGED <<live, iref, ends, locked, moved>>
    PROVE  FileInv'
<1> USE DEF FileInv, Special
<1>1. Others(p)
  BY OnlyOthers
<1>2. Control'
  BY ControlKept
<1>3. Counts'
  <2>1. RefsExact'
    BY RefsAre
  <2>2. FreshEntries'
    BY <1>1, FreshKept
  <2>3. Sorts'
    BY <1>1, SortsKept
  <2> QED
    BY <2>1, <2>2, <2>3 DEF Counts
<1>4. Objects'
  BY <1>1, ObjectsKept
<1>5. Streams'
  <2>1. \A q \in Tasks : op[q].pc \in Moving =>
          ofile'[q] = ofile[q] /\ op[q].f \in Files /\ file[op[q].f].type = "FD_INODE"
    BY DEF Streams, Using, Moving
  <2>2. op'[p].hold # Nil => locked'[op'[p].hold] = p
    BY DEF Streams, InodeLocks
  <2> QED
    BY <1>1, <2>1, <2>2, StreamsKept DEF Moving
<1> QED
  BY <1>2, <1>3, <1>4, <1>5

\* Steps that only go on to another place in the call, failures above all.
Turns == {<<"open", "closing">>, <<"open_fd", "closing">>, <<"pipe", "closing">>,
          <<"pipe_fds", "closing">>, <<"user", "pipe">>, <<"user", "exit">>}
LEMMA GoInv ==
    ASSUME FileTableAssumption, FileInv, NEW p \in Tasks, NEW x, Go(p, x),
           <<op[p].pc, x>> \in Turns, op[p].pc = "user" => p \in live,
           UNCHANGED <<file, ofile, live, iref, ends, locked, moved>>
    PROVE  FileInv'
<1> USE DEF FileInv
<1>1. /\ Only(p) /\ op'[p].pc = x /\ op'[p].f0 = op[p].f0 /\ op'[p].f1 = op[p].f1
      /\ op'[p].hold = op[p].hold /\ op'[p].fd = op[p].fd /\ op'[p].ff = op[p].ff
  BY GoFacts DEF Control, Labels, Turns
<1>2. op[p].pc \notin Special \cup {"dup"} /\ x \notin Special
  BY DEF Turns, Special
<1>3. FileTypes'
  BY <1>1 DEF Control, FileTypes, Only
<1>4. ShapeOf(p) /\ FreshOf(p)
  BY DEF Control, Shape, Counts, FreshEntries
<1>5. ShapeOf(p)' /\ DupOf(p)' /\ FreshOf(p)'
  BY <1>1, <1>4 DEF ShapeOf, DupOf, FreshOf, InHand, Turns
<1>6. \A f \in Files : Count(f)' = Count(f)
  BY <1>1 DEF Count, Descriptors, F0, F1, Only
<1> QED
  BY <1>1, <1>2, <1>3, <1>5, <1>6, RefIsCount, RegularInv DEF Counts

\* A process that begins a call has nothing in hand.
LEMMA ReadyFacts ==
    ASSUME Control, NEW p \in Tasks, Ready(p)
    PROVE  Quiet(p) /\ p \in live /\ op[p].pc = "user" /\ InHand(p) = {}
  BY DEF Ready, Doing, Quiet, Control, Shape, ShapeOf, InHand

LEMMA IdleFacts ==
    ASSUME FileTableAssumption
    PROVE  /\ Closed \in Entry /\ Idle \in Call
           /\ Idle.pc = "user" /\ Idle.f0 = 0 /\ Idle.f1 = 0 /\ Idle.hold = Nil
           /\ Idle.fd = NoFd /\ Idle.ff = Closed
  BY DEF FileTableAssumption, Idle, Closed, Entry, Call, Labels

\* A call that is over.
LEMMA IdleStep ==
    ASSUME FileTableAssumption, FileTypes, NEW p \in Tasks, op' = [op EXCEPT ![p] = Idle]
    PROVE  Only(p) /\ op'[p] = Idle /\ Quiet(p)' /\ ShapeOf(p)' /\ DupOf(p)'
<1>1. Only(p) /\ op'[p] = Idle
  BY IdleFacts, SetFacts
<1> QED
  BY <1>1, IdleFacts DEF Quiet, ShapeOf, DupOf

LEMMA SysCloseInv ==
    ASSUME FileTableAssumption, FileInv, NEW p \in Tasks, NEW fd \in Fds, SysClose(p, fd)
    PROVE  FileInv'
<1> USE DEF FileInv
<1> DEFINE g == ofile[p][fd]
           R == [Idle EXCEPT !.pc = "closing", !.f0 = g]
<1>0. /\ Ready(p) /\ g # 0 /\ ofile' = [ofile EXCEPT ![p][fd] = 0] /\ op' = [op EXCEPT ![p] = R]
      /\ UNCHANGED <<file, live, iref, ends, locked, moved>>
  BY DEF SysClose, Argfd
<1>1. Quiet(p) /\ p \in live /\ op[p].pc = "user" /\ InHand(p) = {}
  BY <1>0, ReadyFacts
<1>2. g \in Files
  BY <1>0 DEF Control, FileTypes, Files, FileTableAssumption
<1>3. /\ R \in Call /\ R.pc = "closing" /\ R.f0 = g /\ R.f1 = 0 /\ R.hold = Nil /\ R.fd = NoFd
  <2> HIDE DEF g
  <2>1. g \in 0 .. NFILE
    BY <1>2 DEF Files, FileTableAssumption
  <2> QED
    BY <2>1, IdleFacts DEF Call, Labels
<1> HIDE DEF R
<1>4. Only(p) /\ op'[p] = R
  BY <1>0, <1>3, SetFacts DEF Control
<1>5. /\ \A t \in Tasks : \A e \in Fds : t # p \/ e # fd => ofile'[t][e] = ofile[t][e]
      /\ \A t \in Tasks : t # p => ofile'[t] = ofile[t]
      /\ ofile'[p][fd] = 0 /\ ofile' \in [Tasks -> [Fds -> 0 .. NFILE]]
  BY <1>0 DEF Control, FileTypes, FileTableAssumption
<1> HIDE DEF g
<1>6. FileTypes' /\ ShapeOf(p)' /\ DupOf(p)' /\ FreshOf(p)'
  <2>1. FileTypes'
    BY <1>0, <1>4, <1>5 DEF Control, FileTypes, Only
  <2> QED
    BY <1>3, <1>4, <2>1 DEF ShapeOf, DupOf, FreshOf
<1>7. ASSUME NEW f \in Files
      PROVE  file'[f].ref = Count(f)'
  <2>1. \A t \in Tasks : \A e \in Fds : t # p \/ e # fd => (Has(t, e, f)' <=> Has(t, e, f))
    BY <1>1, <1>3, <1>4, <1>5 DEF Has, Only, Quiet, Fds, NoFd
  <2>2. /\ Has(p, fd, f) <=> g = f
        /\ ~Has(p, fd, f)'
    BY <1>1, <1>2, <1>5 DEF Has, Quiet, g, Fds, NoFd, Files
  <2>3. \A t \in Tasks : t # p => op'[t].f0 = op[t].f0 /\ op'[t].f1 = op[t].f1
    BY <1>4 DEF Only
  <2>4. op[p].f0 # f /\ op[p].f1 # f /\ op'[p].f1 # f /\ (op'[p].f0 = f <=> g = f)
    BY <1>1, <1>3, <1>4 DEF Quiet, Files
  <2>5. file[f].ref = Count(f) /\ file' = file /\ Count(f) \in Int
    BY <1>0, RefIsCount, CountFinite DEF Counts, Count
  <2> QED
    BY <2>1, <2>2, <2>3, <2>4, <2>5, CountStep
<1> QED
  BY <1>0, <1>1, <1>3, <1>4, <1>5, <1>6, <1>7, RegularInv DEF Special, Quiet

\* filealloc() in open() and pipealloc().
LEMMA AllocInv ==
    ASSUME FileTableAssumption, FileInv, NEW p \in Tasks, NEW g \in FreeFiles, Filealloc(g),
           Only(p), ShapeOf(p)', op[p].pc \in {"open", "pipe"}, op'[p].pc \in {"open_fd", "pipe"},
           op'[p].hold = op[p].hold, op'[p].fd = op[p].fd,
           \/ op[p].f0 = 0 /\ op'[p].f0 = g /\ op'[p].f1 = op[p].f1
           \/ op[p].f1 = 0 /\ op'[p].f1 = g /\ op'[p].f0 = op[p].f0,
           UNCHANGED <<ofile, live, iref, ends, locked, moved>>
    PROVE  FileInv'
<1> USE DEF FileInv
<1>1. g \in Files /\ file[g].ref = 0 /\ file[g].type = "FD_NONE"
  BY DEF FreeFiles, Counts, Sorts
<1>2. /\ file' \in [Files -> Entry] /\ file'[g].ref = 1
      /\ \A f \in Files : f # g => file'[f] = file[f]
      /\ \A f \in Files : /\ file'[f].type = file[f].type /\ file'[f].obj = file[f].obj
                          /\ file'[f].writable = file[f].writable /\ file'[f].off = file[f].off
  BY <1>1 DEF Filealloc, Control, FileTypes, Entry
<1>3. FileTypes' /\ DupOf(p)'
  BY <1>2 DEF Control, FileTypes, Only, DupOf
<1>4. FreshOf(p)'
  <2>1. \A f \in Files : f \in InHand(p) /\ op[p].pc = "pipe" => file[f].ref = 1 /\ file[f].type = "FD_NONE"
    BY DEF Counts, FreshEntries, FreshOf
  <2>2. op[p].pc = "open" => op[p].f0 = 0 /\ op[p].f1 = 0
    BY DEF Control, Shape, ShapeOf
  <2>3. \A f \in Files : f \in InHand(p)' => f = g \/ f \in InHand(p)
    BY DEF InHand
  <2> QED
    BY <1>1, <1>2, <2>1, <2>2, <2>3 DEF FreshOf, InHand
<1>5. ASSUME NEW f \in Files
      PROVE  file'[f].ref = Count(f)'
  <2>0. PICK fd \in Fds : TRUE
    BY DEF Fds, FileTableAssumption
  <2>1. \A t \in Tasks : \A e \in Fds : Has(t, e, f)' <=> Has(t, e, f)
    BY DEF Has, Only
  <2>2. \A t \in Tasks : t # p => op'[t].f0 = op[t].f0 /\ op'[t].f1 = op[t].f1
    BY DEF Only
  <2>3. file[f].ref = Count(f) /\ Count(f) \in Int /\ f # 0
    BY RefIsCount, CountFinite DEF Counts, Count, Files
  <2>4. f = g => file'[f].ref = file[f].ref + 1
    BY <1>1, <1>2
  <2>5. f # g => file'[f].ref = file[f].ref
    BY <1>2
  <2>6. PICK d, d0, d1 \in Int :
           /\ Count(f)' = Count(f) + d + d0 + d1
           /\ d = 0
           /\ (op'[p].f0 = f <=> op[p].f0 = f) => d0 = 0
           /\ op'[p].f0 = f /\ op[p].f0 # f => d0 = 1
           /\ op'[p].f0 # f /\ op[p].f0 = f => d0 = -1
           /\ (op'[p].f1 = f <=> op[p].f1 = f) => d1 = 0
           /\ op'[p].f1 = f /\ op[p].f1 # f => d1 = 1
           /\ op'[p].f1 # f /\ op[p].f1 = f => d1 = -1
    BY <2>1, <2>2, CountStep
  <2>7. d0 + d1 = IF f = g THEN 1 ELSE 0
    BY <2>3, <2>6
  <2>8. Count(f)' = Count(f) + (d0 + d1)
    BY <2>3, <2>6
  <2>9. CASE f = g
    BY <2>3, <2>4, <2>7, <2>8, <2>9
  <2>10. CASE f # g
    BY <2>3, <2>5, <2>7, <2>8, <2>10
  <2> QED
    BY <2>9, <2>10
<1> QED
  BY <1>1, <1>2, <1>3, <1>4, <1>5, RegularInv DEF Special

LEMMA OpenFileInv ==
    ASSUME FileTableAssumption, FileInv, NEW p \in Tasks, OpenFile(p)
    PROVE  FileInv'
<1>1. op[p].pc = "open" /\ UNCHANGED <<ofile, live, iref, ends, locked, moved>>
  BY DEF OpenFile, Doing
<1>2. CASE FreeFiles = {}
  BY <1>1, <1>2, GoInv DEF OpenFile, Turns
<1>3. CASE FreeFiles # {}
  <2>1. PICK g \in FreeFiles : g = Min(FreeFiles)
    BY <1>3, MinIn DEF FreeFiles
  <2> DEFINE R == [op[p] EXCEPT !.pc = "open_fd", !.f0 = g]
  <2>2. op' = [op EXCEPT ![p] = R] /\ Filealloc(g)
    BY <1>3, <2>1 DEF OpenFile
  <2>3. op[p] \in Call /\ ShapeOf(p) /\ g \in Files
    BY DEF FileInv, Control, FileTypes, Shape, FreeFiles
  <2>4. /\ R \in Call /\ R.pc = "open_fd" /\ R.f0 = g /\ R.f1 = op[p].f1
        /\ R.hold = op[p].hold /\ R.fd = op[p].fd
    <3>1. g \in 0 .. NFILE /\ "open_fd" \in Labels
      BY <2>3 DEF Labels, Files, FileTableAssumption
    <3>2. PICK c \in Call : c = op[p]
      BY <2>3
    <3>3. R = [c EXCEPT !.pc = "open_fd", !.f0 = g]
      BY <3>2
    <3> HIDE DEF R
    <3> QED
      BY <3>1, <3>2, <3>3 DEF Call
  <2> HIDE DEF R
  <2>5. Only(p) /\ op'[p] = R
    BY <2>2, <2>4, SetFacts DEF FileInv, Control
  <2>6. ShapeOf(p)' /\ op[p].f0 = 0
    BY <1>1, <2>3, <2>4, <2>5 DEF ShapeOf, Files
  <2> QED
    BY <1>1, <2>2, <2>4, <2>5, <2>6, AllocInv
<1> QED
  BY <1>2, <1>3

LEMMA PipeFileInv ==
    ASSUME FileTableAssumption, FileInv, NEW p \in Tasks, PipeFile(p)
    PROVE  FileInv'
<1>1. op[p].pc = "pipe" /\ op[p].f1 = 0 /\ UNCHANGED <<ofile, live, iref, ends, locked, moved>>
  BY DEF PipeFile, Doing
<1>2. CASE FreeFiles = {}
  BY <1>1, <1>2, GoInv DEF PipeFile, Turns
<1>3. CASE FreeFiles # {}
  <2>1. PICK g \in FreeFiles : g = Min(FreeFiles)
    BY <1>3, MinIn DEF FreeFiles
  <2>2. Filealloc(g)
    BY <1>3, <2>1 DEF PipeFile
  <2>3. op[p] \in Call /\ ShapeOf(p) /\ g \in Files
    BY DEF FileInv, Control, FileTypes, Shape, FreeFiles
  <2>4. CASE op[p].f0 = 0
    <3> DEFINE R == [op[p] EXCEPT !.f0 = g]
    <3>1. op' = [op EXCEPT ![p] = R]
      BY <1>3, <2>1, <2>4 DEF PipeFile, FileInv, Control, FileTypes
    <3>2. /\ R \in Call /\ R.pc = op[p].pc /\ R.f0 = g /\ R.f1 = op[p].f1
          /\ R.hold = op[p].hold /\ R.fd = op[p].fd
      BY <2>3 DEF Call, Files, FileTableAssumption
    <3> HIDE DEF R
    <3>3. Only(p) /\ op'[p] = R
      BY <3>1, <3>2, SetFacts DEF FileInv, Control
    <3>4. ShapeOf(p)'
      BY <1>1, <2>3, <3>2, <3>3 DEF ShapeOf
    <3> QED
      BY <1>1, <2>2, <2>4, <3>2, <3>3, <3>4, AllocInv
  <2>5. CASE op[p].f0 # 0
    <3> DEFINE R == [op[p] EXCEPT !.f1 = g]
    <3>1. op' = [op EXCEPT ![p] = R]
      BY <1>3, <2>1, <2>5 DEF PipeFile, FileInv, Control, FileTypes
    <3>2. /\ R \in Call /\ R.pc = op[p].pc /\ R.f1 = g /\ R.f0 = op[p].f0
          /\ R.hold = op[p].hold /\ R.fd = op[p].fd
      BY <2>3 DEF Call, Files, FileTableAssumption
    <3> HIDE DEF R
    <3>3. Only(p) /\ op'[p] = R
      BY <3>1, <3>2, SetFacts DEF FileInv, Control
    <3>4. ShapeOf(p)'
      BY <1>1, <2>3, <2>5, <3>2, <3>3 DEF ShapeOf
    <3> QED
      BY <1>1, <2>2, <3>2, <3>3, <3>4, AllocInv
  <2> QED
    BY <2>4, <2>5
<1> QED
  BY <1>2, <1>3

LEMMA SysDupInv ==
    ASSUME FileTableAssumption, FileInv, NEW p \in Tasks, NEW fd \in Fds, SysDup(p, fd)
    PROVE  FileInv'
<1> USE DEF FileInv
<1>1. Quiet(p) /\ p \in live /\ op[p].pc = "user" /\ InHand(p) = {}
  BY ReadyFacts DEF SysDup
<1>2. PICK e \in Fds : e = Min(FreeFds(p)) /\ ofile[p][e] = 0
  <2>1. FreeFds(p) # {} /\ FreeFds(p) \subseteq Fds
    BY DEF SysDup, FreeFds
  <2>2. Min(FreeFds(p)) \in FreeFds(p)
    BY <2>1, MinIn
  <2> QED
    BY <2>2 DEF FreeFds
<1>3. PICK g \in 0 .. NFILE : g = ofile[p][fd] /\ g # 0
  BY DEF SysDup, Argfd, Control, FileTypes
<1> DEFINE R == [Idle EXCEPT !.pc = "dup", !.fd = e]
<1>4. /\ ofile' = [ofile EXCEPT ![p][e] = g] /\ op' = [op EXCEPT ![p] = R]
      /\ UNCHANGED <<file, live, iref, ends, locked, moved>>
  BY <1>2, <1>3 DEF SysDup
<1>5. R \in Call /\ R.pc = "dup" /\ R.f0 = 0 /\ R.f1 = 0 /\ R.hold = Nil /\ R.fd = e
  BY IdleFacts DEF Call, Labels
<1> HIDE DEF R
<1>6. Only(p) /\ op'[p] = R
  BY <1>4, <1>5, SetFacts DEF Control
<1>7. /\ \A t \in Tasks : \A x \in Fds : t # p \/ x # e => ofile'[t][x] = ofile[t][x]
      /\ \A t \in Tasks : t # p => ofile'[t] = ofile[t]
      /\ ofile'[p][e] = g /\ ofile' \in [Tasks -> [Fds -> 0 .. NFILE]]
  BY <1>4 DEF Control, FileTypes
<1>8. FileTypes' /\ ShapeOf(p)' /\ DupOf(p)' /\ FreshOf(p)'
  <2>1. FileTypes'
    BY <1>4, <1>6, <1>7 DEF Control, FileTypes, Only
  <2>2. fd # e /\ ofile'[p][fd] = g
    BY <1>2, <1>3, <1>7
  <2> QED
    BY <1>3, <1>5, <1>6, <1>7, <2>1, <2>2 DEF ShapeOf, DupOf, FreshOf, InHand, NoFd, Fds
<1>9. ASSUME NEW f \in Files
      PROVE  file'[f].ref = Count(f)'
  <2>1. \A t \in Tasks : \A x \in Fds : Has(t, x, f)' <=> Has(t, x, f)
    BY <1>1, <1>2, <1>5, <1>6, <1>7 DEF Has, Only, Quiet, Fds, NoFd, Files
  <2>2. \A t \in Tasks : op'[t].f0 = op[t].f0 /\ op'[t].f1 = op[t].f1
    BY <1>1, <1>5, <1>6 DEF Only, Quiet
  <2>3. file[f].ref = Count(f) /\ file' = file /\ Count(f) \in Int
    BY <1>4, RefIsCount, CountFinite DEF Counts, Count
  <2> QED
    BY <2>1, <2>2, <2>3, CountStep
<1> QED
  BY <1>1, <1>4, <1>5, <1>6, <1>7, <1>8, <1>9, RegularInv DEF Special, Quiet

\* A count that changes.
LEMMA RefSet ==
    ASSUME FileTypes, NEW g \in Files, NEW n \in Nat, file' = [file EXCEPT ![g].ref = n]
    PROVE  /\ file' \in [Files -> Entry] /\ file'[g].ref = n
           /\ \A f \in Files : f # g => file'[f] = file[f]
           /\ \A f \in Files : /\ file'[f].type = file[f].type /\ file'[f].obj = file[f].obj
                               /\ file'[f].writable = file[f].writable /\ file'[f].off = file[f].off
<1>1. PICK x \in Entry : x = file[g]
  BY DEF FileTypes
<1>2. PICK y : y = [x EXCEPT !.ref = n]
  OBVIOUS
<1>3. /\ y \in Entry /\ y.ref = n /\ y.type = x.type /\ y.obj = x.obj
      /\ y.writable = x.writable /\ y.off = x.off
  BY <1>2 DEF Entry
<1>4. file' = [file EXCEPT ![g] = y]
  BY <1>1, <1>2
<1> QED
  BY <1>1, <1>3, <1>4 DEF FileTypes

LEMMA DupFileInv ==
    ASSUME FileTableAssumption, FileInv, NEW p \in Tasks, DupFile(p)
    PROVE  FileInv'
<1> USE DEF FileInv
<1>1. op[p].pc = "dup" /\ ShapeOf(p) /\ DupOf(p)
  BY DEF DupFile, Doing, Control, Shape, Dups
<1>2. PICK e \in Fds : e = op[p].fd
  BY <1>1 DEF ShapeOf, Control, FileTypes, Call
<1>3. PICK x \in Fds : x # e /\ ofile[p][x] = ofile[p][e] /\ ofile[p][x] # 0
  BY <1>1, <1>2 DEF DupOf
<1>4. PICK g \in Files : g = ofile[p][e]
  BY <1>3 DEF Control, FileTypes, Files, FileTableAssumption
<1>5. /\ Filedup(g) /\ op' = [op EXCEPT ![p] = Idle]
      /\ UNCHANGED <<ofile, live, iref, ends, locked, moved>>
  BY <1>2, <1>4 DEF DupFile
<1>6. Only(p) /\ op'[p] = Idle /\ Quiet(p)' /\ ShapeOf(p)' /\ DupOf(p)'
  BY <1>5, IdleStep DEF Control
<1>7. /\ file' \in [Files -> Entry] /\ file'[g].ref = file[g].ref + 1
      /\ \A f \in Files : f # g => file'[f] = file[f]
      /\ \A f \in Files : /\ file'[f].type = file[f].type /\ file'[f].obj = file[f].obj
                          /\ file'[f].writable = file[f].writable /\ file'[f].off = file[f].off
                          /\ file[f].ref \in Nat
  <2>1. \A f \in Files : file[f].ref \in Nat
    BY DEF Control, FileTypes, Entry
  <2>2. PICK n \in Nat : n = file[g].ref + 1
    BY <2>1
  <2>3. file' = [file EXCEPT ![g].ref = n]
    BY <1>5, <2>2 DEF Filedup
  <2> QED
    BY <2>1, <2>2, <2>3, RefSet DEF Control
<1>8. FileTypes' /\ FreshOf(p)'
  BY <1>5, <1>6, <1>7 DEF Control, FileTypes, Only, FreshOf, Quiet, InHand, Files
<1>9. op[p].f0 = 0 /\ op[p].f1 = 0 /\ op[p].hold = Nil
  BY <1>1 DEF ShapeOf
<1>10. Has(p, x, g)
  BY <1>2, <1>3, <1>4 DEF Has
<1>11. ASSUME NEW f \in Files
       PROVE  file'[f].ref = Count(f)'
  <2>1. \A t \in Tasks : \A y \in Fds : t # p \/ y # e => (Has(t, y, f)' <=> Has(t, y, f))
    BY <1>2, <1>5, <1>6 DEF Has, Only, Quiet, Fds, NoFd
  <2>2. ~Has(p, e, f) /\ (Has(p, e, f)' <=> f = g)
    BY <1>2, <1>4, <1>5, <1>6 DEF Has, Quiet, Fds, NoFd
  <2>3. \A t \in Tasks : op'[t].f0 = op[t].f0 /\ op'[t].f1 = op[t].f1
    BY <1>6, <1>9 DEF Only, Quiet
  <2>4. file[f].ref = Count(f) /\ Count(f) \in Int
    BY RefIsCount, CountFinite DEF Counts, Count
  <2>5. Count(f)' = Count(f) + (IF f = g THEN 1 ELSE 0)
    BY <2>1, <2>2, <2>3, <2>4, CountStep
  <2> QED
    BY <1>7, <2>4, <2>5
<1>12. \A f \in Files : \/ file'[f].ref = file[f].ref
                        \/ \E t \in Tasks : \E y \in Fds : Has(t, y, f)
  BY <1>7, <1>10
<1>13. \A f \in Files : file'[f].ref = 0 => file[f].ref = 0
  BY <1>7
<1>14. op'[p].hold = op[p].hold /\ op'[p].pc \notin Special /\ op[p].pc \notin Special
  BY <1>1, <1>6, <1>9 DEF Quiet, Special, Idle
<1> QED
  BY <1>1, <1>5, <1>6, <1>7, <1>8, <1>11, <1>12, <1>13, <1>14, RegularInv

LEMMA PipeFdsInv ==
    ASSUME FileTableAssumption, FileInv, NEW p \in Tasks, PipeFds(p)
    PROVE  FileInv'
<1> USE DEF FileInv
<1>1. op[p].pc = "pipe_fds" /\ ShapeOf(p) /\ FreshOf(p)
  BY DEF PipeFds, Doing, Control, Shape, Counts, FreshEntries
<1>2. PICK a, b \in Files : a = op[p].f0 /\ b = op[p].f1 /\ a # b
  <2>1. op[p].f0 \in Files /\ op[p].f1 \in Files
    BY <1>1 DEF ShapeOf, Control, FileTypes, Call, Files, FileTableAssumption
  <2>2. file[op[p].f0].ref = 1
    BY <1>1, <2>1 DEF FreshOf, InHand, Files
  <2>3. op[p].f0 # op[p].f1
    BY <2>1, <2>2, Counted DEF Control, Counts
  <2> QED
    BY <2>1, <2>3
<1>3. PICK fd0, fd1 \in Fds : /\ fd0 # fd1 /\ ofile[p][fd0] = 0 /\ ofile[p][fd1] = 0
                              /\ ofile' = [ofile EXCEPT ![p][fd0] = a, ![p][fd1] = b]
  <2>1. Cardinality(FreeFds(p)) >= 2 /\ FreeFds(p) \subseteq Fds
    BY DEF PipeFds, FreeFds
  <2>2. FreeFds(p) # {}
    BY <2>1, FS_EmptySet
  <2>3. PICK x \in FreeFds(p) : x = Min(FreeFds(p))
    BY <2>1, <2>2, MinIn
  <2>4. FreeFds(p) \ {x} # {}
    <3>1. ASSUME FreeFds(p) \ {x} = {}
          PROVE  FALSE
      <4>1. FreeFds(p) = {x}
        BY <3>1
      <4>2. Cardinality({x}) = 1
        BY FS_Singleton
      <4> QED
        BY <2>1, <4>1, <4>2
    <3> QED
      BY <3>1
  <2>5. PICK y \in FreeFds(p) \ {x} : y = Min(FreeFds(p) \ {x})
    BY <2>1, <2>4, MinIn
  <2>6. ofile' = [ofile EXCEPT ![p][x] = a, ![p][y] = b]
    BY <1>2, <2>3, <2>5 DEF PipeFds
  <2> QED
    BY <2>1, <2>3, <2>5, <2>6 DEF FreeFds
<1>4. op' = [op EXCEPT ![p] = Idle] /\ UNCHANGED <<file, live, iref, ends, locked, moved>>
  BY DEF PipeFds
<1>5. Only(p) /\ op'[p] = Idle /\ Quiet(p)' /\ ShapeOf(p)' /\ DupOf(p)'
  BY <1>4, IdleStep DEF Control
<1>6. /\ \A t \in Tasks : \A x \in Fds : t # p \/ x \notin {fd0, fd1} => ofile'[t][x] = ofile[t][x]
      /\ \A t \in Tasks : t # p => ofile'[t] = ofile[t]
      /\ ofile'[p][fd0] = a /\ ofile'[p][fd1] = b /\ ofile' \in [Tasks -> [Fds -> 0 .. NFILE]]
  BY <1>3 DEF Control, FileTypes, Files, FileTableAssumption
<1>7. FileTypes' /\ FreshOf(p)'
  BY <1>4, <1>5, <1>6 DEF Control, FileTypes, Only, FreshOf, Quiet, InHand, Files
<1>8. op[p].fd = NoFd /\ op[p].hold = Nil
  BY <1>1 DEF ShapeOf
<1>9. ASSUME NEW f \in Files
      PROVE  file'[f].ref = Count(f)'
  <2>1. \A t \in Tasks : \A x \in Fds : t # p \/ x \notin {fd0, fd1} => (Has(t, x, f)' <=> Has(t, x, f))
    BY <1>5, <1>6, <1>8 DEF Has, Only, Quiet
  <2>2. /\ ~Has(p, fd0, f) /\ ~Has(p, fd1, f)
        /\ Has(p, fd0, f)' <=> f = a
        /\ Has(p, fd1, f)' <=> f = b
    BY <1>3, <1>5, <1>6, <1>8 DEF Has, Quiet, Fds, NoFd, Files
  <2>3. \A t \in Tasks : t # p => op'[t].f0 = op[t].f0 /\ op'[t].f1 = op[t].f1
    BY <1>5 DEF Only
  <2>4. file[f].ref = Count(f) /\ Count(f) \in Int /\ file' = file
    BY <1>4, RefIsCount, CountFinite DEF Counts, Count
  <2>5. op'[p].f0 # f /\ op'[p].f1 # f /\ (op[p].f0 = f <=> f = a) /\ (op[p].f1 = f <=> f = b)
    BY <1>2, <1>5 DEF Quiet, Files
  <2>6. CASE f = b
    <3>1. \A t \in Tasks : \A x \in Fds : t # p \/ x # fd1 => (Has(t, x, f)' <=> Has(t, x, f))
      BY <1>2, <2>1, <2>2, <2>6
    <3> QED
      BY <1>2, <2>2, <2>3, <2>4, <2>5, <2>6, <3>1, CountStep
  <2>7. CASE f # b
    <3>1. \A t \in Tasks : \A x \in Fds : t # p \/ x # fd0 => (Has(t, x, f)' <=> Has(t, x, f))
      BY <1>2, <2>1, <2>2, <2>7
    <3> QED
      BY <1>2, <2>2, <2>3, <2>4, <2>5, <2>7, <3>1, CountStep
  <2> QED
    BY <2>6, <2>7
<1>10. op'[p].hold = op[p].hold /\ op'[p].pc \notin Special /\ op[p].pc \notin Special
  BY <1>1, <1>5, <1>8 DEF Quiet, Special, Idle
<1> QED
  BY <1>1, <1>4, <1>5, <1>6, <1>7, <1>9, <1>10, RegularInv

\* exit() closes the next descriptor.
LEMMA ExitCloseInv ==
    ASSUME FileTableAssumption, FileInv, NEW p \in Tasks, ExitFile(p),
           {fd \in Fds : ofile[p][fd] # 0} # {}
    PROVE  FileInv'
<1> USE DEF FileInv
<1>1. op[p].pc = "exit" /\ ShapeOf(p)
  BY DEF ExitFile, Doing, Control, Shape
<1>2. PICK e \in Fds : e = Min({fd \in Fds : ofile[p][fd] # 0}) /\ ofile[p][e] # 0
  <2> DEFINE S == {fd \in Fds : ofile[p][fd] # 0}
  <2>1. S # {} /\ S \subseteq Fds
    OBVIOUS
  <2> HIDE DEF S
  <2>2. Min(S) \in S
    BY <2>1, MinIn
  <2> QED
    BY <2>2 DEF S
<1>3. PICK g \in Files : g = ofile[p][e]
  <2>1. ofile[p][e] # 0 /\ ofile[p][e] \in 0 .. NFILE
    BY <1>2 DEF Control, FileTypes
  <2> QED
    BY ONLY <2>1, FileTableAssumption DEF Files, FileTableAssumption
<1>4. PICK R : R = [op[p] EXCEPT !.pc = "closing", !.fd = e, !.f0 = g]
  OBVIOUS
<1>5. op' = [op EXCEPT ![p] = R] /\ UNCHANGED <<file, ofile, live, iref, ends, locked, moved>>
  BY <1>2, <1>3, <1>4 DEF ExitFile, Control, FileTypes
<1>6. /\ R \in Call /\ R.pc = "closing" /\ R.f0 = g /\ R.f1 = op[p].f1 /\ R.hold = op[p].hold
      /\ R.fd = e
  <2>1. PICK c \in Call : c = op[p]
    BY DEF Control, FileTypes
  <2>2. R = [c EXCEPT !.pc = "closing", !.fd = e, !.f0 = g]
    BY <1>4, <2>1
  <2>3. "closing" \in Labels /\ g \in 0 .. NFILE
    BY DEF Labels, Files, FileTableAssumption
  <2> QED
    BY <2>1, <2>2, <2>3 DEF Call
<1>7. Only(p) /\ op'[p] = R
  BY <1>5, <1>6, SetFacts DEF Control
<1>8. op[p].f0 = 0 /\ op[p].f1 = 0 /\ op[p].hold = Nil /\ op[p].fd = NoFd
  BY <1>1 DEF ShapeOf
<1>9. FileTypes' /\ ShapeOf(p)' /\ DupOf(p)' /\ FreshOf(p)'
  <2>1. FileTypes'
    BY <1>5, <1>7 DEF Control, FileTypes, Only
  <2> QED
    BY <1>6, <1>7, <1>8, <2>1 DEF ShapeOf, DupOf, FreshOf
<1>10. ASSUME NEW f \in Files
       PROVE  file'[f].ref = Count(f)'
  <2>1. \A t \in Tasks : \A x \in Fds : t # p \/ x # e => (Has(t, x, f)' <=> Has(t, x, f))
    BY <1>5, <1>6, <1>7, <1>8 DEF Has, Only, Fds, NoFd
  <2>2. (Has(p, e, f) <=> f = g) /\ ~Has(p, e, f)'
    BY <1>3, <1>5, <1>6, <1>7, <1>8 DEF Has, Fds, NoFd
  <2>3. \A t \in Tasks : t # p => op'[t].f0 = op[t].f0 /\ op'[t].f1 = op[t].f1
    BY <1>7 DEF Only
  <2>4. file[f].ref = Count(f) /\ Count(f) \in Int /\ file' = file
    BY <1>5, RefIsCount, CountFinite DEF Counts, Count
  <2>5. op[p].f0 # f /\ op[p].f1 # f /\ op'[p].f1 # f /\ (op'[p].f0 = f <=> f = g)
    BY <1>6, <1>7, <1>8 DEF Files
  <2> QED
    BY <2>1, <2>2, <2>3, <2>4, <2>5, CountStep
<1>11. op'[p].hold = op[p].hold /\ op'[p].pc \notin Special /\ op[p].pc \notin Special
  BY <1>1, <1>6, <1>7 DEF Special
<1> QED
  BY <1>1, <1>5, <1>7, <1>9, <1>10, <1>11, RegularInv

\* The entry fileclose() works on, and what stays in hand.
LEMMA CloseFacts ==
    ASSUME FileTableAssumption, FileInv, NEW p \in Tasks, Fileclose(p)
    PROVE  \E f \in Files : \E L \in Call :
             /\ f \in InHand(p) /\ file[f].ref >= 1 /\ Decrement(f)
             /\ \/ op[p].f0 = f /\ L.f1 = op[p].f1
                \/ op[p].f0 = 0 /\ op[p].f1 = f /\ L.f1 = 0
             /\ L.f0 = 0 /\ L.pc = "closing" /\ L.hold = op[p].hold /\ L.fd = op[p].fd
             /\ L.ff = op[p].ff
             /\ op' = [op EXCEPT ![p] = IF file[f].ref > 1 THEN L
                                        ELSE [L EXCEPT !.pc = "drop", !.ff = file[f]]]
<1>1. PICK c \in Call : c = op[p]
  BY DEF FileInv, Control, FileTypes
<1>2. c.pc = "closing" /\ InHand(p) # {} /\ c.f0 \in 0 .. NFILE /\ c.f1 \in 0 .. NFILE
  BY <1>1 DEF Fileclose, Doing, Call
<1>3. \A f \in 0 .. NFILE : f # 0 => f \in Files
  BY DEF Files, FileTableAssumption
<1>4. \A f \in Files : f \in InHand(p) => file[f].ref >= 1
  BY Counted DEF FileInv, Control, Counts
<1>5. CASE c.f0 # 0
  <2>1. PICK L : L = [c EXCEPT !.f0 = 0]
    OBVIOUS
  <2>2. /\ L \in Call /\ L.f1 = c.f1 /\ L.f0 = 0 /\ L.pc = c.pc /\ L.hold = c.hold /\ L.fd = c.fd
        /\ L.ff = c.ff
    <3>1. 0 \in 0 .. NFILE
      BY DEF FileTableAssumption
    <3> QED
      BY <2>1, <3>1 DEF Call
  <2>3. c.f0 \in Files /\ c.f0 \in InHand(p)
    BY <1>1, <1>2, <1>3, <1>5 DEF InHand
  <2>4. /\ Decrement(c.f0)
        /\ op' = [op EXCEPT ![p] = IF file[c.f0].ref > 1 THEN L
                                   ELSE [L EXCEPT !.pc = "drop", !.ff = file[c.f0]]]
    BY <1>1, <1>5, <2>1 DEF Fileclose
  <2> QED
    BY <1>1, <1>2, <1>4, <2>2, <2>3, <2>4
<1>6. CASE c.f0 = 0
  <2>1. PICK L : L = [c EXCEPT !.f1 = 0]
    OBVIOUS
  <2>2. /\ L \in Call /\ L.f1 = 0 /\ L.f0 = c.f0 /\ L.pc = c.pc /\ L.hold = c.hold /\ L.fd = c.fd
        /\ L.ff = c.ff
    <3>1. 0 \in 0 .. NFILE
      BY DEF FileTableAssumption
    <3> QED
      BY <2>1, <3>1 DEF Call
  <2>3. c.f1 \in Files /\ c.f1 \in InHand(p)
    BY <1>1, <1>2, <1>3, <1>6 DEF InHand
  <2>4. /\ Decrement(c.f1)
        /\ op' = [op EXCEPT ![p] = IF file[c.f1].ref > 1 THEN L
                                   ELSE [L EXCEPT !.pc = "drop", !.ff = file[c.f1]]]
    BY <1>1, <1>6, <2>1 DEF Fileclose
  <2> QED
    BY <1>1, <1>2, <1>4, <1>6, <2>2, <2>3, <2>4
<1> QED
  BY <1>5, <1>6

\* Both ways: one reference in hand less.
LEMMA CloseCounts ==
    ASSUME FileTableAssumption, FileInv, NEW p \in Tasks, NEW f \in Files, Only(p), ofile' = ofile,
           op'[p].f0 = 0, op'[p].fd = op[p].fd,
           \/ op[p].f0 = f /\ op'[p].f1 = op[p].f1
           \/ op[p].f0 = 0 /\ op[p].f1 = f /\ op'[p].f1 = 0,
           file'[f].ref = file[f].ref - 1,
           \A g \in Files : g # f => file'[g] = file[g]
    PROVE  \A g \in Files : file'[g].ref = Count(g)'
<1> SUFFICES ASSUME NEW g \in Files
             PROVE  file'[g].ref = Count(g)'
  OBVIOUS
<1>0. PICK fd \in Fds : TRUE
  BY DEF Fds, FileTableAssumption
<1>1. \A t \in Tasks : \A e \in Fds : Has(t, e, g)' <=> Has(t, e, g)
  BY DEF Has, Only
<1>2. \A t \in Tasks : t # p => op'[t].f0 = op[t].f0 /\ op'[t].f1 = op[t].f1
  BY DEF Only
<1>3. file[g].ref = Count(g) /\ Count(g) \in Int /\ g # 0
  BY RefIsCount, CountFinite DEF FileInv, Counts, Count, Files
<1>4. PICK d, d0, d1 \in Int :
        /\ Count(g)' = Count(g) + d + d0 + d1
        /\ d = 0
        /\ (op'[p].f0 = g <=> op[p].f0 = g) => d0 = 0
        /\ op'[p].f0 = g /\ op[p].f0 # g => d0 = 1
        /\ op'[p].f0 # g /\ op[p].f0 = g => d0 = -1
        /\ (op'[p].f1 = g <=> op[p].f1 = g) => d1 = 0
        /\ op'[p].f1 = g /\ op[p].f1 # g => d1 = 1
        /\ op'[p].f1 # g /\ op[p].f1 = g => d1 = -1
  BY <1>1, <1>2, CountStep
<1>5. d0 + d1 = IF g = f THEN -1 ELSE 0
  BY <1>3, <1>4
<1> QED
  BY <1>3, <1>4, <1>5

LEMMA FilecloseInv ==
    ASSUME FileTableAssumption, FileInv, NEW p \in Tasks, Fileclose(p)
    PROVE  FileInv'
<1> USE DEF FileInv
<1>0. /\ op[p].pc = "closing" /\ ShapeOf(p)
      /\ UNCHANGED <<ofile, live, iref, ends, locked, moved>>
  BY DEF Fileclose, Doing, Control, Shape
<1>1. PICK f \in Files, L \in Call :
        /\ f \in InHand(p) /\ file[f].ref >= 1 /\ Decrement(f)
        /\ \/ op[p].f0 = f /\ L.f1 = op[p].f1
           \/ op[p].f0 = 0 /\ op[p].f1 = f /\ L.f1 = 0
        /\ L.f0 = 0 /\ L.pc = "closing" /\ L.hold = op[p].hold /\ L.fd = op[p].fd
        /\ L.ff = op[p].ff
        /\ op' = [op EXCEPT ![p] = IF file[f].ref > 1 THEN L
                                   ELSE [L EXCEPT !.pc = "drop", !.ff = file[f]]]
  BY CloseFacts
<1>2. PICK x \in Entry : x = file[f] /\ x.ref \in Nat
  BY DEF Control, FileTypes, Entry
<1>3. CASE x.ref > 1
  <2>1. op' = [op EXCEPT ![p] = L]
    BY <1>1, <1>2, <1>3
  <2>2. Only(p) /\ op'[p] = L
    BY <2>1, SetFacts DEF Control
  <2>3. PICK n \in Nat : n = x.ref - 1 /\ n # 0
    BY <1>2, <1>3
  <2>4. file' = [file EXCEPT ![f].ref = n]
    <3>1. Decrement(f)
      BY <1>1
    <3> QED
      BY <1>2, <1>3, <2>3, <3>1 DEF Decrement
  <2>5. /\ file' \in [Files -> Entry] /\ file'[f].ref = n
        /\ \A g \in Files : g # f => file'[g] = file[g]
        /\ \A g \in Files : /\ file'[g].type = file[g].type /\ file'[g].obj = file[g].obj
                            /\ file'[g].writable = file[g].writable /\ file'[g].off = file[g].off
    BY <2>4, RefSet DEF Control
  <2>6. FileTypes'
    BY <1>0, <2>2, <2>5 DEF Control, FileTypes, Only
  <2>7. ShapeOf(p)' /\ DupOf(p)' /\ FreshOf(p)'
    BY <1>0, <1>1, <2>2 DEF ShapeOf, DupOf, FreshOf
  <2>8. \A g \in Files : file'[g].ref = Count(g)'
    <3>1. op'[p].f0 = 0 /\ op'[p].fd = op[p].fd /\ op'[p].f1 = L.f1
      BY <1>1, <2>2
    <3>2. file'[f].ref = file[f].ref - 1
      BY <1>2, <2>3, <2>5
    <3> QED
      BY <1>0, <1>1, <2>2, <2>5, <3>1, <3>2, CloseCounts
  <2>9. \A g \in Files : /\ file'[g].ref = 0 => file[g].ref = 0
                         /\ file'[g].ref = file[g].ref \/ g \in InHand(p)
    BY <1>1, <2>3, <2>5
  <2>10. op'[p].hold = op[p].hold /\ op'[p].pc \notin Special /\ op[p].pc \notin Special
    BY <1>0, <1>1, <2>2 DEF Special
  <2> QED
    BY <1>0, <2>2, <2>5, <2>6, <2>7, <2>8, <2>9, <2>10, RegularInv
<1>4. CASE x.ref = 1
  <2>1. PICK R : R = [L EXCEPT !.pc = "drop", !.ff = x]
    OBVIOUS
  <2>2. /\ R \in Call /\ R.pc = "drop" /\ R.ff = x /\ R.f0 = L.f0 /\ R.f1 = L.f1
        /\ R.hold = L.hold /\ R.fd = L.fd
    <3>1. "drop" \in Labels
      BY DEF Labels
    <3> QED
      BY <2>1, <3>1 DEF Call
  <2>3. op' = [op EXCEPT ![p] = R]
    BY <1>1, <1>2, <1>4, <2>1
  <2>4. Only(p) /\ op'[p] = R
    BY <2>2, <2>3, SetFacts DEF Control
  <2>5. Others(p)
    BY <2>4, OnlyOthers
  <2>6. PICK y : y = [x EXCEPT !.ref = 0, !.type = "FD_NONE"]
    OBVIOUS
  <2>7. y \in Entry /\ y.ref = 0 /\ y.type = "FD_NONE"
    BY <2>6 DEF Entry
  <2>8. file' = [file EXCEPT ![f] = y]
    BY <1>1, <1>2, <1>4, <2>6 DEF Decrement
  <2>9. /\ file' \in [Files -> Entry] /\ file'[f] = y
        /\ \A g \in Files : g # f => file'[g] = file[g]
    BY <2>7, <2>8 DEF Control, FileTypes
  <2>10. FileTypes'
    BY <1>0, <2>4, <2>9 DEF Control, FileTypes, Only
  <2>11. Control'
    <3>1. ShapeOf(p)' /\ DupOf(p)'
      BY <1>0, <1>1, <2>2, <2>4 DEF ShapeOf, DupOf
    <3>2. op[p].pc \notin {"fork", "embryo", "user"} /\ op'[p].pc \notin {"fork", "embryo"}
      BY <1>0, <2>2, <2>4
    <3> QED
      BY <1>0, <2>4, <2>10, <3>1, <3>2, ControlKept
  <2>12. Counts'
    <3>1. \A g \in Files : file'[g].ref = Count(g)'
      <4>1. op'[p].f0 = 0 /\ op'[p].fd = op[p].fd /\ op'[p].f1 = L.f1
        BY <1>1, <2>2, <2>4
      <4>2. file'[f].ref = file[f].ref - 1
        BY <1>2, <1>4, <2>7, <2>9
      <4> QED
        BY <1>0, <1>1, <2>4, <2>9, <4>1, <4>2, CloseCounts
    <3>2. RefsExact'
      BY <3>1, RefsAre
    <3>3. FreshEntries'
      <4>1. FreshOf(p)'
        BY <2>2, <2>4 DEF FreshOf
      <4> QED
        BY <1>1, <2>5, <2>9, <4>1, FreshKept
    <3>4. Sorts'
      BY <1>2, <2>2, <2>4, <2>7, <2>9 DEF Only, Counts, Sorts, Sound
    <3> QED
      BY <3>2, <3>3, <3>4 DEF Counts
  <2>13. Objects'
    <3>1. \A g \in Files : \A i, w :
            /\ Standing(file[g], i)' <=> g # f /\ Standing(file[g], i)
            /\ Is(file[g], i, w)' <=> g # f /\ Is(file[g], i, w)
      BY <2>7, <2>9 DEF Standing, Is
    <3>2. \A q \in Tasks : \A i, w :
            /\ q # p => (Dropping(q, i, w)' <=> Dropping(q, i, w))
            /\ q # p => (q \in Drops(i)' <=> q \in Drops(i))
            /\ op'[q].hold = op[q].hold
      BY <1>1, <2>2, <2>4 DEF Only, Dropping, Drops, Doing
    <3>3. \A i, w : /\ Dropping(p, i, w)' <=> Is(file[f], i, w)
                    /\ p \in Drops(i)' <=> Standing(file[f], i)
                    /\ ~Dropping(p, i, w) /\ p \notin Drops(i)
      BY <1>0, <1>2, <2>2, <2>4 DEF Dropping, Drops, Doing
    <3>4. ASSUME NEW i \in Inodes
          PROVE  iref'[i] = Uses(i)'
      <4>1. \A g \in Files : g # f => (Standing(file[g], i)' <=> Standing(file[g], i))
        BY <3>1
      <4>2. \A t \in Tasks : t # p => /\ op'[t].hold = op[t].hold
                                      /\ t \in Drops(i)' <=> t \in Drops(i)
        BY <3>2
      <4>3. PICK d, d0, d1 \in Int :
              /\ Uses(i)' = Uses(i) + d + d0 + d1
              /\ (Standing(file[f], i)' <=> Standing(file[f], i)) => d = 0
              /\ Standing(file[f], i)' /\ ~Standing(file[f], i) => d = 1
              /\ ~Standing(file[f], i)' /\ Standing(file[f], i) => d = -1
              /\ (op'[p].hold = i <=> op[p].hold = i) => d0 = 0
              /\ op'[p].hold = i /\ op[p].hold # i => d0 = 1
              /\ op'[p].hold # i /\ op[p].hold = i => d0 = -1
              /\ (p \in Drops(i)' <=> p \in Drops(i)) => d1 = 0
              /\ p \in Drops(i)' /\ p \notin Drops(i) => d1 = 1
              /\ p \notin Drops(i)' /\ p \in Drops(i) => d1 = -1
        BY ONLY FileTableAssumption, p \in Tasks, f \in Files, <4>1, <4>2, UsesStep
      <4>4. d0 = 0
        BY <3>2, <4>3
      <4>5. d + d1 = 0
        BY <3>1, <3>3, <4>3
      <4>6. iref[i] = Uses(i) /\ iref[i] \in Int
        BY ObjectsAre DEF Objects, Balance, Control, FileTypes
      <4> QED
        BY <1>0, <4>3, <4>4, <4>5, <4>6
    <3>5. Balance'
      BY <1>0, <3>1, <3>2, <3>3, <3>4, ObjectsAre DEF Objects, Balance
    <3>6. OneEnd'
      BY <3>1, <3>2, <3>3 DEF Objects, OneEnd
    <3> QED
      BY <3>5, <3>6, ObjectsWillBe DEF Objects
  <2>14. Streams'
    <3>1. ASSUME NEW q \in Tasks, op[q].pc \in Moving
          PROVE  ofile'[q] = ofile[q] /\ file'[op[q].f].type = "FD_INODE"
      <4>1. PICK fd \in Fds : ofile[q][fd] = op[q].f
        BY <3>1 DEF Streams, Using, Moving
      <4>2. op[q].fd = NoFd
        BY <3>1 DEF Control, Shape, ShapeOf, Moving
      <4>3. op[q].f # f
        BY <1>1, <1>2, <1>4, <4>1, <4>2, Counted DEF Control, Counts, Fds, NoFd
      <4> QED
        BY <1>0, <2>9, <3>1, <4>3 DEF Streams, Using, Moving
    <3>2. op'[p].hold # Nil => locked'[op'[p].hold] = p
      BY <1>0, <1>1, <2>2, <2>4 DEF Streams, InodeLocks
    <3>3. op[p].pc \notin Moving /\ op'[p].pc \notin Moving
      BY <1>0, <2>2, <2>4 DEF Moving
    <3>4. \A g \in Files : file'[g].type = "FD_INODE" => file'[g] = file[g]
      BY <2>7, <2>9
    <3> QED
      BY <1>0, <2>5, <2>10, <3>1, <3>2, <3>3, <3>4, StreamsKept
  <2> QED
    BY <2>11, <2>12, <2>13, <2>14
<1> QED
  BY <1>1, <1>2, <1>3, <1>4

LEMMA DropInv ==
    ASSUME FileTableAssumption, FileInv, NEW p \in Tasks, Drop(p)
    PROVE  FileInv'
<1> USE DEF FileInv
<1>0. op[p].pc = "drop" /\ ShapeOf(p) /\ UNCHANGED <<file, ofile, live, locked, moved>>
  BY DEF Drop, Doing, Control, Shape
<1>1. PICK x \in Entry : x = op[p].ff /\ Sound(x)
  BY <1>0 DEF Control, FileTypes, Call, Counts, Sorts
<1>2. /\ ends' = IF x.type = "FD_PIPE"
                 THEN [ends EXCEPT ![x.obj] = @ \ {IF x.writable THEN "write" ELSE "read"}]
                 ELSE ends
      /\ iref' = IF x.type = "FD_INODE" THEN [iref EXCEPT ![x.obj] = @ - 1] ELSE iref
  BY <1>1 DEF Drop
<1>3. PICK R : R = [op[p] EXCEPT !.pc = "closing", !.ff = Closed]
  OBVIOUS
<1>4. /\ R \in Call /\ R.pc = "closing" /\ R.f0 = op[p].f0 /\ R.f1 = op[p].f1
      /\ R.hold = op[p].hold /\ R.fd = op[p].fd
  <2>1. PICK c \in Call : c = op[p]
    BY DEF Control, FileTypes
  <2>2. R = [c EXCEPT !.pc = "closing", !.ff = Closed]
    BY <1>3, <2>1
  <2>3. "closing" \in Labels /\ Closed \in Entry
    BY IdleFacts DEF Labels
  <2> QED
    BY <2>1, <2>2, <2>3 DEF Call
<1>5. Only(p) /\ op'[p] = R
  <2>1. op' = [op EXCEPT ![p] = R]
    BY <1>3 DEF Drop, Control, FileTypes
  <2> QED
    BY <1>4, <2>1, SetFacts DEF Control
<1>6. Others(p)
  BY <1>5, OnlyOthers
<1>7. /\ iref' \in [Inodes -> Int]
      /\ \A i \in Inodes : iref'[i] = IF Standing(x, i) THEN iref[i] - 1 ELSE iref[i]
  <2>1. \A i \in Inodes : Standing(x, i) <=> x.type = "FD_INODE" /\ x.obj = i
    BY <1>1 DEF Standing, Sound, FileTableAssumption, Entry
  <2>2. x.type = "FD_INODE" => x.obj \in Inodes
    BY <1>1 DEF Sound
  <2> QED
    BY <1>2, <2>1, <2>2 DEF Control, FileTypes
<1>8. /\ ends' \in [Pipes -> SUBSET {"read", "write"}]
      /\ \A i \in Pipes : \A w \in BOOLEAN :
           ((IF w THEN "write" ELSE "read") \in ends'[i]) <=>
             ((IF w THEN "write" ELSE "read") \in ends[i]) /\ ~Is(x, i, w)
  <2>1. \A i \in Pipes : Standing(x, i) <=> x.type = "FD_PIPE" /\ x.obj = i
    BY <1>1 DEF Standing, Sound, FileTableAssumption, Entry
  <2>2. x.type = "FD_PIPE" => x.obj \in Pipes
    BY <1>1 DEF Sound
  <2>3. x.writable \in BOOLEAN
    BY DEF Entry
  <2>4. CASE x.type # "FD_PIPE"
    BY <1>2, <2>1, <2>4 DEF Control, FileTypes, Is
  <2>5. CASE x.type = "FD_PIPE"
    <3>1. PICK z : z = IF x.writable THEN "write" ELSE "read"
      OBVIOUS
    <3>2. ends' = [ends EXCEPT ![x.obj] = ends[x.obj] \ {z}]
      BY <1>2, <2>5, <3>1
    <3>3. /\ ends' \in [Pipes -> SUBSET {"read", "write"}]
          /\ ends'[x.obj] = ends[x.obj] \ {z}
          /\ \A i \in Pipes : i # x.obj => ends'[i] = ends[i]
      BY <2>2, <2>5, <3>2 DEF Control, FileTypes
    <3>4. \A w \in BOOLEAN : (IF w THEN "write" ELSE "read") = z <=> (x.writable = w)
      BY <2>3, <3>1
    <3> QED
      BY <2>1, <2>2, <2>5, <3>3, <3>4 DEF Is
  <2> QED
    BY <2>4, <2>5
<1>9. FileTypes'
  BY <1>0, <1>5, <1>7, <1>8 DEF Control, FileTypes, Only
<1>10. Control'
  <2>1. ShapeOf(p)' /\ DupOf(p)'
    BY <1>0, <1>4, <1>5 DEF ShapeOf, DupOf
  <2>2. op[p].pc \notin {"fork", "embryo", "user"} /\ op'[p].pc \notin {"fork", "embryo"}
    BY <1>0, <1>4, <1>5
  <2> QED
    BY <1>0, <1>5, <1>9, <2>1, <2>2, ControlKept
<1>11. Counts'
  <2>1. \A f \in Files : Count(f)' = Count(f)
    <3>1. \A q \in Tasks : op'[q].f0 = op[q].f0 /\ op'[q].f1 = op[q].f1 /\ op'[q].fd = op[q].fd
      BY <1>4, <1>5 DEF Only
    <3> QED
      BY ONLY <1>0, <3>1 DEF Count, Descriptors, F0, F1
  <2>2. RefsExact'
    BY <1>0, <2>1, RefIsCount, RefsAre DEF Counts
  <2>3. FreshOf(p)' /\ op'[p].pc # "drop"
    BY <1>4, <1>5 DEF FreshOf
  <2>4. FreshEntries'
    BY <1>0, <1>6, <2>3, FreshKept
  <2>5. Sorts'
    BY <1>0, <1>6, <2>3, SortsKept
  <2> QED
    BY <2>2, <2>4, <2>5 DEF Counts
<1>12. Objects'
  <2>1. \A q \in Tasks : \A i, w :
          /\ q # p => (Dropping(q, i, w)' <=> Dropping(q, i, w))
          /\ q # p => (q \in Drops(i)' <=> q \in Drops(i))
          /\ op'[q].hold = op[q].hold
    BY <1>4, <1>5 DEF Only, Dropping, Drops, Doing
  <2>2. \A i, w : /\ Dropping(p, i, w) <=> Is(x, i, w)
                  /\ p \in Drops(i) <=> Standing(x, i)
                  /\ ~Dropping(p, i, w)' /\ p \notin Drops(i)'
    BY <1>0, <1>1, <1>4, <1>5 DEF Dropping, Drops, Doing
  <2>3. ASSUME NEW i \in Inodes
        PROVE  iref'[i] = Uses(i)'
    <3>1. PICK g \in Files : TRUE
      BY DEF Files, FileTableAssumption
    <3>2. \A t \in Tasks : t # p => /\ op'[t].hold = op[t].hold
                                    /\ t \in Drops(i)' <=> t \in Drops(i)
      BY <2>1
    <3>3. \A f \in Files : Standing(file[f], i)' <=> Standing(file[f], i)
      BY <1>0 DEF Standing
    <3>4. PICK d, d0, d1 \in Int :
            /\ Uses(i)' = Uses(i) + d + d0 + d1
            /\ (Standing(file[g], i)' <=> Standing(file[g], i)) => d = 0
            /\ Standing(file[g], i)' /\ ~Standing(file[g], i) => d = 1
            /\ ~Standing(file[g], i)' /\ Standing(file[g], i) => d = -1
            /\ (op'[p].hold = i <=> op[p].hold = i) => d0 = 0
            /\ op'[p].hold = i /\ op[p].hold # i => d0 = 1
            /\ op'[p].hold # i /\ op[p].hold = i => d0 = -1
            /\ (p \in Drops(i)' <=> p \in Drops(i)) => d1 = 0
            /\ p \in Drops(i)' /\ p \notin Drops(i) => d1 = 1
            /\ p \notin Drops(i)' /\ p \in Drops(i) => d1 = -1
      <4>1. \A f \in Files : f # g => (Standing(file[f], i)' <=> Standing(file[f], i))
        BY <3>3
      <4> QED
        BY ONLY FileTableAssumption, p \in Tasks, g \in Files, <3>2, <4>1, UsesStep
    <3>8. d = 0 /\ d0 = 0
      BY <2>1, <3>3, <3>4
    <3>5. iref[i] = Uses(i) /\ iref[i] \in Int
      BY ObjectsAre DEF Objects, Balance, Control, FileTypes
    <3>6. CASE Standing(x, i)
      <4>1. d1 = -1 /\ iref'[i] = iref[i] - 1
        BY <1>7, <2>2, <3>4, <3>6
      <4> QED
        BY <3>4, <3>5, <3>8, <4>1
    <3>7. CASE ~Standing(x, i)
      <4>1. d1 = 0 /\ iref'[i] = iref[i]
        BY <1>7, <2>2, <3>4, <3>7
      <4> QED
        BY <3>4, <3>5, <3>8, <4>1
    <3> QED
      BY <3>6, <3>7
  <2>4. \A f \in Files : \A i, w : Is(file[f], i, w)' <=> Is(file[f], i, w)
    BY <1>0 DEF Is, Standing
  <2>5. ASSUME NEW i \in Pipes, NEW w \in BOOLEAN
        PROVE  ((IF w THEN "write" ELSE "read") \in ends'[i]) <=>
                 \/ \E f \in Files : Is(file[f], i, w)'
                 \/ \E q \in Tasks : Dropping(q, i, w)'
    <3>1. ((IF w THEN "write" ELSE "read") \in ends[i]) <=>
                 \/ \E f \in Files : Is(file[f], i, w)
                 \/ \E q \in Tasks : Dropping(q, i, w)
      BY ObjectsAre DEF Objects, Balance
    <3>2. CASE Is(x, i, w)
      BY <1>8, <2>1, <2>2, <2>4, <3>2 DEF Objects, OneEnd
    <3>3. CASE ~Is(x, i, w)
      BY <1>8, <2>1, <2>2, <2>4, <3>1, <3>3
    <3> QED
      BY <3>2, <3>3
  <2>6. Balance'
    BY <2>3, <2>5 DEF Balance
  <2>7. OneEnd'
    BY <2>1, <2>2, <2>4 DEF Objects, OneEnd
  <2> QED
    BY <2>6, <2>7, ObjectsWillBe DEF Objects
<1>13. Streams'
  <2>1. \A q \in Tasks : op[q].pc \in Moving =>
          ofile'[q] = ofile[q] /\ file'[op[q].f].type = "FD_INODE"
    BY <1>0 DEF Streams, Using, Moving
  <2>2. op'[p].hold # Nil => locked'[op'[p].hold] = p
    BY <1>0, <1>4, <1>5 DEF Streams, InodeLocks
  <2>3. op[p].pc \notin Moving /\ op'[p].pc \notin Moving
    BY <1>0, <1>4, <1>5 DEF Moving
  <2> QED
    BY <1>0, <1>6, <1>9, <2>1, <2>2, <2>3, StreamsKept
<1> QED
  BY <1>10, <1>11, <1>12, <1>13

\* A reference to an inode that a call takes, gives back or hands to an entry.
LEMMA ObjectsMoved ==
    ASSUME FileTableAssumption, FileInv, NEW p \in Tasks, Others(p), NEW g \in Files,
           op[p].pc # "drop", op'[p].pc # "drop", ends' = ends,
           \A f \in Files : \A i \in Pipes : \A w : Is(file[f], i, w)' <=> Is(file[f], i, w),
           \A f \in Files : \A i \in Inodes :
             f # g => (Standing(file[f], i)' <=> Standing(file[f], i)),
           \A i \in Inodes :
             \/ /\ Standing(file[g], i)' <=> Standing(file[g], i)
                /\ \/ (op'[p].hold = i <=> op[p].hold = i) /\ iref'[i] = iref[i]
                   \/ op'[p].hold = i /\ op[p].hold # i /\ iref'[i] = iref[i] + 1
                   \/ op'[p].hold # i /\ op[p].hold = i /\ iref'[i] = iref[i] - 1
             \/ /\ Standing(file[g], i)' /\ ~Standing(file[g], i)
                /\ op'[p].hold # i /\ op[p].hold = i /\ iref'[i] = iref[i]
    PROVE  Objects'
<1>1. \A q \in Tasks : \A i, w : /\ Dropping(q, i, w)' <=> Dropping(q, i, w)
                                 /\ q \in Drops(i)' <=> q \in Drops(i)
                                 /\ q # p => op'[q].hold = op[q].hold
  BY DEF Others, Quiet, Dropping, Drops, Doing
<1>2. ASSUME NEW i \in Inodes
      PROVE  iref'[i] = Uses(i)'
  <2>1. \A t \in Tasks : t # p => /\ op'[t].hold = op[t].hold
                                  /\ t \in Drops(i)' <=> t \in Drops(i)
    BY <1>1
  <2>2. \A f \in Files : f # g => (Standing(file[f], i)' <=> Standing(file[f], i))
    OBVIOUS
  <2>3. PICK d, d0, d1 \in Int :
          /\ Uses(i)' = Uses(i) + d + d0 + d1
          /\ (Standing(file[g], i)' <=> Standing(file[g], i)) => d = 0
          /\ Standing(file[g], i)' /\ ~Standing(file[g], i) => d = 1
          /\ ~Standing(file[g], i)' /\ Standing(file[g], i) => d = -1
          /\ (op'[p].hold = i <=> op[p].hold = i) => d0 = 0
          /\ op'[p].hold = i /\ op[p].hold # i => d0 = 1
          /\ op'[p].hold # i /\ op[p].hold = i => d0 = -1
          /\ (p \in Drops(i)' <=> p \in Drops(i)) => d1 = 0
          /\ p \in Drops(i)' /\ p \notin Drops(i) => d1 = 1
          /\ p \notin Drops(i)' /\ p \in Drops(i) => d1 = -1
    BY ONLY FileTableAssumption, p \in Tasks, g \in Files, <2>1, <2>2, UsesStep
  <2>4. iref[i] = Uses(i) /\ iref[i] \in Int
    BY ObjectsAre DEF FileInv, Objects, Balance, Control, FileTypes
  <2>5. \/ d = 0 /\ d0 = 0 /\ iref'[i] = iref[i]
        \/ d = 0 /\ d0 = 1 /\ iref'[i] = iref[i] + 1
        \/ d = 0 /\ d0 = -1 /\ iref'[i] = iref[i] - 1
        \/ d = 1 /\ d0 = -1 /\ iref'[i] = iref[i]
    BY <2>3
  <2>6. d1 = 0
    BY <1>1, <2>3
  <2> QED
    BY <2>3, <2>4, <2>5, <2>6
<1>3. Balance'
  BY <1>1, <1>2, ObjectsAre DEF FileInv, Objects, Balance
<1>4. OneEnd'
  BY <1>1 DEF FileInv, Objects, OneEnd
<1> QED
  BY <1>3, <1>4, ObjectsWillBe DEF Objects

LEMMA FinishInv ==
    ASSUME FileTableAssumption, FileInv, NEW p \in Tasks, Finish(p)
    PROVE  FileInv'
<1> USE DEF FileInv
<1>0. /\ op[p].pc = "closing" /\ op[p].f0 = 0 /\ op[p].f1 = 0 /\ ShapeOf(p)
      /\ UNCHANGED <<file, live, ends, moved>>
  BY DEF Finish, Doing, InHand, Control, Shape
<1>1. PICK h \in Inodes \cup {Nil}, e \in Fds \cup {NoFd} : h = op[p].hold /\ e = op[p].fd
  BY DEF Control, FileTypes, Call
<1>2. PICK R : R = IF e = NoFd THEN Idle ELSE [Idle EXCEPT !.pc = "exit"]
  OBVIOUS
<1>3. /\ iref' = [i \in Inodes |-> IF i = h THEN iref[i] - 1 ELSE iref[i]]
      /\ locked' = [i \in Inodes |-> IF i = h THEN Nil ELSE locked[i]]
      /\ ofile' = IF e = NoFd THEN ofile ELSE [ofile EXCEPT ![p][e] = 0]
      /\ op' = [op EXCEPT ![p] = R]
  BY <1>1, <1>2 DEF Finish
<1>4. /\ R \in Call /\ R.pc \in {"user", "exit"} /\ R.f0 = 0 /\ R.f1 = 0 /\ R.hold = Nil
      /\ R.fd = NoFd
  BY <1>2, IdleFacts DEF Call, Labels
<1>5. Only(p) /\ op'[p] = R
  BY <1>3, <1>4, SetFacts DEF Control
<1>6. Others(p)
  BY <1>5, OnlyOthers
<1>7. /\ ofile' \in [Tasks -> [Fds -> 0 .. NFILE]]
      /\ \A t \in Tasks : t # p => ofile'[t] = ofile[t]
      /\ \A x \in Fds : x # e => ofile'[p][x] = ofile[p][x]
      /\ e # NoFd => ofile'[p][e] = 0
  <2>1. CASE e = NoFd
    BY <1>3, <2>1 DEF Control, FileTypes, Fds, NoFd
  <2>2. CASE e # NoFd
    BY <1>1, <1>3, <2>2 DEF Control, FileTypes, Fds, NoFd, FileTableAssumption
  <2> QED
    BY <2>1, <2>2
<1>8. FileTypes'
  <2>1. iref' \in [Inodes -> Int] /\ locked' \in [Inodes -> Tasks \cup {Nil}]
    BY <1>3 DEF Control, FileTypes
  <2> QED
    BY <1>0, <1>5, <1>7, <2>1 DEF Control, FileTypes, Only
<1>9. Control'
  <2>1. ShapeOf(p)' /\ DupOf(p)'
    BY <1>4, <1>5 DEF ShapeOf, DupOf
  <2>2. op[p].pc \notin {"fork", "embryo", "user"} /\ op'[p].pc \notin {"fork", "embryo"}
    BY <1>0, <1>4, <1>5
  <2> QED
    BY <1>0, <1>5, <1>7, <1>8, <2>1, <2>2, ControlKept
<1>10. Counts'
  <2>1. ASSUME NEW f \in Files
        PROVE  file'[f].ref = Count(f)'
    <3>0. PICK x \in Fds : TRUE
      BY DEF Fds, FileTableAssumption
    <3>1. \A t \in Tasks : \A y \in Fds : Has(t, y, f)' <=> Has(t, y, f)
      BY <1>1, <1>4, <1>5, <1>7 DEF Has, Only, Fds, NoFd, Files
    <3>2. \A t \in Tasks : op'[t].f0 = op[t].f0 /\ op'[t].f1 = op[t].f1
      BY <1>0, <1>4, <1>5 DEF Only
    <3>3. file[f].ref = Count(f) /\ Count(f) \in Int /\ file' = file
      BY <1>0, RefIsCount, CountFinite DEF Counts, Count
    <3> QED
      BY <3>1, <3>2, <3>3, CountStep
  <2>2. RefsExact'
    BY <2>1, RefsAre
  <2>3. FreshOf(p)' /\ op'[p].pc # "drop"
    BY <1>4, <1>5 DEF FreshOf
  <2>4. FreshEntries'
    BY <1>0, <1>6, <2>3, FreshKept
  <2>5. Sorts'
    BY <1>0, <1>6, <2>3, SortsKept
  <2> QED
    BY <2>2, <2>4, <2>5 DEF Counts
<1>11. Objects'
  <2>1. PICK g \in Files : TRUE
    BY DEF Files, FileTableAssumption
  <2>2. \A f \in Files : \A i, w : /\ Standing(file[f], i)' <=> Standing(file[f], i)
                                   /\ Is(file[f], i, w)' <=> Is(file[f], i, w)
    BY <1>0 DEF Standing, Is
  <2>3. \A i \in Inodes :
          \/ (op'[p].hold = i <=> op[p].hold = i) /\ iref'[i] = iref[i]
          \/ op'[p].hold # i /\ op[p].hold = i /\ iref'[i] = iref[i] - 1
    BY <1>1, <1>3, <1>4, <1>5 DEF FileTableAssumption
  <2>4. op[p].pc # "drop" /\ op'[p].pc # "drop"
    BY <1>0, <1>4, <1>5
  <2> QED
    BY <1>0, <1>6, <2>2, <2>3, <2>4, ObjectsMoved
<1>12. Streams'
  <2>1. \A q \in Tasks : op[q].pc \in Moving =>
          ofile'[q] = ofile[q] /\ file'[op[q].f].type = "FD_INODE"
    BY <1>0, <1>7 DEF Streams, Using, Moving
  <2>2. op'[p].hold = Nil /\ op[p].pc \notin Moving /\ op'[p].pc \notin Moving
    BY <1>0, <1>4, <1>5 DEF Moving
  <2>3. \A i \in Inodes : locked[i] \in Tasks /\ locked[i] # p => locked'[i] = locked[i]
    BY <1>1, <1>3 DEF Streams, InodeLocks, FileTableAssumption
  <2> QED
    BY <1>0, <1>6, <1>8, <2>1, <2>2, <2>3, StreamsKept
<1> QED
  BY <1>9, <1>10, <1>11, <1>12

LEMMA SysOpenInv ==
    ASSUME FileTableAssumption, FileInv, NEW p \in Tasks, NEW h \in Inodes, SysOpen(p, h)
    PROVE  FileInv'
<1> USE DEF FileInv
<1>0. /\ locked[h] = Nil /\ UNCHANGED <<file, ofile, live, ends, moved>>
      /\ iref' = [iref EXCEPT ![h] = @ + 1] /\ locked' = [locked EXCEPT ![h] = p]
  BY DEF SysOpen
<1>1. Quiet(p) /\ p \in live /\ op[p].pc = "user" /\ InHand(p) = {}
  BY ReadyFacts DEF SysOpen
<1>2. PICK R : R = [Idle EXCEPT !.pc = "open", !.hold = h]
  OBVIOUS
<1>3. /\ R \in Call /\ R.pc = "open" /\ R.f0 = 0 /\ R.f1 = 0 /\ R.hold = h /\ R.fd = NoFd
  BY <1>2, IdleFacts DEF Call, Labels
<1>4. Only(p) /\ op'[p] = R
  <2>1. op' = [op EXCEPT ![p] = R]
    BY <1>2 DEF SysOpen
  <2> QED
    BY <1>3, <2>1, SetFacts DEF Control
<1>5. Others(p)
  BY <1>4, OnlyOthers
<1>6. /\ iref' \in [Inodes -> Int] /\ locked' \in [Inodes -> Tasks \cup {Nil}]
      /\ iref'[h] = iref[h] + 1 /\ locked'[h] = p
      /\ \A i \in Inodes : i # h => iref'[i] = iref[i] /\ locked'[i] = locked[i]
  BY <1>0 DEF Control, FileTypes
<1>7. FileTypes'
  BY <1>0, <1>4, <1>6 DEF Control, FileTypes, Only
<1>8. Control'
  <2>1. ShapeOf(p)' /\ DupOf(p)'
    BY <1>3, <1>4 DEF ShapeOf, DupOf, FileTableAssumption
  <2>2. op[p].pc \notin {"fork", "embryo"} /\ op'[p].pc \notin {"fork", "embryo"}
    BY <1>1, <1>3, <1>4
  <2> QED
    BY <1>0, <1>1, <1>4, <1>7, <2>1, <2>2, ControlKept
<1>9. Counts'
  <2>1. \A f \in Files : Count(f)' = Count(f)
    <3>1. \A q \in Tasks : op'[q].f0 = op[q].f0 /\ op'[q].f1 = op[q].f1 /\ op'[q].fd = op[q].fd
      BY <1>1, <1>3, <1>4 DEF Only, Quiet
    <3> QED
      BY ONLY <1>0, <3>1 DEF Count, Descriptors, F0, F1
  <2>2. RefsExact'
    BY <1>0, <2>1, RefIsCount, RefsAre DEF Counts
  <2>3. FreshOf(p)' /\ op'[p].pc # "drop"
    BY <1>3, <1>4 DEF FreshOf
  <2>4. FreshEntries'
    BY <1>0, <1>5, <2>3, FreshKept
  <2>5. Sorts'
    BY <1>0, <1>5, <2>3, SortsKept
  <2> QED
    BY <2>2, <2>4, <2>5 DEF Counts
<1>10. Objects'
  <2>1. PICK g \in Files : TRUE
    BY DEF Files, FileTableAssumption
  <2>2. \A f \in Files : \A i, w : /\ Standing(file[f], i)' <=> Standing(file[f], i)
                                   /\ Is(file[f], i, w)' <=> Is(file[f], i, w)
    BY <1>0 DEF Standing, Is
  <2>3. \A i \in Inodes :
          \/ (op'[p].hold = i <=> op[p].hold = i) /\ iref'[i] = iref[i]
          \/ op'[p].hold = i /\ op[p].hold # i /\ iref'[i] = iref[i] + 1
    BY <1>1, <1>3, <1>4, <1>6 DEF Quiet, FileTableAssumption
  <2>4. op[p].pc # "drop" /\ op'[p].pc # "drop"
    BY <1>1, <1>3, <1>4
  <2> QED
    BY <1>0, <1>5, <2>2, <2>3, <2>4, ObjectsMoved
<1>11. Streams'
  <2>1. \A q \in Tasks : op[q].pc \in Moving =>
          ofile'[q] = ofile[q] /\ file'[op[q].f].type = "FD_INODE"
    BY <1>0 DEF Streams, Using, Moving
  <2>2. op'[p].hold = h /\ op[p].pc \notin Moving /\ op'[p].pc \notin Moving
    BY <1>1, <1>3, <1>4 DEF Moving
  <2>3. \A i \in Inodes : locked[i] \in Tasks /\ locked[i] # p => locked'[i] = locked[i]
    BY <1>0, <1>6 DEF FileTableAssumption
  <2> QED
    BY <1>0, <1>5, <1>6, <1>7, <2>1, <2>2, <2>3, StreamsKept
<1> QED
  BY <1>8, <1>9, <1>10, <1>11

\* open() hands its entry and the inode to the descriptor.
LEMMA OpenFdInv ==
    ASSUME FileTableAssumption, FileInv, NEW p \in Tasks, OpenFd(p)
    PROVE  FileInv'
<1> USE DEF FileInv
<1>0. op[p].pc = "open_fd" /\ ShapeOf(p) /\ FreshOf(p) /\ UNCHANGED <<live, iref, ends>>
  BY DEF OpenFd, Doing, Control, Shape, Counts, FreshEntries
<1>1. PICK f \in Files : f = op[p].f0
  <2>1. op[p].f0 # 0 /\ op[p].f0 \in 0 .. NFILE
    BY <1>0 DEF ShapeOf, Control, FileTypes, Call
  <2> QED
    BY ONLY <2>1, FileTableAssumption DEF Files, FileTableAssumption
<1>2. PICK h \in Inodes : h = op[p].hold
  BY <1>0 DEF ShapeOf, Control, FileTypes, Call
<1>3. op[p].f1 = 0 /\ op[p].fd = NoFd
  BY <1>0 DEF ShapeOf
<1>4. PICK x \in Entry : x = file[f] /\ x.ref = 1 /\ x.type = "FD_NONE"
  <2>1. f \in InHand(p)
    BY <1>1 DEF InHand, Files
  <2> QED
    BY <1>0, <2>1 DEF FreshOf, Control, FileTypes
<1>5. PICK e \in Fds : e = Min(FreeFds(p)) /\ ofile[p][e] = 0
  <2>1. FreeFds(p) # {} /\ FreeFds(p) \subseteq Fds
    BY DEF OpenFd, FreeFds
  <2>2. Min(FreeFds(p)) \in FreeFds(p)
    BY <2>1, MinIn
  <2> QED
    BY <2>2 DEF FreeFds
<1>6. PICK y : y = [x EXCEPT !.type = "FD_INODE", !.obj = h, !.off = 0, !.writable = TRUE]
  OBVIOUS
<1>7. y \in Entry /\ y.ref = 1 /\ y.type = "FD_INODE" /\ y.obj = h /\ y.off = 0
  <2>1. h \in Inodes \cup Pipes \cup {Nil} /\ 0 \in 0 .. MaxOff
    BY DEF FileTableAssumption
  <2> QED
    BY <1>4, <1>6, <2>1 DEF Entry
<1>8. /\ ofile' = [ofile EXCEPT ![p][e] = f] /\ op' = [op EXCEPT ![p] = Idle]
      /\ locked' = [locked EXCEPT ![h] = Nil]
      /\ moved' = [moved EXCEPT ![f] = [b \in DOMAIN moved[f] |-> 0]]
  BY <1>1, <1>2, <1>5 DEF OpenFd
<1>9. file' = [file EXCEPT ![f] = y]
  BY <1>1, <1>2, <1>4, <1>6 DEF OpenFd
<1>10. Only(p) /\ op'[p] = Idle /\ Quiet(p)' /\ ShapeOf(p)' /\ DupOf(p)'
  BY <1>8, IdleStep DEF Control
<1>11. Others(p)
  BY <1>10, OnlyOthers
<1>12. /\ ofile' \in [Tasks -> [Fds -> 0 .. NFILE]] /\ ofile'[p][e] = f
       /\ \A t \in Tasks : t # p => ofile'[t] = ofile[t]
       /\ \A t \in Tasks : \A z \in Fds : t # p \/ z # e => ofile'[t][z] = ofile[t][z]
  <2>1. f \in 0 .. NFILE
    BY DEF Files, FileTableAssumption
  <2> QED
    BY <1>8, <2>1 DEF Control, FileTypes
<1>13. /\ file' \in [Files -> Entry] /\ file'[f] = y
       /\ \A g \in Files : g # f => file'[g] = file[g]
  BY <1>7, <1>9 DEF Control, FileTypes
<1>14. /\ locked' \in [Inodes -> Tasks \cup {Nil}]
       /\ \A i \in Inodes : i # h => locked'[i] = locked[i]
  BY <1>8 DEF Control, FileTypes
<1>15. /\ moved' \in [Files -> [0 .. MaxOff - 1 -> Nat]]
       /\ \A b \in 0 .. MaxOff - 1 : moved'[f][b] = 0
       /\ \A g \in Files : g # f => moved'[g] = moved[g]
  <2>1. moved[f] \in [0 .. MaxOff - 1 -> Nat] /\ moved \in [Files -> [0 .. MaxOff - 1 -> Nat]]
    BY DEF Control, FileTypes
  <2>2. PICK m : m = [b \in 0 .. MaxOff - 1 |-> 0]
    OBVIOUS
  <2>3. moved' = [moved EXCEPT ![f] = m]
    BY <1>8, <2>1, <2>2
  <2>4. m \in [0 .. MaxOff - 1 -> Nat] /\ \A b \in 0 .. MaxOff - 1 : m[b] = 0
    BY <2>2
  <2> QED
    BY <2>1, <2>3, <2>4
<1>16. FileTypes'
  BY <1>0, <1>10, <1>12, <1>13, <1>14, <1>15 DEF Control, FileTypes, Only
<1>17. Control'
  <2>1. op[p].pc \notin {"fork", "embryo", "user"} /\ op'[p].pc \notin {"fork", "embryo"}
    BY <1>0, <1>10 DEF Idle
  <2> QED
    BY <1>0, <1>10, <1>12, <1>16, <2>1, ControlKept
<1>18. Counts'
  <2>1. ASSUME NEW g \in Files
        PROVE  file'[g].ref = Count(g)'
    <3>1. \A t \in Tasks : \A z \in Fds : t # p \/ z # e => (Has(t, z, g)' <=> Has(t, z, g))
      BY <1>3, <1>10, <1>12 DEF Has, Only, Quiet
    <3>2. ~Has(p, e, g) /\ (Has(p, e, g)' <=> g = f)
      BY <1>3, <1>5, <1>10, <1>12 DEF Has, Quiet, Fds, NoFd, Files
    <3>3. \A t \in Tasks : t # p => op'[t].f0 = op[t].f0 /\ op'[t].f1 = op[t].f1
      BY <1>10 DEF Only
    <3>4. file[g].ref = Count(g) /\ Count(g) \in Int
      BY RefIsCount, CountFinite DEF Counts, Count
    <3>5. op'[p].f0 # g /\ op'[p].f1 # g /\ op[p].f1 # g /\ (op[p].f0 = g <=> g = f)
      BY <1>1, <1>3, <1>10 DEF Quiet, Files
    <3>6. Count(g)' = Count(g)
      BY <3>1, <3>2, <3>3, <3>4, <3>5, CountStep
    <3>7. file'[g].ref = file[g].ref
      BY <1>4, <1>7, <1>13
    <3> QED
      BY <3>4, <3>6, <3>7
  <2>2. RefsExact'
    BY <2>1, RefsAre
  <2>3. FreshEntries'
    <3>1. FreshOf(p)'
      BY <1>10 DEF FreshOf, Quiet, InHand, Files
    <3>2. f \in InHand(p)
      BY <1>1 DEF InHand, Files
    <3> QED
      BY <1>11, <1>13, <3>1, <3>2, FreshKept
  <2>4. Sorts'
    <3>1. op'[p].pc # "drop"
      BY <1>10 DEF Quiet
    <3> QED
      BY <1>7, <1>10, <1>13, <3>1 DEF Only, Counts, Sorts, Sound
  <2> QED
    BY <2>2, <2>3, <2>4 DEF Counts
<1>19. Objects'
  <2>1. \A g \in Files : \A i \in Pipes : \A w : Is(file[g], i, w)' <=> Is(file[g], i, w)
    BY <1>4, <1>7, <1>13 DEF Is, Standing, FileTableAssumption
  <2>2. \A g \in Files : \A i \in Inodes : g # f => (Standing(file[g], i)' <=> Standing(file[g], i))
    BY <1>13 DEF Standing
  <2>3. \A i \in Inodes :
          \/ /\ Standing(file[f], i)' <=> Standing(file[f], i)
             /\ (op'[p].hold = i <=> op[p].hold = i) /\ iref'[i] = iref[i]
          \/ /\ Standing(file[f], i)' /\ ~Standing(file[f], i)
             /\ op'[p].hold # i /\ op[p].hold = i /\ iref'[i] = iref[i]
    BY <1>0, <1>2, <1>4, <1>7, <1>10, <1>13 DEF Standing, Quiet, FileTableAssumption
  <2>4. op[p].pc # "drop" /\ op'[p].pc # "drop"
    BY <1>0, <1>10 DEF Quiet
  <2> QED
    BY <1>0, <1>11, <2>1, <2>2, <2>3, <2>4, ObjectsMoved
<1>20. Streams'
  <2>1. \A q \in Tasks : op'[q].pc \in Moving => q # p /\ op'[q] = op[q]
    BY <1>10 DEF Only, Quiet, Moving
  <2>2. ASSUME NEW q \in Tasks, op[q].pc \in Moving
        PROVE  /\ op[q].f \in Files /\ file'[op[q].f] = file[op[q].f]
               /\ file[op[q].f].obj \in Inodes /\ q # p
    BY <1>0, <1>4, <1>13, <2>2 DEF Streams, Using, Moving, Counts, Sorts, Sound
  <2>3. \A i \in Inodes : locked[i] \in Tasks /\ locked[i] # p => locked'[i] = locked[i]
    BY <1>0, <1>2, <1>14 DEF Streams, InodeLocks, FileTableAssumption
  <2>4. InodeLocks'
    <3>1. ASSUME NEW q \in Tasks, op'[q].hold # Nil
          PROVE  locked'[op'[q].hold] = q
      BY <1>10, <2>3, <3>1 DEF Only, Quiet, Streams, InodeLocks, Control, FileTypes, Call
    <3>2. ASSUME NEW q \in Tasks, op'[q].pc = "advance"
          PROVE  locked'[file'[op'[q].f].obj] = q
      BY <2>1, <2>2, <2>3, <3>2 DEF Streams, InodeLocks, Moving
    <3> QED
      BY <3>1, <3>2 DEF InodeLocks
  <2>5. Using'
    BY <1>12, <2>1, <2>2 DEF Streams, Using, Moving
  <2>6. Stream'
    <3> SUFFICES ASSUME NEW g \in Files, NEW b \in 0 .. MaxOff - 1
                 PROVE  /\ moved'[g][b] =< 1
                        /\ file'[g].type = "FD_INODE" /\ b >= file'[g].off /\ moved'[g][b] > 0 =>
                             \E q \in Tasks : /\ op'[q].pc = "advance" /\ op'[q].f = g
                                              /\ b < file'[g].off + op'[q].r
      BY DEF Stream
    <3>1. CASE g = f
      BY <1>15, <3>1
    <3>2. CASE g # f
      <4>1. moved'[g] = moved[g] /\ file'[g] = file[g]
        BY <1>13, <1>15, <3>2
      <4>2. \A q \in Tasks : op[q].pc = "advance" => op'[q] = op[q]
        BY <1>0, <1>10 DEF Only
      <4> QED
        BY <4>1, <4>2 DEF Streams, Stream
    <3> QED
      BY <3>1, <3>2
  <2> QED
    BY <2>4, <2>5, <2>6 DEF Streams
<1> QED
  BY <1>17, <1>18, <1>19, <1>20

\* pipealloc() has a page: both entries in hand become ends of one pipe.
LEMMA PipePageInv ==
    ASSUME FileTableAssumption, FileInv, NEW p \in Tasks, PipePage(p)
    PROVE  FileInv'
<1> USE DEF FileInv
<1>0. /\ op[p].pc = "pipe" /\ op[p].f1 # 0 /\ ShapeOf(p) /\ FreshOf(p)
      /\ UNCHANGED <<ofile, live, iref, locked, moved>>
  BY DEF PipePage, Doing, Control, Shape, Counts, FreshEntries
<1>1. CASE Go(p, "closing") /\ UNCHANGED <<file, ends>>
  BY <1>0, <1>1, GoInv DEF Turns
<1>2. ASSUME NEW i \in Pipes, ends[i] = {}, ends' = [ends EXCEPT ![i] = {"read", "write"}],
             file' = [file EXCEPT
               ![op[p].f0] = [@ EXCEPT !.type = "FD_PIPE", !.obj = i, !.writable = FALSE],
               ![op[p].f1] = [@ EXCEPT !.type = "FD_PIPE", !.obj = i, !.writable = TRUE]],
             Go(p, "pipe_fds")
      PROVE  FileInv'
  <2>1. PICK a, b \in Files : a = op[p].f0 /\ b = op[p].f1
    <3>1. /\ op[p].f0 # 0 /\ op[p].f0 \in 0 .. NFILE
          /\ op[p].f1 # 0 /\ op[p].f1 \in 0 .. NFILE
      BY <1>0 DEF ShapeOf, Control, FileTypes, Call
    <3> QED
      BY ONLY <3>1, FileTableAssumption DEF Files, FileTableAssumption
  <2>2. \A f \in Files : f \in InHand(p) <=> f = a \/ f = b
    BY <2>1 DEF InHand, Files
  <2>3. PICK x, y \in Entry : /\ x = file[a] /\ x.ref = 1 /\ x.type = "FD_NONE"
                              /\ y = file[b] /\ y.ref = 1 /\ y.type = "FD_NONE"
    BY <1>0, <2>2 DEF FreshOf, Control, FileTypes
  <2>4. a # b
    BY <2>1, <2>3, Counted DEF Control, Counts
  <2>5. PICK u, v : /\ u = [x EXCEPT !.type = "FD_PIPE", !.obj = i, !.writable = FALSE]
                    /\ v = [y EXCEPT !.type = "FD_PIPE", !.obj = i, !.writable = TRUE]
    OBVIOUS
  <2>6. /\ u \in Entry /\ u.ref = 1 /\ u.type = "FD_PIPE" /\ u.obj = i /\ u.writable = FALSE
        /\ v \in Entry /\ v.ref = 1 /\ v.type = "FD_PIPE" /\ v.obj = i /\ v.writable = TRUE
    <3>1. i \in Inodes \cup Pipes \cup {Nil}
      OBVIOUS
    <3> QED
      BY <2>3, <2>5, <3>1 DEF Entry
  <2>7. file' = [file EXCEPT ![a] = u, ![b] = v]
    BY <1>2, <2>1, <2>3, <2>4, <2>5 DEF Control, FileTypes
  <2>8. /\ file' \in [Files -> Entry] /\ file'[a] = u /\ file'[b] = v
        /\ \A f \in Files : f # a /\ f # b => file'[f] = file[f]
    BY <2>4, <2>6, <2>7 DEF Control, FileTypes
  <2>9. /\ ends' \in [Pipes -> SUBSET {"read", "write"}] /\ ends'[i] = {"read", "write"}
        /\ \A j \in Pipes : j # i => ends'[j] = ends[j]
    BY <1>2 DEF Control, FileTypes
  <2>10. /\ Only(p) /\ op'[p].pc = "pipe_fds" /\ op'[p].f0 = op[p].f0 /\ op'[p].f1 = op[p].f1
         /\ op'[p].hold = op[p].hold /\ op'[p].fd = op[p].fd
    BY <1>2, GoFacts DEF Control, Labels
  <2>11. Others(p)
    BY <2>10, OnlyOthers
  <2>12. FileTypes'
    BY <1>0, <2>8, <2>9, <2>10 DEF Control, FileTypes, Only
  <2>13. Control'
    <3>1. ShapeOf(p)' /\ DupOf(p)'
      BY <1>0, <2>10 DEF ShapeOf, DupOf
    <3>2. op[p].pc \notin {"fork", "embryo", "user"} /\ op'[p].pc \notin {"fork", "embryo"}
      BY <1>0, <2>10
    <3> QED
      BY <1>0, <2>10, <2>12, <3>1, <3>2, ControlKept
  <2>14. Counts'
    <3>1. \A f \in Files : Count(f)' = Count(f)
      <4>1. \A q \in Tasks : op'[q].f0 = op[q].f0 /\ op'[q].f1 = op[q].f1 /\ op'[q].fd = op[q].fd
        BY <2>10 DEF Only
      <4> QED
        BY ONLY <1>0, <4>1 DEF Count, Descriptors, F0, F1
    <3>2. \A f \in Files : file'[f].ref = file[f].ref
      BY <2>3, <2>6, <2>8
    <3>3. RefsExact'
      BY <3>1, <3>2, RefIsCount, RefsAre DEF Counts
    <3>4. FreshEntries'
      <4>1. \A f \in Files : f \in InHand(p)' => f \in InHand(p)
        BY <2>10 DEF InHand
      <4>2. FreshOf(p)'
        BY <2>2, <2>6, <2>8, <2>10, <4>1 DEF FreshOf
      <4> QED
        BY <2>2, <2>8, <2>11, <4>2, FreshKept
    <3>5. Sorts'
      BY <2>6, <2>8, <2>10 DEF Only, Counts, Sorts, Sound
    <3> QED
      BY <3>3, <3>4, <3>5 DEF Counts
  <2>15. Objects'
    <3>1. \A j \in Inodes : \A f \in Files : Standing(file[f], j)' <=> Standing(file[f], j)
      BY <2>3, <2>6, <2>8 DEF Standing, FileTableAssumption
    <3>2. \A q \in Tasks : \A j, w : /\ Dropping(q, j, w)' <=> Dropping(q, j, w)
                                     /\ q \in Drops(j)' <=> q \in Drops(j)
                                     /\ op'[q].hold = op[q].hold
      BY <1>0, <2>10 DEF Only, Dropping, Drops, Doing
    <3>3. \A j \in Inodes : Uses(j)' = Uses(j)
      <4> SUFFICES ASSUME NEW j \in Inodes
                   PROVE  Uses(j)' = Uses(j)
        OBVIOUS
      <4>1. Entries(j)' = Entries(j) /\ Holds(j)' = Holds(j) /\ Drops(j)' = Drops(j)
        BY <3>1, <3>2 DEF Entries, Holds, Drops
      <4> QED
        BY <4>1 DEF Uses
    <3>4. /\ \A w : Is(file[a], i, w)' <=> w = FALSE
          /\ \A w : Is(file[b], i, w)' <=> w = TRUE
          /\ \A f \in Files : \A w : f # a /\ f # b => (Is(file[f], i, w)' <=> Is(file[f], i, w))
          /\ \A f \in Files : \A j \in Pipes : \A w :
               j # i => (Is(file[f], j, w)' <=> Is(file[f], j, w))
      BY <2>3, <2>6, <2>8 DEF Is, Standing
    <3>5. Balance
      BY ObjectsAre DEF Objects
    <3>6. \A w \in BOOLEAN : /\ \A f \in Files : ~Is(file[f], i, w)
                             /\ \A q \in Tasks : ~Dropping(q, i, w)
      BY <1>2, <3>5 DEF Balance
    <3>7. ASSUME NEW j \in Pipes, NEW w \in BOOLEAN
          PROVE  ((IF w THEN "write" ELSE "read") \in ends'[j]) <=>
                   \/ \E f \in Files : Is(file[f], j, w)'
                   \/ \E q \in Tasks : Dropping(q, j, w)'
      <4>1. CASE j = i
        <5>1. (IF w THEN "write" ELSE "read") \in ends'[i]
          BY <2>9
        <5>2. \E f \in Files : Is(file[f], i, w)'
          BY <3>4
        <5> QED
          BY <4>1, <5>1, <5>2
      <4>2. CASE j # i
        BY <2>9, <3>2, <3>4, <3>5, <4>2 DEF Balance
      <4> QED
        BY <4>1, <4>2
    <3>8. Balance'
      BY <1>0, <3>3, <3>5, <3>7 DEF Balance
    <3>9. ASSUME NEW j \in Pipes, NEW w \in BOOLEAN
          PROVE  /\ \A f, g \in Files : Is(file[f], j, w)' /\ Is(file[g], j, w)' => f = g
                 /\ \A q, t \in Tasks : Dropping(q, j, w)' /\ Dropping(t, j, w)' => q = t
                 /\ \A f \in Files : \A q \in Tasks : ~(Is(file[f], j, w)' /\ Dropping(q, j, w)')
      <4>1. CASE j = i
        BY <3>2, <3>4, <3>6, <4>1
      <4>2. CASE j # i
        <5>1. /\ \A f, g \in Files : Is(file[f], j, w) /\ Is(file[g], j, w) => f = g
              /\ \A q, t \in Tasks : Dropping(q, j, w) /\ Dropping(t, j, w) => q = t
              /\ \A f \in Files : \A q \in Tasks : ~(Is(file[f], j, w) /\ Dropping(q, j, w))
          BY DEF Objects, OneEnd
        <5>2. \A f \in Files : Is(file[f], j, w)' <=> Is(file[f], j, w)
          BY <3>4, <4>2
        <5>3. \A q \in Tasks : Dropping(q, j, w)' <=> Dropping(q, j, w)
          BY <3>2
        <5> QED
          BY ONLY <5>1, <5>2, <5>3
      <4> QED
        BY <4>1, <4>2
    <3>10. OneEnd'
      BY <3>9 DEF OneEnd
    <3> QED
      BY <3>8, <3>10, ObjectsWillBe DEF Objects
  <2>16. Streams'
    <3>1. \A f \in Files : file'[f].type = "FD_INODE" => file'[f] = file[f]
      BY <2>6, <2>8
    <3>2. \A q \in Tasks : op[q].pc \in Moving =>
            ofile'[q] = ofile[q] /\ file'[op[q].f].type = "FD_INODE"
      BY <1>0, <2>3, <2>8 DEF Streams, Using, Moving
    <3>3. op'[p].hold # Nil => locked'[op'[p].hold] = p
      BY <1>0, <2>10 DEF Streams, InodeLocks
    <3>4. op[p].pc \notin Moving /\ op'[p].pc \notin Moving
      BY <1>0, <2>10 DEF Moving
    <3> QED
      BY <1>0, <2>11, <2>12, <3>1, <3>2, <3>3, <3>4, StreamsKept
  <2> QED
    BY <2>13, <2>14, <2>15, <2>16
<1> QED
  BY <1>1, <1>2 DEF PipePage

\* Steps that change neither counts nor what they count.
LEMMA CallsOnly ==
    ASSUME FileTableAssumption, FileInv, NEW p \in Tasks, Others(p), FreshOf(p)',
           op'[p].f0 = op[p].f0, op'[p].f1 = op[p].f1, op'[p].fd = op[p].fd,
           op'[p].hold = op[p].hold, op[p].pc # "drop", op'[p].pc # "drop",
           \A f \in Files : /\ file'[f].ref = file[f].ref /\ file'[f].type = file[f].type
                            /\ file'[f].obj = file[f].obj
                            /\ file'[f].writable = file[f].writable,
           UNCHANGED <<ofile, iref, ends>>
    PROVE  Counts' /\ Objects'
<1>1. \A q \in Tasks : op'[q].f0 = op[q].f0 /\ op'[q].f1 = op[q].f1 /\ op'[q].fd = op[q].fd
  BY DEF Others, Quiet
<1>2. \A f \in Files : Count(f)' = Count(f)
  BY ONLY <1>1, UNCHANGED <<ofile, iref, ends>> DEF Count, Descriptors, F0, F1
<1>3. RefsExact'
  BY <1>2, RefIsCount, RefsAre DEF FileInv, Counts
<1>4. FreshEntries'
  BY FreshKept
<1>5. Sorts'
  BY SortsKept
<1>6. Objects'
  BY ObjectsKept
<1> QED
  BY <1>3, <1>4, <1>5, <1>6 DEF Counts

\* fork() begins: the slot of the child is taken.
LEMMA ForkInv ==
    ASSUME FileTableAssumption, FileInv, NEW p \in Tasks, NEW c \in Tasks, Fork(p, c)
    PROVE  FileInv'
<1> USE DEF FileInv
<1>0. /\ c \notin live /\ op[c].pc = "user"
      /\ UNCHANGED <<file, ofile, live, iref, ends, locked, moved>>
  BY DEF Fork, Doing
<1>1. Quiet(p) /\ p \in live /\ op[p].pc = "user" /\ InHand(p) = {}
  BY ReadyFacts DEF Fork
<1>2. p # c /\ ShapeOf(c) /\ op \in [Tasks -> Call]
  BY <1>0, <1>1 DEF Control, FileTypes, Shape
<1>3. PICK x \in Call : x = op[c]
  BY <1>2
<1>4. PICK R, S : /\ R = [Idle EXCEPT !.pc = "fork", !.child = c]
                  /\ S = [x EXCEPT !.pc = "embryo"]
  OBVIOUS
<1>5. /\ R \in Call /\ R.pc = "fork" /\ R.child = c /\ R.f0 = 0 /\ R.f1 = 0 /\ R.hold = Nil
      /\ R.fd = NoFd
  BY <1>4, IdleFacts DEF Call, Labels
<1>6. /\ S \in Call /\ S.pc = "embryo" /\ S.f0 = x.f0 /\ S.f1 = x.f1 /\ S.hold = x.hold
      /\ S.fd = x.fd
  <2>1. "embryo" \in Labels
    BY DEF Labels
  <2> QED
    BY <1>3, <1>4, <2>1 DEF Call
<1>7. op' = [op EXCEPT ![p] = R, ![c] = S]
  BY <1>2, <1>3, <1>4 DEF Fork
<1>8. /\ op' \in [Tasks -> Call] /\ op'[p] = R /\ op'[c] = S
      /\ \A q \in Tasks : q # p /\ q # c => op'[q] = op[q]
  BY <1>2, <1>5, <1>6, <1>7
<1>9. Quiet(c) /\ Quiet(c)'
  BY <1>0, <1>2, <1>3, <1>6, <1>8 DEF Quiet, ShapeOf
<1>10. Others(p)
  BY <1>8, <1>9 DEF Others
<1>11. Control'
  <2>1. FileTypes'
    BY <1>0, <1>8 DEF Control, FileTypes
  <2>2. Shape'
    <3>1. ShapeOf(p)' /\ ShapeOf(c)'
      BY <1>5, <1>8, <1>9 DEF ShapeOf, Quiet
    <3> QED
      BY <1>8, <3>1 DEF Control, Shape, ShapeOf
  <2>3. Slots'
    BY <1>0, <1>1, <1>6, <1>8 DEF Control, Slots
  <2>4. \A q \in Tasks : op'[q].pc = "fork" /\ q # p => /\ op'[q] = op[q] /\ op[q].child # c
                                                        /\ op[q].child # p /\ op[q].child \in Tasks
    BY <1>0, <1>1, <1>6, <1>8 DEF Control, FileForks
  <2>5. FileForks'
    <3>1. ASSUME NEW q \in Tasks, op'[q].pc = "fork", q # p
          PROVE  /\ op'[q].child \in Tasks /\ op'[op'[q].child].pc = "embryo"
                 /\ \A fd \in Fds : fd >= op'[q].n => ofile'[op'[q].child][fd] = 0
                 /\ \A t \in Tasks : op'[t].pc = "fork" /\ op'[t].child = op'[q].child => t = q
      <4>1. op'[q] = op[q] /\ op'[op[q].child] = op[op[q].child]
        BY <1>8, <2>4, <3>1
      <4>2. \A t \in Tasks : op'[t].pc = "fork" /\ op'[t].child = op[q].child => t # p /\ op'[t] = op[t]
        BY <1>5, <1>8, <2>4, <3>1
      <4> QED
        BY <1>0, <2>4, <3>1, <4>1, <4>2 DEF Control, FileForks
    <3>2. /\ op'[p].child \in Tasks /\ op'[op'[p].child].pc = "embryo"
          /\ \A fd \in Fds : fd >= op'[p].n => ofile'[op'[p].child][fd] = 0
          /\ \A t \in Tasks : op'[t].pc = "fork" /\ op'[t].child = op'[p].child => t = p
      BY <1>0, <1>5, <1>6, <1>8, <2>4 DEF Control, Slots
    <3> QED
      BY <3>1, <3>2 DEF FileForks
  <2>6. Dups'
    BY <1>0, <1>5, <1>6, <1>8 DEF Control, Dups, DupOf
  <2> QED
    BY <2>1, <2>2, <2>3, <2>5, <2>6 DEF Control
<1>12. Counts' /\ Objects'
  <2>1. FreshOf(p)' /\ op'[p].pc # "drop" /\ op[p].pc # "drop"
    BY <1>1, <1>5, <1>8 DEF FreshOf
  <2>2. /\ op'[p].f0 = op[p].f0 /\ op'[p].f1 = op[p].f1 /\ op'[p].fd = op[p].fd
        /\ op'[p].hold = op[p].hold
    BY <1>1, <1>5, <1>8 DEF Quiet
  <2> QED
    BY <1>0, <1>10, <2>1, <2>2, CallsOnly
<1>13. Streams'
  <2>1. \A q \in Tasks : op[q].pc \in Moving =>
          ofile'[q] = ofile[q] /\ file'[op[q].f].type = "FD_INODE"
    BY <1>0 DEF Streams, Using, Moving
  <2>2. op'[p].hold = Nil /\ op[p].pc \notin Moving /\ op'[p].pc \notin Moving
    BY <1>1, <1>5, <1>8 DEF Moving
  <2> QED
    BY <1>0, <1>10, <1>11, <2>1, <2>2, StreamsKept DEF Control
<1> QED
  BY <1>11, <1>12, <1>13

\* fork() ends: the child has its descriptors and runs.
LEMMA ForkEndInv ==
    ASSUME FileTableAssumption, FileInv, NEW p \in Tasks, NEW c \in Tasks, op[p].pc = "fork",
           c = op[p].child, live' = live \cup {c}, op' = [op EXCEPT ![p] = Idle, ![c] = Idle],
           UNCHANGED <<file, ofile, iref, ends, locked, moved>>
    PROVE  FileInv'
<1> USE DEF FileInv
<1>1. /\ op[c].pc = "embryo" /\ p # c /\ p \in live /\ ShapeOf(c) /\ ShapeOf(p)
      /\ \A q \in Tasks : op[q].pc = "fork" /\ q # p => op[q].child # c
  BY DEF Control, FileForks, Slots, Shape
<1>2. /\ op' \in [Tasks -> Call] /\ op'[p] = Idle /\ op'[c] = Idle
      /\ \A q \in Tasks : q # p /\ q # c => op'[q] = op[q]
  BY IdleFacts DEF Control, FileTypes
<1>3. Quiet(c) /\ Quiet(c)' /\ Quiet(p)' /\ op'[p].pc = "user" /\ op'[c].pc = "user"
  BY <1>1, <1>2, IdleFacts DEF Quiet, ShapeOf
<1>4. op[p].f0 = 0 /\ op[p].f1 = 0 /\ op[p].hold = Nil /\ op[p].fd = NoFd
  BY <1>1 DEF ShapeOf
<1>5. Others(p)
  BY <1>2, <1>3 DEF Others
<1>6. Control'
  <2>1. FileTypes'
    BY <1>2 DEF Control, FileTypes
  <2>2. Shape'
    <3>1. ShapeOf(p)' /\ ShapeOf(c)'
      BY <1>3 DEF ShapeOf, Quiet
    <3> QED
      BY <1>2, <3>1 DEF Control, Shape, ShapeOf
  <2>3. Slots'
    BY <1>1, <1>2 DEF Control, Slots
  <2>4. FileForks'
    <3> SUFFICES ASSUME NEW q \in Tasks, op'[q].pc = "fork"
                 PROVE  /\ op'[q].child \in Tasks /\ op'[op'[q].child].pc = "embryo"
                        /\ \A fd \in Fds : fd >= op'[q].n => ofile'[op'[q].child][fd] = 0
                        /\ \A t \in Tasks : op'[t].pc = "fork" /\ op'[t].child = op'[q].child => t = q
      BY DEF FileForks
    <3>1. q # p /\ q # c /\ op'[q] = op[q]
      BY <1>2, <1>3
    <3>2. op[q].child \in Tasks /\ op[q].child # c /\ op[q].child # p
      BY <1>1, <3>1 DEF Control, FileForks
    <3>3. op'[op[q].child] = op[op[q].child]
      BY <1>2, <3>2
    <3>4. \A t \in Tasks : op'[t].pc = "fork" => op'[t] = op[t]
      BY <1>2, <1>3
    <3>5. /\ op[op[q].child].pc = "embryo"
          /\ \A fd \in Fds : fd >= op[q].n => ofile[op[q].child][fd] = 0
          /\ \A t \in Tasks : op[t].pc = "fork" /\ op[t].child = op[q].child => t = q
      BY <3>1 DEF Control, FileForks
    <3>6. ofile' = ofile
      OBVIOUS
    <3> QED
      BY ONLY <3>1, <3>2, <3>3, <3>4, <3>5, <3>6
  <2>5. Dups'
    BY <1>2, <1>3 DEF Control, Dups, DupOf
  <2> QED
    BY <2>1, <2>2, <2>3, <2>4, <2>5 DEF Control
<1>7. Counts' /\ Objects'
  <2>1. FreshOf(p)' /\ op'[p].pc # "drop" /\ op[p].pc # "drop"
    BY <1>3 DEF FreshOf
  <2>2. /\ op'[p].f0 = op[p].f0 /\ op'[p].f1 = op[p].f1 /\ op'[p].fd = op[p].fd
        /\ op'[p].hold = op[p].hold
    BY <1>3, <1>4 DEF Quiet
  <2> QED
    BY <1>5, <2>1, <2>2, CallsOnly
<1>8. Streams'
  <2>1. \A q \in Tasks : op[q].pc \in Moving =>
          ofile'[q] = ofile[q] /\ file'[op[q].f].type = "FD_INODE"
    BY DEF Streams, Using, Moving
  <2>2. op'[p].hold = Nil /\ op[p].pc \notin Moving /\ op'[p].pc \notin Moving
    BY <1>3 DEF Moving, Quiet
  <2> QED
    BY <1>5, <1>6, <2>1, <2>2, StreamsKept DEF Control
<1> QED
  BY <1>6, <1>7, <1>8

\* fork() copies one descriptor.
LEMMA ForkCopyInv ==
    ASSUME FileTableAssumption, FileInv, NEW p \in Tasks, NEW c \in Tasks, NEW e \in Fds, NEW g \in Files,
           op[p].pc = "fork", c = op[p].child, e >= op[p].n, g = ofile[p][e], Filedup(g),
           ofile' = [ofile EXCEPT ![c][e] = g], op' = [op EXCEPT ![p].n = e + 1],
           UNCHANGED <<live, iref, ends, locked, moved>>
    PROVE  FileInv'
<1> USE DEF FileInv
<1>1. /\ op[c].pc = "embryo" /\ p # c /\ p \in live /\ ShapeOf(c) /\ ShapeOf(p)
      /\ \A fd \in Fds : fd >= op[p].n => ofile[c][fd] = 0
      /\ \A q \in Tasks : op[q].pc = "fork" /\ q # p => op[q].child # c
  BY DEF Control, FileForks, Slots, Shape
<1>2. op[p].f0 = 0 /\ op[p].f1 = 0 /\ op[p].hold = Nil /\ op[p].fd = NoFd /\ op[c].fd = NoFd
  BY <1>1 DEF ShapeOf
<1>3. PICK x \in Call : x = op[p]
  BY DEF Control, FileTypes
<1>4. PICK R : R = [x EXCEPT !.n = e + 1]
  OBVIOUS
<1>5. /\ R \in Call /\ R.pc = x.pc /\ R.f0 = x.f0 /\ R.f1 = x.f1 /\ R.hold = x.hold
      /\ R.fd = x.fd /\ R.child = x.child /\ R.n = e + 1
  <2>1. e + 1 \in Int
    BY DEF Fds
  <2> QED
    BY <1>4, <2>1 DEF Call
<1>6. Only(p) /\ op'[p] = R
  <2>1. op' = [op EXCEPT ![p] = R]
    BY <1>3, <1>4
  <2> QED
    BY <1>5, <2>1, SetFacts DEF Control
<1>7. Others(p)
  BY <1>6, OnlyOthers
<1>8. /\ ofile' \in [Tasks -> [Fds -> 0 .. NFILE]] /\ ofile'[c][e] = g
      /\ \A t \in Tasks : t # c => ofile'[t] = ofile[t]
      /\ \A t \in Tasks : \A z \in Fds : t # c \/ z # e => ofile'[t][z] = ofile[t][z]
  <2>1. g \in 0 .. NFILE
    BY DEF Files, FileTableAssumption
  <2> QED
    BY <2>1 DEF Control, FileTypes
<1>9. /\ file' \in [Files -> Entry] /\ file'[g].ref = file[g].ref + 1
      /\ \A f \in Files : f # g => file'[f] = file[f]
      /\ \A f \in Files : /\ file'[f].type = file[f].type /\ file'[f].obj = file[f].obj
                          /\ file'[f].writable = file[f].writable /\ file'[f].off = file[f].off
                          /\ file[f].ref \in Nat
  <2>1. \A f \in Files : file[f].ref \in Nat
    BY DEF Control, FileTypes, Entry
  <2>2. PICK n \in Nat : n = file[g].ref + 1
    BY <2>1
  <2>3. file' = [file EXCEPT ![g].ref = n]
    BY <2>2 DEF Filedup
  <2> QED
    BY <2>1, <2>2, <2>3, RefSet DEF Control
<1>10. Control'
  <2>1. FileTypes'
    BY <1>6, <1>8, <1>9 DEF Control, FileTypes, Only
  <2>2. Shape'
    <3>1. ShapeOf(p)'
      BY <1>1, <1>3, <1>5, <1>6 DEF ShapeOf
    <3> QED
      BY <1>6, <3>1 DEF Control, Shape, ShapeOf, Only
  <2>3. Slots'
    BY <1>1, <1>6, <1>8 DEF Control, Slots, Only
  <2>4. FileForks'
    <3>1. ASSUME NEW q \in Tasks, op'[q].pc = "fork"
          PROVE  /\ op'[q].child \in Tasks /\ op'[op'[q].child].pc = "embryo"
                 /\ \A t \in Tasks : op'[t].pc = "fork" /\ op'[t].child = op'[q].child => t = q
      <4>1. \A t \in Tasks : op'[t].pc = op[t].pc /\ op'[t].child = op[t].child
        BY <1>3, <1>5, <1>6 DEF Only
      <4> QED
        BY <3>1, <4>1 DEF Control, FileForks
    <3>2. ASSUME NEW q \in Tasks, op'[q].pc = "fork", NEW fd \in Fds, fd >= op'[q].n
          PROVE  ofile'[op'[q].child][fd] = 0
      <4>1. CASE q = p
        <5>1. fd # e /\ fd >= op[p].n /\ op'[p].child = c
          BY <1>3, <1>5, <1>6, <3>2, <4>1 DEF Fds, Control, FileTypes, Call
        <5> QED
          BY <1>1, <1>8, <4>1, <5>1
      <4>2. CASE q # p
        <5>1. op'[q] = op[q] /\ op[q].child # c /\ op[q].child \in Tasks
          BY <1>1, <1>6, <3>2, <4>2 DEF Only, Control, FileForks
        <5> QED
          BY <1>8, <3>2, <5>1 DEF Control, FileForks
      <4> QED
        BY <4>1, <4>2
    <3> QED
      BY <3>1, <3>2 DEF FileForks
  <2>5. Dups'
    <3> SUFFICES ASSUME NEW q \in Tasks, op'[q].pc = "dup"
                 PROVE  DupOf(q)'
      BY DEF Dups, DupOf
    <3>1. q # p /\ q # c /\ op'[q] = op[q] /\ ofile'[q] = ofile[q]
      BY <1>1, <1>3, <1>5, <1>6, <1>8 DEF Only
    <3> QED
      BY <3>1 DEF Control, Dups, DupOf
  <2> QED
    BY <2>1, <2>2, <2>3, <2>4, <2>5 DEF Control
<1>11. op'[p].pc = "fork" /\ op'[p].hold = Nil /\ FreshOf(p)'
  BY <1>2, <1>3, <1>5, <1>6 DEF FreshOf
<1>12. Counts'
  <2>1. ASSUME NEW f \in Files
        PROVE  file'[f].ref = Count(f)'
    <3>1. \A t \in Tasks : \A z \in Fds : t # c \/ z # e => (Has(t, z, f)' <=> Has(t, z, f))
      BY <1>3, <1>5, <1>6, <1>8 DEF Has, Only
    <3>2. ~Has(c, e, f) /\ (Has(c, e, f)' <=> f = g)
      BY <1>1, <1>2, <1>6, <1>8 DEF Has, Only, Fds, NoFd, Files
    <3>3. \A t \in Tasks : op'[t].f0 = op[t].f0 /\ op'[t].f1 = op[t].f1
      BY <1>3, <1>5, <1>6 DEF Only
    <3>4. file[f].ref = Count(f) /\ Count(f) \in Int
      BY RefIsCount, CountFinite DEF Counts, Count
    <3>5. Count(f)' = Count(f) + (IF f = g THEN 1 ELSE 0)
      BY <3>1, <3>2, <3>3, <3>4, CountStep
    <3> QED
      BY <1>9, <3>4, <3>5
  <2>2. RefsExact'
    BY <2>1, RefsAre
  <2>3. FreshEntries'
    <3>1. Has(p, e, g)
      BY <1>2 DEF Has, Fds, NoFd
    <3>2. \A f \in Files : \/ file'[f].ref = file[f].ref /\ file'[f].type = file[f].type
                           \/ \E t \in Tasks : \E z \in Fds : Has(t, z, f)
      BY <1>9, <3>1
    <3> QED
      BY <1>7, <1>11, <3>2, FreshKept
  <2>4. Sorts'
    <3>1. \A f \in Files : file'[f].ref = 0 => file[f].ref = 0
      BY <1>9
    <3> QED
      BY <1>7, <1>9, <1>11, <3>1, SortsKept
  <2> QED
    BY <2>2, <2>3, <2>4 DEF Counts
<1>13. Objects'
  BY <1>2, <1>7, <1>9, <1>11, ObjectsKept
<1>14. Streams'
  <2>1. \A q \in Tasks : op[q].pc \in Moving =>
          ofile'[q] = ofile[q] /\ file'[op[q].f].type = "FD_INODE"
    BY <1>1, <1>8, <1>9 DEF Streams, Using, Moving
  <2>2. op'[p].hold = Nil /\ op[p].pc \notin Moving /\ op'[p].pc \notin Moving
    BY <1>11 DEF Moving
  <2> QED
    BY <1>7, <1>9, <1>10, <2>1, <2>2, StreamsKept DEF Control
<1> QED
  BY <1>10, <1>12, <1>13, <1>14

LEMMA ForkFileInv ==
    ASSUME FileTableAssumption, FileInv, NEW p \in Tasks, ForkFile(p)
    PROVE  FileInv'
<1>0. op[p].pc = "fork" /\ UNCHANGED <<iref, ends, locked, moved>>
  BY DEF ForkFile, Doing
<1>1. PICK c \in Tasks : c = op[p].child
  BY <1>0 DEF FileInv, Control, FileForks
<1>2. PICK rest \in SUBSET Fds : rest = {fd \in Fds : ofile[p][fd] # 0 /\ fd >= op[p].n}
  OBVIOUS
<1>3. IF rest # {}
      THEN /\ Filedup(ofile[p][Min(rest)])
           /\ ofile' = [ofile EXCEPT ![c][Min(rest)] = ofile[p][Min(rest)]]
           /\ op' = [op EXCEPT ![p].n = Min(rest) + 1] /\ UNCHANGED live
      ELSE /\ live' = live \cup {c} /\ op' = [op EXCEPT ![p] = Idle, ![c] = Idle]
           /\ UNCHANGED <<file, ofile>>
  BY <1>1, <1>2 DEF ForkFile
<1>4. CASE rest = {}
  BY <1>0, <1>1, <1>3, <1>4, ForkEndInv
<1>5. CASE rest # {}
  <2>1. PICK e \in rest : e = Min(rest)
    BY <1>5, MinIn
  <2>2. e \in Fds /\ ofile[p][e] # 0 /\ e >= op[p].n
    BY <1>2, <2>1
  <2>3. PICK g \in Files : g = ofile[p][e]
    <3>1. ofile[p][e] # 0 /\ ofile[p][e] \in 0 .. NFILE
      BY <2>2 DEF FileInv, Control, FileTypes
    <3> QED
      BY ONLY <3>1, FileTableAssumption DEF Files, FileTableAssumption
  <2>4. /\ Filedup(g) /\ ofile' = [ofile EXCEPT ![c][e] = g]
        /\ op' = [op EXCEPT ![p].n = e + 1] /\ UNCHANGED live
    BY <1>3, <1>5, <2>1, <2>3
  <2> QED
    BY <1>0, <1>1, <2>2, <2>3, <2>4, ForkCopyInv
<1> QED
  BY <1>4, <1>5

LEMMA ExitFileInv ==
    ASSUME FileTableAssumption, FileInv, NEW p \in Tasks, ExitFile(p)
    PROVE  FileInv'
<1> USE DEF FileInv
<1>1. CASE {fd \in Fds : ofile[p][fd] # 0} # {}
  BY <1>1, ExitCloseInv
<1>2. CASE {fd \in Fds : ofile[p][fd] # 0} = {}
  <2>1. /\ op[p].pc = "exit" /\ live' = live \ {p} /\ op' = [op EXCEPT ![p] = Idle] /\ ShapeOf(p)
        /\ UNCHANGED <<file, ofile, iref, ends, locked, moved>>
    BY <1>2 DEF ExitFile, Doing, Control, Shape
  <2>2. Only(p) /\ op'[p] = Idle /\ Quiet(p)' /\ ShapeOf(p)' /\ DupOf(p)'
    BY <2>1, IdleStep DEF Control
  <2>3. op[p].f0 = 0 /\ op[p].f1 = 0 /\ op[p].hold = Nil /\ op[p].fd = NoFd /\ op'[p].pc = "user"
    BY <2>1, <2>2, IdleFacts DEF ShapeOf
  <2>4. Others(p)
    BY <2>2, OnlyOthers
  <2>5. Control'
    <3>1. FileTypes'
      BY <2>1, <2>2 DEF Control, FileTypes, Only
    <3>2. Shape'
      BY <2>2 DEF Control, Shape, ShapeOf, Only
    <3>3. Slots'
      BY <1>2, <2>1, <2>2, <2>3 DEF Control, Slots, Only
    <3>4. FileForks'
      <4> SUFFICES ASSUME NEW q \in Tasks, op'[q].pc = "fork"
                   PROVE  /\ op'[q].child \in Tasks /\ op'[op'[q].child].pc = "embryo"
                          /\ \A fd \in Fds : fd >= op'[q].n => ofile'[op'[q].child][fd] = 0
                          /\ \A t \in Tasks : op'[t].pc = "fork" /\ op'[t].child = op'[q].child => t = q
        BY DEF FileForks
      <4>1. q # p /\ op'[q] = op[q]
        BY <2>2, <2>3 DEF Only
      <4>2. op[q].child \in Tasks /\ op[q].child # p
        BY <2>1, <4>1 DEF Control, FileForks
      <4>3. op'[op[q].child] = op[op[q].child]
        BY <2>2, <4>2 DEF Only
      <4>4. \A t \in Tasks : op'[t].pc = "fork" => op'[t] = op[t]
        BY <2>2, <2>3 DEF Only
      <4>5. /\ op[op[q].child].pc = "embryo"
            /\ \A fd \in Fds : fd >= op[q].n => ofile[op[q].child][fd] = 0
            /\ \A t \in Tasks : op[t].pc = "fork" /\ op[t].child = op[q].child => t = q
        BY <4>1 DEF Control, FileForks
      <4> QED
        BY ONLY <2>1, <4>1, <4>2, <4>3, <4>4, <4>5
    <3>5. Dups'
      BY <2>1, <2>2 DEF Control, Dups, DupOf, Only
    <3> QED
      BY <3>1, <3>2, <3>3, <3>4, <3>5 DEF Control
  <2>6. Counts' /\ Objects'
    <3>1. FreshOf(p)' /\ op'[p].pc # "drop" /\ op[p].pc # "drop"
      BY <2>1, <2>3 DEF FreshOf
    <3>2. /\ op'[p].f0 = op[p].f0 /\ op'[p].f1 = op[p].f1 /\ op'[p].fd = op[p].fd
          /\ op'[p].hold = op[p].hold
      BY <2>2, <2>3 DEF Quiet
    <3> QED
      BY <2>1, <2>4, <3>1, <3>2, CallsOnly
  <2>7. Streams'
    <3>1. \A q \in Tasks : op[q].pc \in Moving =>
            ofile'[q] = ofile[q] /\ file'[op[q].f].type = "FD_INODE"
      BY <2>1 DEF Streams, Using, Moving
    <3>2. op'[p].hold = Nil /\ op[p].pc \notin Moving /\ op'[p].pc \notin Moving
      BY <2>1, <2>2, <2>3 DEF Moving, Quiet
    <3> QED
      BY <2>1, <2>4, <2>5, <3>1, <3>2, StreamsKept DEF Control
  <2> QED
    BY <2>5, <2>6, <2>7
<1> QED
  BY <1>1, <1>2

\* read() or write() begins.
LEMMA SysReadWriteInv ==
    ASSUME FileTableAssumption, FileInv, NEW p \in Tasks, NEW fd \in Fds, NEW n \in Int,
           SysReadWrite(p, fd, n)
    PROVE  FileInv'
<1> USE DEF FileInv
<1>0. UNCHANGED <<file, ofile, live, iref, ends, locked, moved>>
  BY DEF SysReadWrite
<1>1. Quiet(p) /\ p \in live /\ op[p].pc = "user" /\ InHand(p) = {}
  BY ReadyFacts DEF SysReadWrite
<1>2. PICK g \in Files : g = ofile[p][fd] /\ file[g].type = "FD_INODE"
  <2>1. ofile[p][fd] # 0 /\ ofile[p][fd] \in 0 .. NFILE
    BY DEF SysReadWrite, Argfd, Control, FileTypes
  <2>2. ofile[p][fd] \in Files
    BY ONLY <2>1, FileTableAssumption DEF Files, FileTableAssumption
  <2> QED
    BY <2>2 DEF SysReadWrite
<1>3. PICK R : R = [Idle EXCEPT !.pc = "rw", !.n = n, !.f = g]
  OBVIOUS
<1>4. /\ R \in Call /\ R.pc = "rw" /\ R.f = g /\ R.f0 = 0 /\ R.f1 = 0 /\ R.hold = Nil
      /\ R.fd = NoFd
  <2>1. g \in 0 .. NFILE
    BY DEF Files, FileTableAssumption
  <2> QED
    BY <1>3, <2>1, IdleFacts DEF Call, Labels
<1>5. Only(p) /\ op'[p] = R
  <2>1. op' = [op EXCEPT ![p] = R]
    BY <1>2, <1>3 DEF SysReadWrite
  <2> QED
    BY <1>4, <2>1, SetFacts DEF Control
<1>6. Others(p)
  BY <1>5, OnlyOthers
<1>7. Control'
  <2>1. ShapeOf(p)' /\ DupOf(p)' /\ FileTypes'
    BY <1>0, <1>4, <1>5 DEF ShapeOf, DupOf, Control, FileTypes, Only
  <2>2. op[p].pc \notin {"fork", "embryo"} /\ op'[p].pc \notin {"fork", "embryo"}
    BY <1>1, <1>4, <1>5
  <2> QED
    BY <1>0, <1>1, <1>5, <2>1, <2>2, ControlKept
<1>8. Counts' /\ Objects'
  <2>1. FreshOf(p)' /\ op'[p].pc # "drop" /\ op[p].pc # "drop"
    BY <1>1, <1>4, <1>5 DEF FreshOf
  <2>2. /\ op'[p].f0 = op[p].f0 /\ op'[p].f1 = op[p].f1 /\ op'[p].fd = op[p].fd
        /\ op'[p].hold = op[p].hold
    BY <1>1, <1>4, <1>5 DEF Quiet
  <2> QED
    BY <1>0, <1>6, <2>1, <2>2, CallsOnly
<1>9. Streams'
  <2>1. InodeLocks'
    BY <1>0, <1>4, <1>5 DEF Streams, InodeLocks, Only
  <2>2. Using'
    BY <1>0, <1>2, <1>4, <1>5 DEF Streams, Using, Only
  <2>3. \A q \in Tasks : op[q].pc = "advance" => op'[q] = op[q]
    BY <1>1, <1>5 DEF Only
  <2>4. Stream'
    BY <1>0, <2>3 DEF Streams, Stream
  <2> QED
    BY <2>1, <2>2, <2>4 DEF Streams
<1> QED
  BY <1>7, <1>8, <1>9

LEMMA ReturnCountInv ==
    ASSUME FileTableAssumption, FileInv, NEW p \in Tasks, ReturnCount(p)
    PROVE  FileInv'
<1> USE DEF FileInv
<1>0. /\ op[p].pc = "rw" /\ ShapeOf(p) /\ op' = [op EXCEPT ![p] = Idle]
      /\ UNCHANGED <<file, ofile, live, iref, ends, locked, moved>>
  BY DEF ReturnCount, Doing, Control, Shape
<1>1. op[p].f0 = 0 /\ op[p].f1 = 0 /\ op[p].hold = Nil /\ op[p].fd = NoFd
  BY <1>0 DEF ShapeOf
<1>2. Only(p) /\ op'[p] = Idle /\ Quiet(p)' /\ ShapeOf(p)' /\ DupOf(p)'
  BY <1>0, IdleStep DEF Control
<1>3. op'[p].pc = "user" /\ Others(p)
  BY <1>2, IdleFacts, OnlyOthers
<1>4. Control'
  <2>1. FileTypes'
    BY <1>0, <1>2 DEF Control, FileTypes, Only
  <2> QED
    BY <1>0, <1>2, <1>3, <2>1, ControlKept
<1>5. Counts' /\ Objects'
  <2>1. FreshOf(p)'
    BY <1>3 DEF FreshOf
  <2>2. /\ op'[p].f0 = op[p].f0 /\ op'[p].f1 = op[p].f1 /\ op'[p].fd = op[p].fd
        /\ op'[p].hold = op[p].hold /\ op[p].pc # "drop" /\ op'[p].pc # "drop"
    BY <1>0, <1>1, <1>2, <1>3 DEF Quiet
  <2> QED
    BY <1>0, <1>3, <2>1, <2>2, CallsOnly
<1>6. Streams'
  <2>1. InodeLocks'
    BY <1>0, <1>2, <1>3 DEF Streams, InodeLocks, Only, Quiet
  <2>2. Using'
    BY <1>0, <1>2, <1>3 DEF Streams, Using, Only
  <2>3. \A q \in Tasks : op[q].pc = "advance" => op'[q] = op[q]
    BY <1>0, <1>2 DEF Only
  <2>4. Stream'
    BY <1>0, <2>3 DEF Streams, Stream
  <2> QED
    BY <2>1, <2>2, <2>4 DEF Streams
<1> QED
  BY <1>4, <1>5, <1>6

\* readi() or writei() with the inode locked: nobody else is between the use
\* of the offset and its advance.
LEMMA TransferInv ==
    ASSUME FileTableAssumption, FileInv, NEW p \in Tasks, Transfer(p)
    PROVE  FileInv'
<1> USE DEF FileInv
<1>0. op[p].pc = "rw" /\ ShapeOf(p) /\ UNCHANGED <<file, ofile, live, iref, ends>>
  BY DEF Transfer, Doing, Control, Shape
<1>1. PICK f \in Files : f = op[p].f /\ file[f].type = "FD_INODE"
  BY <1>0 DEF Streams, Using
<1>2. PICK o \in Inodes : o = file[f].obj
  BY <1>1 DEF Counts, Sorts, Sound
<1>3. PICK a \in 0 .. MaxOff : a = file[f].off
  BY DEF Control, FileTypes, Entry
<1>4. locked[o] = Nil /\ locked' = [locked EXCEPT ![o] = p]
  BY <1>1, <1>2 DEF Transfer, TransferLock
<1>5. PICK r \in 0 .. MaxOff - a :
        /\ op' = [op EXCEPT ![p] = [op[p] EXCEPT !.pc = "advance", !.r = r]]
        /\ moved' = [moved EXCEPT ![f] =
             [b \in DOMAIN moved[f] |->
                IF b - a \in 0 .. r - 1 THEN moved[f][b] + 1 ELSE moved[f][b]]]
  <2>1. PICK r \in 0 .. MaxOff - file[op[p].f].off :
          /\ op' = [op EXCEPT ![p] = [op[p] EXCEPT !.pc = "advance", !.r = r]]
          /\ moved' = [moved EXCEPT ![op[p].f] =
               [b \in DOMAIN moved[op[p].f] |->
                  IF b - file[op[p].f].off \in 0 .. r - 1
                  THEN moved[op[p].f][b] + 1 ELSE moved[op[p].f][b]]]
    BY Zenon DEF Transfer
  <2>2. op[p].f = f /\ file[op[p].f].off = a
    BY <1>1, <1>3
  <2> QED
    BY ONLY <2>1, <2>2, Zenon
<1>6. a \in Int /\ r \in Int /\ a + r =< MaxOff /\ r >= 0 /\ MaxOff \in Nat /\ r \in 0 .. MaxOff
  BY DEF FileTableAssumption
<1>7. PICK x \in Call : x = op[p]
  BY DEF Control, FileTypes
<1>8. PICK R : R = [x EXCEPT !.pc = "advance", !.r = r]
  OBVIOUS
<1>9. /\ R \in Call /\ R.pc = "advance" /\ R.r = r /\ R.f = x.f /\ R.f0 = x.f0 /\ R.f1 = x.f1
      /\ R.hold = x.hold /\ R.fd = x.fd
  <2>1. "advance" \in Labels
    BY DEF Labels
  <2> QED
    BY <1>6, <1>8, <2>1 DEF Call
<1>10. Only(p) /\ op'[p] = R
  <2>1. op' = [op EXCEPT ![p] = R]
    BY <1>5, <1>7, <1>8 DEF Control, FileTypes
  <2> QED
    BY <1>9, <2>1, SetFacts DEF Control
<1>11. Others(p)
  BY <1>10, OnlyOthers
<1>12. op[p].f0 = 0 /\ op[p].f1 = 0 /\ op[p].hold = Nil /\ op[p].fd = NoFd
  BY <1>0 DEF ShapeOf
<1>13. /\ locked' \in [Inodes -> Tasks \cup {Nil}] /\ locked'[o] = p
       /\ \A i \in Inodes : i # o => locked'[i] = locked[i]
  BY <1>4 DEF Control, FileTypes
<1>14. /\ moved' \in [Files -> [0 .. MaxOff - 1 -> Nat]]
       /\ \A g \in Files : g # f => moved'[g] = moved[g]
       /\ \A b \in 0 .. MaxOff - 1 : b < a \/ b >= a + r => moved'[f][b] = moved[f][b]
       /\ \A b \in 0 .. MaxOff - 1 : a =< b /\ b < a + r => moved'[f][b] = moved[f][b] + 1
  <2>1. moved \in [Files -> [0 .. MaxOff - 1 -> Nat]] /\ moved[f] \in [0 .. MaxOff - 1 -> Nat]
    BY DEF Control, FileTypes
  <2>2. PICK m : m = [b \in 0 .. MaxOff - 1 |->
                        IF b - a \in 0 .. r - 1 THEN moved[f][b] + 1 ELSE moved[f][b]]
    OBVIOUS
  <2>3. moved' = [moved EXCEPT ![f] = m]
    BY <1>5, <2>1, <2>2
  <2>4. /\ m \in [0 .. MaxOff - 1 -> Nat]
        /\ \A b \in 0 .. MaxOff - 1 : b < a \/ b >= a + r => m[b] = moved[f][b]
        /\ \A b \in 0 .. MaxOff - 1 : a =< b /\ b < a + r => m[b] = moved[f][b] + 1
    BY <1>6, <2>1, <2>2
  <2> QED
    BY <2>1, <2>3, <2>4
<1>15. Control'
  <2>1. FileTypes'
    BY <1>0, <1>10, <1>13, <1>14 DEF Control, FileTypes, Only
  <2>2. ShapeOf(p)' /\ DupOf(p)'
    BY <1>7, <1>9, <1>10, <1>12 DEF ShapeOf, DupOf
  <2>3. op[p].pc \notin {"fork", "embryo", "user"} /\ op'[p].pc \notin {"fork", "embryo"}
    BY <1>0, <1>9, <1>10
  <2> QED
    BY <1>0, <1>10, <2>1, <2>2, <2>3, ControlKept
<1>16. Counts' /\ Objects'
  <2>1. FreshOf(p)' /\ op[p].pc # "drop" /\ op'[p].pc # "drop"
    BY <1>0, <1>9, <1>10 DEF FreshOf
  <2>2. /\ op'[p].f0 = op[p].f0 /\ op'[p].f1 = op[p].f1 /\ op'[p].fd = op[p].fd
        /\ op'[p].hold = op[p].hold
    BY <1>7, <1>9, <1>10
  <2> QED
    BY <1>0, <1>11, <2>1, <2>2, CallsOnly
<1>17. Streams'
  <2>1. \A q \in Tasks : op[q].pc = "advance" => /\ q # p /\ op'[q] = op[q] /\ op[q].f # f
                                                /\ op[q].f \in Files
                                                /\ file[op[q].f].obj \in Inodes \ {o}
    <3> SUFFICES ASSUME NEW q \in Tasks, op[q].pc = "advance"
                 PROVE  /\ q # p /\ op'[q] = op[q] /\ op[q].f # f /\ op[q].f \in Files
                        /\ file[op[q].f].obj \in Inodes \ {o}
      OBVIOUS
    <3>1. op[q].f \in Files /\ file[op[q].f].type = "FD_INODE"
      BY DEF Streams, Using
    <3>2. locked[file[op[q].f].obj] = q /\ q # Nil
      BY DEF Streams, InodeLocks, FileTableAssumption
    <3>3. file[op[q].f].obj \in Inodes /\ file[op[q].f].obj # o
      BY <1>4, <3>1, <3>2 DEF Counts, Sorts, Sound
    <3> QED
      BY <1>0, <1>2, <1>10, <3>1, <3>3 DEF Only
  <2>2. InodeLocks'
    <3>1. ASSUME NEW q \in Tasks, op'[q].hold # Nil
          PROVE  locked'[op'[q].hold] = q
      <4>1. op'[q].hold = op[q].hold /\ op[q].hold \in Inodes
        BY <1>7, <1>9, <1>10, <3>1 DEF Only, Control, FileTypes, Call
      <4>2. locked[op[q].hold] = q /\ q # Nil
        BY <3>1, <4>1 DEF Streams, InodeLocks, FileTableAssumption
      <4> QED
        BY <1>4, <1>13, <4>1, <4>2
    <3>2. ASSUME NEW q \in Tasks, op'[q].pc = "advance"
          PROVE  locked'[file'[op'[q].f].obj] = q
      <4>1. CASE q = p
        BY <1>0, <1>1, <1>2, <1>7, <1>9, <1>10, <1>13, <4>1
      <4>2. CASE q # p
        <5>1. op'[q] = op[q]
          BY <1>10, <4>2 DEF Only
        <5> QED
          BY <1>0, <1>13, <2>1, <3>2, <5>1 DEF Streams, InodeLocks
      <4> QED
        BY <4>1, <4>2
    <3> QED
      BY <3>1, <3>2 DEF InodeLocks
  <2>3. Using'
    <3>1. \A q \in Tasks : q # p => op'[q] = op[q]
      BY <1>10 DEF Only
    <3>2. op'[p].f = f /\ op'[p].r = r
      BY <1>1, <1>7, <1>9, <1>10
    <3>3. \E fd \in Fds : ofile[p][fd] = f
      BY <1>0, <1>1 DEF Streams, Using
    <3> QED
      BY <1>0, <1>1, <1>3, <1>6, <3>1, <3>2, <3>3 DEF Streams, Using
  <2>4. Stream'
    <3> SUFFICES ASSUME NEW g \in Files, NEW b \in 0 .. MaxOff - 1
                 PROVE  /\ moved'[g][b] =< 1
                        /\ file'[g].type = "FD_INODE" /\ b >= file'[g].off /\ moved'[g][b] > 0 =>
                             \E q \in Tasks : /\ op'[q].pc = "advance" /\ op'[q].f = g
                                              /\ b < file'[g].off + op'[q].r
      BY DEF Stream
    <3>1. CASE g # f
      <4>1. moved'[g] = moved[g] /\ file'[g] = file[g]
        BY <1>0, <1>14, <3>1
      <4> QED
        BY <2>1, <4>1 DEF Streams, Stream
    <3>2. CASE g = f
      <4>1. b >= a => ~(moved[f][b] > 0)
        <5>1. file[f].type = "FD_INODE" /\ b >= file[f].off /\ moved[f][b] > 0 =>
                \E q \in Tasks : op[q].pc = "advance" /\ op[q].f = f /\ b < file[f].off + op[q].r
          BY DEF Streams, Stream
        <5>2. ~\E q \in Tasks : op[q].pc = "advance" /\ op[q].f = f
          BY <2>1
        <5> QED
          BY <1>1, <1>3, <5>1, <5>2
      <4>2. moved[f][b] \in Nat /\ moved[f][b] =< 1
        <5>1. moved[f][b] \in Nat
          BY DEF Control, FileTypes
        <5>2. moved[f][b] =< 1
          BY DEF Streams, Stream
        <5> QED
          BY <5>1, <5>2
      <4>3. b >= a /\ moved'[f][b] > 0 => b < a + r
        <5>1. b >= a + r => moved'[f][b] = moved[f][b]
          BY <1>14
        <5> QED
          BY <1>6, <4>1, <5>1
      <4>4. moved'[f][b] =< 1
        BY <1>6, <1>14, <4>1, <4>2
      <4>5. op'[p].pc = "advance" /\ op'[p].f = f /\ op'[p].r = r /\ file'[f].off = a
        BY <1>0, <1>1, <1>3, <1>7, <1>9, <1>10
      <4> QED
        BY <3>2, <4>3, <4>4, <4>5
    <3> QED
      BY <3>1, <3>2
  <2> QED
    BY <2>2, <2>3, <2>4 DEF Streams
<1> QED
  BY <1>15, <1>16, <1>17

\* The offset advances past what was transferred, and the inode is unlocked.
LEMMA AdvanceInv ==
    ASSUME FileTableAssumption, FileInv, NEW p \in Tasks, Advance(p)
    PROVE  FileInv'
<1> USE DEF FileInv
<1>0. op[p].pc = "advance" /\ ShapeOf(p) /\ UNCHANGED <<ofile, live, iref, ends, moved>>
  BY DEF Advance, Doing, Control, Shape
<1>1. PICK f \in Files : f = op[p].f /\ file[f].type = "FD_INODE"
  BY <1>0 DEF Streams, Using
<1>2. PICK o \in Inodes : o = file[f].obj /\ locked[o] = p
  BY <1>0, <1>1 DEF Counts, Sorts, Sound, Streams, InodeLocks
<1>3. PICK x \in Call : x = op[p]
  BY DEF Control, FileTypes
<1>4. PICK r \in 0 .. MaxOff : r = x.r
  BY DEF Call
<1>5. PICK y \in Entry : y = file[f] /\ y.off \in 0 .. MaxOff
  BY DEF Control, FileTypes, Entry
<1>6. PICK a \in 0 .. MaxOff : a = y.off + r
  <2>1. y.off + r =< MaxOff
    BY <1>0, <1>1, <1>3, <1>4, <1>5 DEF Streams, Using
  <2> QED
    BY <1>4, <1>5, <2>1 DEF FileTableAssumption
<1>7. PICK n : n = IF r = 0 THEN 0 ELSE x.n - 1
  OBVIOUS
<1>8. PICK R, z : /\ R = [x EXCEPT !.pc = "rw", !.n = n]
                  /\ z = [y EXCEPT !.off = a]
  OBVIOUS
<1>9. /\ R \in Call /\ R.pc = "rw" /\ R.f = x.f /\ R.f0 = x.f0 /\ R.f1 = x.f1
      /\ R.hold = x.hold /\ R.fd = x.fd
  <2>1. "rw" \in Labels
    BY DEF Labels
  <2>2. n \in Int
    BY <1>3, <1>7 DEF Call
  <2> QED
    BY <1>3, <1>8, <2>1, <2>2 DEF Call
<1>10. /\ z \in Entry /\ z.off = a /\ z.ref = y.ref /\ z.type = y.type /\ z.obj = y.obj
       /\ z.writable = y.writable
  BY <1>5, <1>6, <1>8 DEF Entry
<1>11. op' = [op EXCEPT ![p] = R]
  BY <1>1, <1>3, <1>4, <1>7, <1>8 DEF Advance, Control, FileTypes
<1>12. file' = [file EXCEPT ![f] = z]
  BY <1>1, <1>3, <1>4, <1>5, <1>6, <1>8 DEF Advance
<1>13. locked' = [locked EXCEPT ![o] = Nil]
  BY <1>1, <1>2 DEF Advance
<1>14. Only(p) /\ op'[p] = R
  BY <1>9, <1>11, SetFacts DEF Control
<1>15. Others(p)
  BY <1>14, OnlyOthers
<1>16. /\ file' \in [Files -> Entry] /\ file'[f] = z
       /\ \A g \in Files : g # f => file'[g] = file[g]
  BY <1>10, <1>12 DEF Control, FileTypes
<1>17. /\ locked' \in [Inodes -> Tasks \cup {Nil}]
       /\ \A i \in Inodes : i # o => locked'[i] = locked[i]
  BY <1>13 DEF Control, FileTypes
<1>18. op[p].f0 = 0 /\ op[p].f1 = 0 /\ op[p].hold = Nil /\ op[p].fd = NoFd
  BY <1>0 DEF ShapeOf
<1>19. Control'
  <2>1. FileTypes'
    BY <1>0, <1>14, <1>16, <1>17 DEF Control, FileTypes, Only
  <2>2. ShapeOf(p)' /\ DupOf(p)'
    BY <1>3, <1>9, <1>14, <1>18 DEF ShapeOf, DupOf
  <2>3. op[p].pc \notin {"fork", "embryo", "user"} /\ op'[p].pc \notin {"fork", "embryo"}
    BY <1>0, <1>9, <1>14
  <2> QED
    BY <1>0, <1>14, <2>1, <2>2, <2>3, ControlKept
<1>20. \A g \in Files : /\ file'[g].ref = file[g].ref /\ file'[g].type = file[g].type
                        /\ file'[g].obj = file[g].obj /\ file'[g].writable = file[g].writable
  BY <1>5, <1>10, <1>16
<1>21. Counts' /\ Objects'
  <2>1. FreshOf(p)' /\ op[p].pc # "drop" /\ op'[p].pc # "drop"
    BY <1>0, <1>9, <1>14 DEF FreshOf
  <2>2. /\ op'[p].f0 = op[p].f0 /\ op'[p].f1 = op[p].f1 /\ op'[p].fd = op[p].fd
        /\ op'[p].hold = op[p].hold
    BY <1>3, <1>9, <1>14
  <2> QED
    BY <1>0, <1>15, <1>20, <2>1, <2>2, CallsOnly
<1>22. Streams'
  <2>1. ASSUME NEW q \in Tasks, q # p, op[q].pc = "advance"
        PROVE  /\ op'[q] = op[q] /\ op[q].f \in Files /\ op[q].f # f
               /\ file[op[q].f].obj \in Inodes \ {o}
    <3>1. op[q].f \in Files /\ file[op[q].f].type = "FD_INODE"
      BY <2>1 DEF Streams, Using
    <3>2. locked[file[op[q].f].obj] = q
      BY <2>1 DEF Streams, InodeLocks
    <3>3. file[op[q].f].obj \in Inodes /\ file[op[q].f].obj # o
      BY <1>2, <2>1, <3>1, <3>2 DEF Counts, Sorts, Sound
    <3> QED
      BY <1>2, <1>14, <2>1, <3>1, <3>3 DEF Only
  <2>2. InodeLocks'
    <3>1. ASSUME NEW q \in Tasks, op'[q].hold # Nil
          PROVE  locked'[op'[q].hold] = q
      <4>1. q # p /\ op'[q] = op[q] /\ op[q].hold \in Inodes
        BY <1>3, <1>9, <1>14, <1>18, <3>1 DEF Only, Control, FileTypes, Call
      <4>2. locked[op[q].hold] = q
        BY <3>1, <4>1 DEF Streams, InodeLocks
      <4> QED
        BY <1>2, <1>17, <4>1, <4>2
    <3>2. ASSUME NEW q \in Tasks, op'[q].pc = "advance"
          PROVE  locked'[file'[op'[q].f].obj] = q
      <4>1. q # p /\ op'[q] = op[q]
        BY <1>9, <1>14, <3>2 DEF Only
      <4>2. op[q].f \in Files /\ op[q].f # f /\ file[op[q].f].obj \in Inodes \ {o}
        BY <2>1, <3>2, <4>1
      <4>3. locked[file[op[q].f].obj] = q
        BY <3>2, <4>1 DEF Streams, InodeLocks
      <4> QED
        BY <1>16, <1>17, <4>1, <4>2, <4>3
    <3> QED
      BY <3>1, <3>2 DEF InodeLocks
  <2>3. Using'
    <3> SUFFICES ASSUME NEW q \in Tasks, op'[q].pc \in {"rw", "advance"}
                 PROVE  /\ op'[q].f \in Files /\ \E fd \in Fds : ofile'[q][fd] = op'[q].f
                        /\ file'[op'[q].f].type = "FD_INODE"
                        /\ op'[q].pc = "advance" => file'[op'[q].f].off + op'[q].r =< MaxOff
      BY DEF Using
    <3>1. CASE q = p
      <4>1. op'[p].f = f /\ op'[p].pc = "rw"
        BY <1>1, <1>3, <1>9, <1>14
      <4>2. \E fd \in Fds : ofile[p][fd] = f
        BY <1>0, <1>1 DEF Streams, Using
      <4> QED
        BY <1>0, <1>1, <1>20, <3>1, <4>1, <4>2
    <3>2. CASE q # p
      <4>1. op'[q] = op[q]
        BY <1>14, <3>2 DEF Only
      <4>2. /\ op[q].f \in Files /\ \E fd \in Fds : ofile[q][fd] = op[q].f
            /\ file[op[q].f].type = "FD_INODE"
            /\ op[q].pc = "advance" => file[op[q].f].off + op[q].r =< MaxOff
        BY <4>1 DEF Streams, Using
      <4>3. op[q].pc = "advance" => file'[op[q].f] = file[op[q].f]
        BY <1>16, <2>1, <3>2
      <4> QED
        BY <1>0, <1>20, <4>1, <4>2, <4>3
    <3> QED
      BY <3>1, <3>2
  <2>4. Stream'
    <3> SUFFICES ASSUME NEW g \in Files, NEW b \in 0 .. MaxOff - 1
                 PROVE  /\ moved'[g][b] =< 1
                        /\ file'[g].type = "FD_INODE" /\ b >= file'[g].off /\ moved'[g][b] > 0 =>
                             \E q \in Tasks : /\ op'[q].pc = "advance" /\ op'[q].f = g
                                              /\ b < file'[g].off + op'[q].r
      BY DEF Stream
    <3>1. /\ moved'[g][b] = moved[g][b] /\ moved[g][b] =< 1
          /\ file[g].type = "FD_INODE" /\ b >= file[g].off /\ moved[g][b] > 0 =>
               \E q \in Tasks : op[q].pc = "advance" /\ op[q].f = g /\ b < file[g].off + op[q].r
      BY <1>0 DEF Streams, Stream
    <3>2. CASE g # f
      <4>1. file'[g] = file[g]
        BY <1>16, <3>2
      <4>2. \A q \in Tasks : op[q].pc = "advance" /\ op[q].f = g => op'[q] = op[q]
        BY <1>1, <2>1, <3>2
      <4> QED
        BY <3>1, <4>1, <4>2
    <3>3. CASE g = f
      <4>1. \A q \in Tasks : op[q].pc = "advance" /\ op[q].f = f => op[q].r = r
        BY <1>3, <1>4, <2>1
      <4>2. b >= a => b >= y.off /\ ~(b < y.off + r)
        BY <1>4, <1>5, <1>6 DEF FileTableAssumption
      <4>3. b >= a => ~(moved[f][b] > 0)
        BY <1>1, <1>5, <3>1, <3>3, <4>1, <4>2
      <4> QED
        BY <1>10, <1>16, <3>1, <3>3, <4>3
    <3> QED
      BY <3>2, <3>3
  <2> QED
    BY <2>2, <2>3, <2>4 DEF Streams
<1> QED
  BY <1>19, <1>21, <1>22

-----------------------------------------------------------------------------
(* The theorems *)

LEMMA FileInitInv ==
    ASSUME FileTableAssumption, FileInit
    PROVE  FileInv
<1> USE DEF FileInit
<1>1. \A f \in Files : f # 0 /\ file[f] = Closed
  BY DEF Files
<1>2. /\ Closed.ref = 0 /\ Closed.type = "FD_NONE" /\ Closed.off = 0 /\ Closed \in Entry
      /\ \A p \in Tasks : /\ op[p] = Idle /\ op[p].pc = "user" /\ op[p].f0 = 0 /\ op[p].f1 = 0
                          /\ op[p].hold = Nil /\ op[p].fd = NoFd
  BY IdleFacts DEF Closed
<1>3. FileTypes
  <2>1. file \in [Files -> Entry] /\ op \in [Tasks -> Call]
    BY IdleFacts
  <2>2. ofile \in [Tasks -> [Fds -> 0 .. NFILE]]
    BY DEF FileTableAssumption
  <2> QED
    BY <2>1, <2>2 DEF FileTypes, FileTableAssumption
<1>4. Control
  BY <1>2, <1>3 DEF Control, Shape, ShapeOf, Slots, FileForks, Dups, DupOf
<1>5. RefsExact
  <2> SUFFICES ASSUME NEW f \in Files
               PROVE  file[f].ref = Count(f)
    BY RefIsCount
  <2>1. Descriptors(f) = {} /\ F0(f) = {} /\ F1(f) = {}
    BY <1>1, <1>2 DEF Descriptors, F0, F1
  <2> QED
    BY <1>1, <1>2, <2>1, FS_EmptySet DEF Count
<1>6. Counts
  BY <1>1, <1>2, <1>5 DEF Counts, FreshEntries, FreshOf, Sorts, Sound
<1>7. \A i, w : /\ \A f \in Files : ~Standing(file[f], i) /\ ~Is(file[f], i, w)
                /\ \A p \in Tasks : ~Dropping(p, i, w) /\ p \notin Drops(i)
  BY <1>1, <1>2 DEF Standing, Is, Dropping, Drops, Doing
<1>8. Balance
  <2>1. ASSUME NEW i \in Inodes
        PROVE  iref[i] = Uses(i)
    <3>1. Entries(i) = {} /\ Holds(i) = {} /\ Drops(i) = {}
      BY <1>2, <1>7 DEF Entries, Holds, Drops, FileTableAssumption
    <3> QED
      BY <3>1, FS_EmptySet DEF Uses
  <2> QED
    BY <1>7, <2>1 DEF Balance
<1>9. Objects
  BY <1>7, <1>8, ObjectsAre DEF Objects, OneEnd
<1>10. Streams
  BY <1>1, <1>2 DEF Streams, InodeLocks, Using, Stream
<1> QED
  BY <1>4, <1>6, <1>9, <1>10 DEF FileInv

LEMMA FileNextInv ==
    ASSUME FileTableAssumption, FileInv, [FileNext]_fileVars
    PROVE  FileInv'
<1>1. CASE UNCHANGED fileVars
  <2>1. Control /\ Counts /\ Objects /\ Streams
    BY DEF FileInv
  <2>2. Control'
    BY <1>1, <2>1 DEF fileVars, Control, FileTypes, Shape, ShapeOf, Slots, FileForks, Dups, DupOf
  <2>3. RefsExact'
    BY <1>1, <2>1 DEF fileVars, Counts, RefsExact, Descriptors
  <2>4. Counts'
    BY <1>1, <2>1, <2>3 DEF fileVars, Counts, FreshEntries, FreshOf, InHand, Sorts
  <2>5. ObjectsExact'
    BY <1>1, <2>1 DEF fileVars, Objects, ObjectsExact, Doing
  <2>6. OneEnd'
    BY <1>1, <2>1 DEF fileVars, Objects, OneEnd, Is, Dropping, Doing
  <2>7. Streams'
    BY <1>1, <2>1 DEF fileVars, Streams, InodeLocks, Using, Stream
  <2> QED
    BY <2>2, <2>4, <2>5, <2>6, <2>7 DEF FileInv, Objects
<1>2. CASE FileNext
  <2>1. PICK p \in Tasks :
           \/ Fileclose(p) \/ Drop(p) \/ Finish(p)
           \/ OpenFile(p) \/ OpenFd(p) \/ OpenNoFd(p)
           \/ SysPipe(p) \/ PipeFile(p) \/ PipePage(p) \/ PipeFds(p) \/ PipeFdsFail(p)
           \/ DupFile(p) \/ ForkFile(p) \/ Exit(p) \/ ExitFile(p)
           \/ Transfer(p) \/ Advance(p) \/ ReturnCount(p)
           \/ \E i \in Inodes : SysOpen(p, i)
           \/ \E c \in Tasks : Fork(p, c)
           \/ \E fd \in Fds : SysClose(p, fd) \/ SysDup(p, fd) \/ SysReadWrite(p, fd, MaxWrite)
    BY <1>2 DEF FileNext
  <2>2. CASE Fileclose(p) \/ Drop(p) \/ Finish(p)
    BY <2>2, FilecloseInv, DropInv, FinishInv
  <2>3. CASE OpenFile(p) \/ OpenFd(p)
    BY <2>3, OpenFileInv, OpenFdInv
  <2>4. CASE PipeFile(p) \/ PipePage(p) \/ PipeFds(p)
    BY <2>4, PipeFileInv, PipePageInv, PipeFdsInv
  <2>5. CASE DupFile(p) \/ ForkFile(p) \/ ExitFile(p)
    BY <2>5, DupFileInv, ForkFileInv, ExitFileInv
  <2>6. CASE Transfer(p) \/ Advance(p) \/ ReturnCount(p)
    BY <2>6, TransferInv, AdvanceInv, ReturnCountInv
  <2>7. CASE OpenNoFd(p) \/ PipeFdsFail(p)
    <3>1. /\ op[p].pc \in {"open_fd", "pipe_fds"} /\ Go(p, "closing")
          /\ UNCHANGED <<file, ofile, live, iref, ends, locked, moved>>
      BY <2>7 DEF OpenNoFd, PipeFdsFail, Doing
    <3> QED
      BY <3>1, GoInv DEF Turns
  <2>8. CASE SysPipe(p)
    <3>1. /\ op[p].pc = "user" /\ p \in live /\ Go(p, "pipe")
          /\ UNCHANGED <<file, ofile, live, iref, ends, locked, moved>>
      BY <2>8 DEF SysPipe, Ready, Doing
    <3> QED
      BY <3>1, GoInv DEF Turns
  <2>9. CASE Exit(p)
    <3>1. /\ op[p].pc = "user" /\ p \in live /\ Go(p, "exit")
          /\ UNCHANGED <<file, ofile, live, iref, ends, locked, moved>>
      BY <2>9 DEF Exit, Ready, Doing
    <3> QED
      BY <3>1, GoInv DEF Turns
  <2>10. CASE \E i \in Inodes : SysOpen(p, i)
    BY <2>10, SysOpenInv
  <2>11. CASE \E c \in Tasks : Fork(p, c)
    BY <2>11, ForkInv
  <2>12. CASE \E fd \in Fds : SysClose(p, fd) \/ SysDup(p, fd) \/ SysReadWrite(p, fd, MaxWrite)
    <3>1. MaxWrite \in Int
      BY DEF FileTableAssumption
    <3> QED
      BY <2>12, <3>1, SysCloseInv, SysDupInv, SysReadWriteInv
  <2> QED
    BY <2>1, <2>2, <2>3, <2>4, <2>5, <2>6, <2>7, <2>8, <2>9, <2>10, <2>11, <2>12
<1> QED
  BY <1>1, <1>2

LEMMA FileInvariant ==
    ASSUME FileTableAssumption
    PROVE  FileSpec => []FileInv
<1>1. FileInit => FileInv
  BY FileInitInv
<1>2. FileInv /\ [FileNext]_fileVars => FileInv'
  BY FileNextInv
<1> QED
  BY <1>1, <1>2, PTL DEF FileSpec

\* f->ref counts exactly the descriptors and the calls in progress that hold an
\* entry, and the last fileclose(), only that, gives back the inode reference
\* or the end of the pipe: for any number of processes and open files, at every
\* step of dup(), fork(), exit(), close(), and of open() and pipe() undone
\* half-way.
THEOREM FileCountsAreExact ==
    ASSUME FileTableAssumption
    PROVE  FileSpec => []CountsExact
<1>1. FileInv => CountsExact
  BY DEF FileInv, Counts, Objects, CountsExact
<1> QED
  BY <1>1, FileInvariant, PTL

\* However the read()s and write()s of processes that share an open file
\* interleave, no byte of its stream is transferred twice: the inode stays
\* locked from the use of f->off to its advance.
THEOREM BytesMoveOnce ==
    ASSUME FileTableAssumption
    PROVE  FileSpec => []StreamOnce
<1>1. FileInv => StreamOnce
  <2> SUFFICES ASSUME FileInv, NEW f \in Files, NEW b \in DOMAIN moved[f]
               PROVE  moved[f][b] =< 1
    BY DEF StreamOnce
  <2>1. b \in 0 .. MaxOff - 1
    BY DEF FileInv, Control, FileTypes
  <2> QED
    BY <2>1 DEF FileInv, Streams, Stream
<1> QED
  BY <1>1, FileInvariant, PTL
=============================================================================
