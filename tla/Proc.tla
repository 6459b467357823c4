-------------------------------- MODULE Proc --------------------------------
(***************************************************************************)
(* Processes of the kernel (kernel/proc.c): allocproc, freeproc, fork,     *)
(* reparent, exit, wait, scheduler, sched, yield, forkret, sleep, wakeup   *)
(* and kill, on several CPUs.                                              *)
(*                                                                         *)
(* A spinlock is held by a CPU (lk->cpu).  A section under one lock is one *)
(* action, taken when the lock is free; a lock that stays held across the  *)
(* section's end is recorded in plock or waitlock.  The process of a slot  *)
(* is a thread with a program counter; it steps only while some CPU runs   *)
(* it.  Timer interrupts preempt it wherever its CPU holds no lock.        *)
(*                                                                         *)
(* Files, memory and the current directory are left out (modules Mmap and  *)
(* Log); a failed kalloc() or copyout() is a nondeterministic choice.      *)
(***************************************************************************)
EXTENDS Integers, FiniteSets

CONSTANTS NPROC,      \* slots of the process table; slot 1 holds init
          CPUs,
          MaxPid,     \* bound on nextpid
          Victims     \* the pids that programs pass to kill()

NoCpu == "nocpu"
ProcAssumption == /\ NoCpu \notin CPUs
                  /\ NPROC \in Nat \ {0} /\ MaxPid \in Nat \ {0}
                  /\ Victims \subseteq Nat

Procs == 1 .. NPROC
initproc == 1
None == 0             \* no process, no channel, no parent

VARIABLES state, parent, pid, killed, chan,
          k,          \* the kernel thread of each slot: [pc, back, np, i, on]
          cpu,        \* c->proc
          plock,      \* the CPU that holds p->lock, or NoCpu
          waitlock,   \* the CPU that holds wait_lock, or NoCpu
          nextpid

vars == <<state, parent, pid, killed, chan, k, cpu, plock, waitlock, nextpid>>

\* back: where the thread goes on after swtch(); np: fork()'s child; i: the slot
\* its loop is at; on: the channel of its wakeup() and where to go then.
Fresh == [pc |-> "resume", back |-> "user", np |-> None, i |-> 1,
          on |-> <<None, "user">>, kids |-> FALSE]

Init == /\ state = [p \in Procs |-> IF p = initproc THEN "RUNNABLE" ELSE "UNUSED"]
        /\ parent = [p \in Procs |-> None]
        /\ pid = [p \in Procs |-> IF p = initproc THEN 1 ELSE 0]
        /\ killed = [p \in Procs |-> FALSE]
        /\ chan = [p \in Procs |-> None]
        /\ k = [p \in Procs |-> Fresh]
        /\ cpu = [c \in CPUs |-> None]
        /\ plock = [p \in Procs |-> NoCpu]
        /\ waitlock = NoCpu
        /\ nextpid = 2

-----------------------------------------------------------------------------
\* CPU c executes the thread of p at pc.
At(c, p, pc) == cpu[c] = p /\ k[p].pc = pc
Goto(p, pc) == k' = [k EXCEPT ![p].pc = pc]
Free(p) == plock[p] = NoCpu
\* The locks of CPU c: slots whose lock it holds, and 0 for wait_lock.
Held(c) == {p \in Procs : plock[p] = c} \cup (IF waitlock = c THEN {0} ELSE {})

(* scheduler(), sched(), yield(), forkret() *)
Scheduler(c, p) ==
    /\ cpu[c] = None /\ Free(p) /\ state[p] = "RUNNABLE"
    /\ state' = [state EXCEPT ![p] = "RUNNING"]
    /\ cpu' = [cpu EXCEPT ![c] = p]
    /\ plock' = [plock EXCEPT ![p] = c]
    /\ UNCHANGED <<parent, pid, killed, chan, k, waitlock, nextpid>>

\* Mutant of Sched: the lock is released before the switch, so that the slot
\* can be freed under the thread that still runs on its stack.
SchedUnlocked(c, p) ==
    /\ At(c, p, "sched")
    /\ IF plock[p] = c
       THEN plock' = [plock EXCEPT ![p] = NoCpu] /\ UNCHANGED <<cpu, k>>
       ELSE cpu' = [cpu EXCEPT ![c] = None] /\ Goto(p, "resume") /\ UNCHANGED plock
    /\ UNCHANGED <<state, parent, pid, killed, chan, waitlock, nextpid>>

\* swtch() to the scheduler, which clears c->proc and releases p->lock.
Sched(c, p) ==
    /\ At(c, p, "sched")
    /\ cpu' = [cpu EXCEPT ![c] = None]
    /\ plock' = [plock EXCEPT ![p] = NoCpu]
    /\ Goto(p, "resume")
    /\ UNCHANGED <<state, parent, pid, killed, chan, waitlock, nextpid>>

\* The other end of the switch: forkret(), yield() and sleep() release p->lock.
Resume(c, p) ==
    /\ At(c, p, "resume")
    /\ chan' = [chan EXCEPT ![p] = None]
    /\ plock' = [plock EXCEPT ![p] = NoCpu]
    /\ Goto(p, k[p].back)
    /\ UNCHANGED <<state, parent, pid, killed, cpu, waitlock, nextpid>>

Yield(c, p) ==
    /\ cpu[c] = p /\ Held(c) = {} /\ Free(p) /\ k[p].pc # "sched"
    /\ plock' = [plock EXCEPT ![p] = c]
    /\ state' = [state EXCEPT ![p] = "RUNNABLE"]
    /\ k' = [k EXCEPT ![p].back = k[p].pc, ![p].pc = "sched"]
    /\ UNCHANGED <<parent, pid, killed, chan, cpu, waitlock, nextpid>>

-----------------------------------------------------------------------------
(* wakeup(chan): the slots one after the other, without the caller's own. *)
Awake(q, ch) == state[q] = "SLEEPING" /\ chan[q] = ch

Wakeup(c, p) ==
    LET q == k[p].i
    IN  /\ At(c, p, "wakeup")
        /\ IF q > NPROC
           THEN Goto(p, k[p].on[2]) /\ UNCHANGED state
           ELSE /\ q # p => Free(q)
                /\ state' = IF q # p /\ Awake(q, k[p].on[1])
                            THEN [state EXCEPT ![q] = "RUNNABLE"] ELSE state
                /\ k' = [k EXCEPT ![p].i = q + 1]
        /\ UNCHANGED <<parent, pid, killed, chan, cpu, plock, waitlock, nextpid>>

-----------------------------------------------------------------------------
(* fork() *)

Freeproc(q) ==
    /\ state' = [state EXCEPT ![q] = "UNUSED"]
    /\ pid' = [pid EXCEPT ![q] = 0]
    /\ parent' = [parent EXCEPT ![q] = None]
    /\ chan' = [chan EXCEPT ![q] = None]
    /\ killed' = [killed EXCEPT ![q] = FALSE]

InUser(c, p) == At(c, p, "user") /\ ~killed[p]

\* allocproc() found an UNUSED slot and returns with its lock held.  The scan
\* takes one lock at a time, so that it need not be the first such slot.
Allocproc(c, p, q) ==
    /\ InUser(c, p)
    /\ nextpid =< MaxPid
    /\ state[q] = "UNUSED" /\ Free(q)
    /\ state' = [state EXCEPT ![q] = "USED"]
    /\ pid' = [pid EXCEPT ![q] = nextpid]
    /\ nextpid' = nextpid + 1
    /\ plock' = [plock EXCEPT ![q] = c]
    /\ k' = [k EXCEPT ![p].pc = "fork_copy", ![p].np = q, ![q] = Fresh]
    /\ UNCHANGED <<parent, killed, chan, cpu, waitlock>>

\* The child's memory could not be allocated or copied.
ForkFails(c, p) ==
    /\ At(c, p, "fork_copy")
    /\ Freeproc(k[p].np)
    /\ plock' = [plock EXCEPT ![k[p].np] = NoCpu]
    /\ Goto(p, "user")
    /\ UNCHANGED <<cpu, waitlock, nextpid>>

ForkCopy(c, p) ==
    /\ At(c, p, "fork_copy")
    /\ plock' = [plock EXCEPT ![k[p].np] = NoCpu]
    /\ Goto(p, "fork_parent")
    /\ UNCHANGED <<state, parent, pid, killed, chan, cpu, waitlock, nextpid>>

ForkParent(c, p) ==
    /\ At(c, p, "fork_parent") /\ waitlock = NoCpu
    /\ parent' = [parent EXCEPT ![k[p].np] = p]
    /\ Goto(p, "fork_run")
    /\ UNCHANGED <<state, pid, killed, chan, cpu, plock, waitlock, nextpid>>

ForkRun(c, p) ==
    /\ At(c, p, "fork_run") /\ Free(k[p].np)
    /\ state' = [state EXCEPT ![k[p].np] = "RUNNABLE"]
    /\ Goto(p, "user")
    /\ UNCHANGED <<parent, pid, killed, chan, cpu, plock, waitlock, nextpid>>

-----------------------------------------------------------------------------
(* exit(), also the end of a killed process on its way to user space *)

\* acquire(&wait_lock) and reparent(), whose wakeup(initproc) calls are one,
\* since init can only sleep again under wait_lock.
ExitReparent(c, p) ==
    /\ At(c, p, "user") /\ p # initproc /\ waitlock = NoCpu
    /\ waitlock' = c
    /\ parent' = [q \in Procs |-> IF parent[q] = p THEN initproc ELSE parent[q]]
    /\ IF \E q \in Procs : parent[q] = p
       THEN k' = [k EXCEPT ![p].pc = "wakeup", ![p].i = 1,
                           ![p].on = <<initproc, "exit_parent">>]
       ELSE Goto(p, "exit_parent")
    /\ UNCHANGED <<state, pid, killed, chan, cpu, plock, nextpid>>

\* wakeup(p->parent)
ExitParent(c, p) ==
    /\ At(c, p, "exit_parent")
    /\ k' = [k EXCEPT ![p].pc = "wakeup", ![p].i = 1,
                      ![p].on = <<parent[p], "exit_zombie">>]
    /\ UNCHANGED <<state, parent, pid, killed, chan, cpu, plock, waitlock, nextpid>>

ExitZombie(c, p) ==
    /\ At(c, p, "exit_zombie") /\ Free(p)
    /\ plock' = [plock EXCEPT ![p] = c]
    /\ state' = [state EXCEPT ![p] = "ZOMBIE"]
    /\ waitlock' = NoCpu
    /\ Goto(p, "sched")
    /\ UNCHANGED <<parent, pid, killed, chan, cpu, nextpid>>

-----------------------------------------------------------------------------
(* wait() *)
WaitStart(c, p) ==
    /\ \/ InUser(c, p)
       \/ At(c, p, "wait_again")
    /\ waitlock = NoCpu
    /\ waitlock' = c
    /\ k' = [k EXCEPT ![p].pc = "wait_scan", ![p].i = 1, ![p].kids = FALSE]
    /\ UNCHANGED <<state, parent, pid, killed, chan, cpu, plock, nextpid>>

Return(p) == waitlock' = NoCpu /\ Goto(p, "user")

\* The slot at which the loop is: another's child, or a child that lives.
WaitSkip(c, p) ==
    LET q == k[p].i
    IN  /\ At(c, p, "wait_scan") /\ q =< NPROC
        /\ parent[q] = p => Free(q) /\ state[q] # "ZOMBIE"
        /\ k' = [k EXCEPT ![p].i = q + 1, ![p].kids = @ \/ parent[q] = p]
        /\ UNCHANGED <<state, parent, pid, killed, chan, cpu, plock, waitlock, nextpid>>

Zombie(c, p, q) == /\ At(c, p, "wait_scan") /\ q = k[p].i /\ q =< NPROC
                   /\ parent[q] = p /\ Free(q) /\ state[q] = "ZOMBIE"

WaitReap(c, p, q) ==
    /\ Zombie(c, p, q)
    /\ Freeproc(q)
    /\ Return(p)
    /\ UNCHANGED <<cpu, plock, nextpid>>

\* copyout() of the status failed: the child stays a zombie.
WaitCopyFails(c, p, q) ==
    /\ Zombie(c, p, q)
    /\ p # initproc       \* init passes no address
    /\ Return(p)
    /\ UNCHANGED <<state, parent, pid, killed, chan, cpu, plock, nextpid>>

WaitNone(c, p) ==
    /\ At(c, p, "wait_scan") /\ k[p].i > NPROC
    /\ ~k[p].kids \/ killed[p]
    /\ Free(p)
    /\ Return(p)
    /\ UNCHANGED <<state, parent, pid, killed, chan, cpu, plock, nextpid>>

WaitSleep(c, p) ==
    /\ At(c, p, "wait_scan") /\ k[p].i > NPROC
    /\ k[p].kids /\ ~killed[p]
    /\ Free(p)
    /\ Goto(p, "sleep")
    /\ UNCHANGED <<state, parent, pid, killed, chan, cpu, plock, waitlock, nextpid>>

\* Mutant of Sleep: lk is released before p->lock is taken.
SleepReleaseFirst(c, p) ==
    /\ At(c, p, "sleep") /\ Free(p)
    /\ IF waitlock = c
       THEN waitlock' = NoCpu /\ UNCHANGED <<chan, state, k, plock>>
       ELSE /\ plock' = [plock EXCEPT ![p] = c]
            /\ chan' = [chan EXCEPT ![p] = p]
            /\ state' = [state EXCEPT ![p] = "SLEEPING"]
            /\ k' = [k EXCEPT ![p].pc = "sched", ![p].back = "wait_again"]
            /\ UNCHANGED waitlock
    /\ UNCHANGED <<parent, pid, killed, cpu, nextpid>>

\* sleep(p, &wait_lock), up to sched().
Sleep(c, p) ==
    /\ At(c, p, "sleep") /\ Free(p)
    /\ plock' = [plock EXCEPT ![p] = c]
    /\ waitlock' = NoCpu
    /\ chan' = [chan EXCEPT ![p] = p]
    /\ state' = [state EXCEPT ![p] = "SLEEPING"]
    /\ k' = [k EXCEPT ![p].pc = "sched", ![p].back = "wait_again"]
    /\ UNCHANGED <<parent, pid, killed, cpu, nextpid>>

-----------------------------------------------------------------------------
(* kill(n), and setkilled() after an unexpected trap *)
Kill(c, p, q) ==
    /\ InUser(c, p)
    /\ pid[q] \in Victims /\ Free(q)
    /\ killed' = [killed EXCEPT ![q] = TRUE]
    /\ state' = IF state[q] = "SLEEPING" THEN [state EXCEPT ![q] = "RUNNABLE"] ELSE state
    /\ UNCHANGED <<parent, pid, chan, k, cpu, plock, waitlock, nextpid>>

-----------------------------------------------------------------------------
\* What a thread does without a decision of its program.
KernelStep(c, p) ==
    \/ Wakeup(c, p)
    \/ ForkFails(c, p) \/ ForkCopy(c, p) \/ ForkParent(c, p) \/ ForkRun(c, p)
    \/ ExitParent(c, p) \/ ExitZombie(c, p)
    \/ WaitSkip(c, p) \/ WaitNone(c, p) \/ WaitSleep(c, p) \/ Sleep(c, p)
    \/ \E q \in Procs : WaitReap(c, p, q) \/ WaitCopyFails(c, p, q)

Step(c, p) ==
    \/ Scheduler(c, p) \/ Sched(c, p) \/ Resume(c, p) \/ Yield(c, p)
    \/ KernelStep(c, p)
    \/ ExitReparent(c, p) \/ WaitStart(c, p)
    \/ \E q \in Procs : Allocproc(c, p, q) \/ Kill(c, p, q)

Next == \E c \in CPUs, p \in Procs : Step(c, p)

Spec == Init /\ [][Next]_vars

\* Spinlocks are acquired in the end, a pending timer interrupt is taken when
\* the CPU's last lock is released, the scheduler's round
\* reaches every runnable process, and init calls wait() again and again
\* (user/init.c).  Nothing is assumed of other programs.
Fairness ==
    /\ \A p \in Procs : /\ SF_vars(\E c \in CPUs : Scheduler(c, p))
                       /\ WF_vars(\E c \in CPUs : Sched(c, p) \/ Resume(c, p))
                       /\ SF_vars(\E c \in CPUs : KernelStep(c, p))
                       /\ SF_vars(\E c \in CPUs : Yield(c, p))
    /\ SF_vars(\E c \in CPUs : WaitStart(c, initproc))

LiveSpec == Spec /\ Fairness

-----------------------------------------------------------------------------
(* Properties *)
TypeOK ==
    /\ state \in [Procs -> {"UNUSED", "USED", "SLEEPING", "RUNNABLE", "RUNNING", "ZOMBIE"}]
    /\ parent \in [Procs -> Procs \cup {None}]
    /\ \A p \in Procs : pid[p] \in 0 .. MaxPid /\ (pid[p] = 0 <=> state[p] = "UNUSED")
    /\ chan \in [Procs -> Procs \cup {None}]
    /\ killed \in [Procs -> BOOLEAN]
    /\ cpu \in [CPUs -> Procs \cup {None}]
    /\ plock \in [Procs -> CPUs \cup {NoCpu}] /\ waitlock \in CPUs \cup {NoCpu}

\* One CPU per thread: no two CPUs run the same process, so that no kernel
\* stack is used twice, and a process is RUNNING only on a CPU.
OneCpuPerProc ==
    /\ \A c, d \in CPUs : c # d /\ cpu[c] # None => cpu[c] # cpu[d]
    /\ \A p \in Procs : state[p] = "RUNNING" => \E c \in CPUs : cpu[c] = p

\* A thread that a CPU still executes has not been freed by wait(): exit()
\* keeps p->lock until the scheduler has left the stack.
NotFreedUnderfoot ==
    \A c \in CPUs : cpu[c] # None => state[cpu[c]] \notin {"UNUSED", "USED"}

\* sched() finds the CPU holding p->lock and no other lock ("sched locks").
SchedLocks == \A c \in CPUs, p \in Procs : At(c, p, "sched") => Held(c) = {p}

\* No kernel stack is used by two threads: no process runs on two CPUs, none is
\* freed while a CPU still runs on its stack, and whoever switches away holds
\* p->lock and no other lock.
StacksSafe == OneCpuPerProc /\ NotFreedUnderfoot /\ SchedLocks

\* No lost wakeup: with wait_lock free, no process sleeps in wait() while it
\* has a zombie child to collect.
NoZombieOverlooked ==
    waitlock = NoCpu =>
        \A p, q \in Procs : parent[q] = p /\ state[q] = "ZOMBIE"
                            => ~(state[p] = "SLEEPING" /\ chan[p] = p)

\* The tree of processes: outside exit()'s critical section every process but
\* init has a parent that can still collect it.
NoOrphans ==
    waitlock = NoCpu =>
        \A q \in Procs : q # initproc /\ state[q] \in {"SLEEPING", "RUNNABLE", "RUNNING", "ZOMBIE"}
                         => /\ parent[q] # None
                            /\ state[parent[q]] \notin {"UNUSED", "USED", "ZOMBIE"}

\* Every zombie has a parent who can collect it and who does not sleep over it,
\* however parents and children exit, wait and are killed at the same time.
ZombiesCollected == NoZombieOverlooked /\ NoOrphans

\* init collects every zombie that is its child, its own or inherited.
InitReaps ==
    \A q \in Procs : state[q] = "ZOMBIE" /\ parent[q] = initproc
                     ~> state[q] = "UNUSED"

\* kill() marks processes, never an empty slot whose next process would be
\* born killed.
OnlyProcessesKilled == \A p \in Procs : state[p] = "UNUSED" => ~killed[p]
=============================================================================
