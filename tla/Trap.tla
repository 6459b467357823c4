-------------------------------- MODULE Trap --------------------------------
(***************************************************************************)
(* From user mode into the kernel and back (Assignment3: trap.c,           *)
(* trampoline.S, kernelvec.S, swtch.S, spinlock.c, plic.c, and the part of *)
(* proc.c that switches contexts), on several harts at once.               *)
(*                                                                         *)
(* A hart has its control registers, a kernel stack pointer and tp; the    *)
(* other general registers are one value, of which a0 is told apart.       *)
(* Kernel code is a place (pc.at) and the place to go on after it          *)
(* (pc.then); system calls and device handlers use one spin lock.  A       *)
(* supervisor interrupt can be taken between any two steps at which the    *)
(* hart has them enabled.                                                  *)
(***************************************************************************)
EXTENDS Integers, Sequences, FiniteSets

CONSTANTS Harts, Threads, Nobody

TrapAssumption == Harts \cap Threads = {} /\ Nobody \notin Harts \cup Threads

VARIABLES hart,    \* registers of each hart and its struct cpu
          proc,    \* p->state, p->lock, p->context, p->trapframe
          stack,   \* frames of kernelvec on the stack of a process or of a scheduler
          lock,    \* owner of the spin lock of the device
          irq,     \* the device's line at the PLIC: idle, pending or claimed
          user,    \* the registers and pc each program must find
          panic

trapVars == <<hart, proc, stack, lock, irq, user, panic>>

Place(at, then) == [at |-> at, then |-> then, n |-> 0]
UserPc(n) == [at |-> "user", then |-> "user", n |-> n]
Junk == [a0 |-> 0, rest |-> Nobody]    \* registers the kernel has used
Kernel == [a0 |-> 1, rest |-> Nobody]  \* registers of a system call in progress
Own(p, n) == [a0 |-> n, rest |-> p]    \* registers of program p

\* Processes wait in forkret(), with p->context and p->trapframe set up by
\* fork(); each hart has come through start() and main() to scheduler().
TrapInit ==
    /\ hart = [h \in Harts |->
          [pc |-> Place("scheduler", "scheduler"), mode |-> "S", SIE |-> FALSE, SPIE |-> FALSE,
           SPP |-> "S", sepc |-> Place("scheduler", "scheduler"), scause |-> "none",
           stvec |-> "kernelvec", satp |-> Nobody, regs |-> Junk, sp |-> h, tp |-> h,
           noff |-> 0, intena |-> FALSE, proc |-> Nobody, sip |-> FALSE]]
    /\ proc = [p \in Threads |->
          [state |-> "RUNNABLE", lock |-> Nobody, intena |-> FALSE,
           context |-> [pc |-> Place("forkret", "usertrapret"), regs |-> Junk],
           tf |-> [regs |-> Own(p, 0), epc |-> UserPc(0), hartid |-> Nobody]]]
    /\ stack = [s \in Harts \cup Threads |-> <<>>]
    /\ lock = Nobody /\ irq = "idle"
    /\ user = [p \in Threads |-> [regs |-> Own(p, 0), pc |-> UserPc(0)]]
    /\ panic = FALSE

PcAt(h, at) == hart[h].pc.at = at
Jump(r, at) == [r EXCEPT !.pc.at = at]
Set(h, r) == hart' = [hart EXCEPT ![h] = r]
\* mycpu() and myproc() go through tp.
mycpu(h) == hart[hart[h].tp]
myproc(h) == mycpu(h).proc

-----------------------------------------------------------------------------
(* spinlock.c                                                               *)

push_off(r) == [r EXCEPT !.SIE = FALSE, !.noff = @ + 1,
                         !.intena = IF r.noff = 0 THEN r.SIE ELSE @]
pop_off(r) == LET c == [r EXCEPT !.noff = @ - 1]
              IN  IF c.noff = 0 /\ c.intena THEN [c EXCEPT !.SIE = TRUE] ELSE c
BadPop(r) == r.SIE \/ r.noff < 1

-----------------------------------------------------------------------------
(* The hardware: a trap goes to stvec with interrupts off.                  *)

Enter(r, cause) == [r EXCEPT !.sepc = r.pc, !.SPP = r.mode, !.SPIE = r.SIE, !.SIE = FALSE,
                             !.mode = "S", !.scause = cause, !.pc = Place(r.stvec, "none")]
Sret(r) == [r EXCEPT !.pc = r.sepc, !.mode = r.SPP, !.SIE = r.SPIE]

\* The system call returns behind the ecall instruction.
Ecall(h) == /\ PcAt(h, "user") /\ Set(h, Enter(hart[h], "ecall"))
            /\ user' = [user EXCEPT ![hart[h].proc].pc = UserPc(1 - hart[h].pc.n)]
            /\ UNCHANGED <<proc, stack, lock, irq, panic>>

Interrupt(h) ==
    /\ hart[h].mode = "U" \/ hart[h].SIE
    /\ \/ hart[h].sip /\ Set(h, Enter(hart[h], "timer"))
       \/ irq = "pending" /\ Set(h, Enter(hart[h], "device"))
    /\ UNCHANGED <<proc, stack, lock, irq, user, panic>>

\* The machine-mode timer interrupt, which comes whatever SIE is.
timervec(h) == /\ ~hart[h].sip /\ Set(h, [hart[h] EXCEPT !.sip = TRUE])
               /\ UNCHANGED <<proc, stack, lock, irq, user, panic>>

Device == /\ irq = "idle" /\ irq' = "pending"
          /\ UNCHANGED <<hart, proc, stack, lock, user, panic>>

-----------------------------------------------------------------------------
(* trampoline.S and trap.c: to the kernel and back.                         *)

\* TRAPFRAME is the page of the process whose page table is installed.
uservec(h) ==
    /\ PcAt(h, "uservec") /\ hart[h].satp # Nobody
    /\ LET q == hart[h].satp IN
       /\ proc' = [proc EXCEPT ![q].tf.regs = hart[h].regs]
       /\ Set(h, Jump([hart[h] EXCEPT !.sp = q, !.tp = proc[q].tf.hartid, !.satp = Nobody,
                                      !.regs = Junk], "usertrap"))
    /\ UNCHANGED <<stack, lock, irq, user, panic>>

usertrap(h) ==
    /\ PcAt(h, "usertrap")
    /\ LET p == myproc(h)
           call == hart[h].scause = "ecall"
           pc == hart[h].sepc
       IN  /\ proc' = [proc EXCEPT ![p].tf.epc = IF call THEN [pc EXCEPT !.n = 1 - @] ELSE pc]
           /\ Set(h, [hart[h] EXCEPT !.stvec = "kernelvec", !.SIE = call,
                         !.regs = IF call THEN Kernel ELSE @,
                         !.pc = IF call THEN Place("syscall", "none")
                                ELSE Place(hart[h].scause, "usertrapret")])
    /\ panic' = (panic \/ hart[h].SPP # "U")
    /\ UNCHANGED <<stack, lock, irq, user>>

intr_off(r) == [r EXCEPT !.SIE = FALSE]

usertrapret(h) == /\ PcAt(h, "usertrapret") /\ Set(h, Jump(intr_off(hart[h]), "usertrapret_off"))
                  /\ UNCHANGED <<proc, stack, lock, irq, user, panic>>
usertrapret_off(h) ==
    /\ PcAt(h, "usertrapret_off")
    /\ LET p == myproc(h) IN
       /\ proc' = [proc EXCEPT ![p].tf.hartid = hart[h].tp]
       /\ Set(h, [hart[h] EXCEPT !.stvec = "uservec", !.SPP = "U", !.SPIE = TRUE,
                                 !.sepc = proc[p].tf.epc, !.pc = Place("userret", "none")])
    /\ UNCHANGED <<stack, lock, irq, user, panic>>
userret(h) ==
    /\ PcAt(h, "userret")
    /\ LET p == myproc(h) IN
       Set(h, Sret([hart[h] EXCEPT !.satp = p, !.regs = proc[p].tf.regs, !.tp = Nobody]))
    /\ UNCHANGED <<proc, stack, lock, irq, user, panic>>

\* The frame holds the registers, tp too, and the locals of kerneltrap().
kernelvec(h) ==
    /\ PcAt(h, "kernelvec")
    /\ LET r == hart[h] IN
       /\ stack' = [stack EXCEPT ![r.sp] = Append(@, [regs |-> r.regs, sepc |-> r.sepc,
                                                      SPP |-> r.SPP, SPIE |-> r.SPIE])]
       /\ Set(h, [r EXCEPT !.regs = Junk, !.pc = Place(r.scause, "kerneltrap_end")])
       /\ panic' = (panic \/ r.SPP # "S" \/ r.SIE)
    /\ UNCHANGED <<proc, lock, irq, user>>

\* Mutant: sepc and sstatus are those of the last trap on this hart.
RestoreTrapNot(r, f) == r
RestoreTrap(r, f) == [r EXCEPT !.sepc = f.sepc, !.SPP = f.SPP, !.SPIE = f.SPIE]

\* The registers come back from the frame, except tp: the hart may be another.
RestoreFrame(r, f) == [r EXCEPT !.regs = f.regs]

\* kerneltrap() returns with the sepc and sstatus it was entered with.
kerneltrap_end(h) ==
    /\ PcAt(h, "kerneltrap_end") /\ stack[hart[h].sp] # <<>>
    /\ LET s == hart[h].sp
           f == stack[s][Len(stack[s])]
       IN  /\ stack' = [stack EXCEPT ![s] = SubSeq(@, 1, Len(@) - 1)]
           /\ Set(h, Sret(RestoreFrame(RestoreTrap(hart[h], f), f)))
    /\ UNCHANGED <<proc, lock, irq, user, panic>>

-----------------------------------------------------------------------------
(* Critical sections: of devintr(), which claims the interrupt from the     *)
(* PLIC first, and of system calls.                                         *)

plic_claim(h) ==
    /\ PcAt(h, "device")
    /\ IF irq = "pending" THEN irq' = "claimed" /\ Set(h, Jump(push_off(hart[h]), "device_spin"))
       ELSE Set(h, Jump(hart[h], hart[h].pc.then)) /\ UNCHANGED irq   \* another hart has it
    /\ UNCHANGED <<proc, stack, lock, user, panic>>

Acquires(at) == at \in {"timer", "syscall"}
Spin(at) == IF at = "timer" THEN "timer_spin" ELSE "syscall_spin"
acquire(h) == /\ Acquires(hart[h].pc.at)
              /\ Set(h, Jump(push_off(hart[h]), Spin(hart[h].pc.at)))
              /\ UNCHANGED <<proc, stack, lock, irq, user, panic>>

Spinning == {"timer_spin", "device_spin", "syscall_spin"}
HeldPc == [s \in Spinning |-> CASE s = "timer_spin" -> "timer_held"
                              [] s = "device_spin" -> "device_held"
                              [] s = "syscall_spin" -> "syscall_held"]
\* The swap succeeds, or acquire() finds that its own hart has the lock.
test_and_set(h) ==
    /\ hart[h].pc.at \in Spinning /\ lock \in {Nobody, h}
    /\ lock' = h /\ panic' = (panic \/ lock = h)
    /\ Set(h, Jump(hart[h], HeldPc[hart[h].pc.at]))
    /\ UNCHANGED <<proc, stack, irq, user>>

plic_complete(h) == IF PcAt(h, "device_held") THEN "idle" ELSE irq

\* After the critical section; devintr() acknowledges the timer, and its
\* caller then gives up the CPU, in the kernel only if a process runs.
devintr_end(h, r) ==
    CASE PcAt(h, "syscall_held") -> Jump(r, "syscall_done")
      [] PcAt(h, "device_held") -> Jump(r, r.pc.then)
      [] PcAt(h, "timer_held") ->
             Jump([r EXCEPT !.sip = FALSE],
                  IF \/ r.pc.then = "usertrapret"
                     \/ myproc(h) # Nobody /\ proc[myproc(h)].state = "RUNNING"
                  THEN "yield" ELSE r.pc.then)

release(h) ==
    /\ hart[h].pc.at \in {"timer_held", "device_held", "syscall_held"}
    /\ lock' = Nobody /\ panic' = (panic \/ BadPop(hart[h]) \/ lock # h)
    /\ irq' = plic_complete(h)
    /\ Set(h, devintr_end(h, pop_off(hart[h])))
    /\ UNCHANGED <<proc, stack, user>>

\* syscall() puts the result into a0 of the trapframe.
SysReturn(h) ==
    /\ PcAt(h, "syscall_done")
    /\ LET p == myproc(h) IN
       /\ proc' = [proc EXCEPT ![p].tf.regs.a0 = 1 - @]
       /\ user' = [user EXCEPT ![p].regs.a0 = 1 - @]
    /\ Set(h, Jump(hart[h], "usertrapret"))
    /\ UNCHANGED <<stack, lock, irq, panic>>
\* A system call that sleeps and goes on.
SysSleep(h) == /\ PcAt(h, "syscall_done")
               /\ Set(h, [hart[h] EXCEPT !.pc = Place("yield", "syscall_done")])
               /\ UNCHANGED <<proc, stack, lock, irq, user, panic>>

-----------------------------------------------------------------------------
(* proc.c and swtch.S: the process gives up the CPU holding its p->lock,    *)
(* and goes on, perhaps on another hart, with its own idea of intena.       *)

yield(h) ==
    /\ PcAt(h, "yield") /\ proc[myproc(h)].lock = Nobody
    /\ LET p == myproc(h)
           r == push_off(hart[h])
       IN  /\ proc' = [proc EXCEPT ![p] = [@ EXCEPT !.lock = h, !.state = "RUNNABLE",
                          !.intena = r.intena,
                          !.context = [pc |-> Place("sched", r.pc.then), regs |-> r.regs]]]
           /\ panic' = (panic \/ r.noff # 1 \/ r.SIE)
           /\ Set(h, [r EXCEPT !.pc = Place("swtched", "scheduler"), !.sp = h, !.regs = Junk])
    /\ UNCHANGED <<stack, lock, irq, user>>

\* Back in scheduler(): c->proc = 0 and release(&p->lock).
swtched(h) ==
    /\ PcAt(h, "swtched")
    /\ proc' = [proc EXCEPT ![hart[h].proc].lock = Nobody]
    /\ panic' = (panic \/ BadPop(hart[h]))
    /\ Set(h, Jump(pop_off([hart[h] EXCEPT !.proc = Nobody]), "scheduler"))
    /\ UNCHANGED <<stack, lock, irq, user>>

scheduler(h) == /\ PcAt(h, "scheduler") /\ Set(h, Jump([hart[h] EXCEPT !.SIE = TRUE], "pick"))
                /\ UNCHANGED <<proc, stack, lock, irq, user, panic>>

pick(h, p) ==
    /\ PcAt(h, "pick") /\ proc[p].lock = Nobody /\ proc[p].state = "RUNNABLE"
    /\ proc' = [proc EXCEPT ![p].lock = h, ![p].state = "RUNNING"]
    /\ Set(h, [push_off(hart[h]) EXCEPT !.proc = p, !.sp = p, !.pc = proc[p].context.pc,
                                        !.regs = proc[p].context.regs])
    /\ UNCHANGED <<stack, lock, irq, user, panic>>

\* Mutant: intena of the hart it left is lost.
RestoreIntenaNot(r, p) == r
RestoreIntena(r, p) == [r EXCEPT !.intena = proc[p].intena]

\* The end of sched(), or forkret(): release(&p->lock).
resume(h) ==
    /\ PcAt(h, "sched") \/ PcAt(h, "forkret")
    /\ LET p == myproc(h)
           r == IF PcAt(h, "sched") THEN RestoreIntena(hart[h], p) ELSE hart[h]
       IN  /\ proc' = [proc EXCEPT ![p].lock = Nobody]
           /\ panic' = (panic \/ BadPop(r))
           /\ Set(h, Jump(pop_off(r), r.pc.then))
    /\ UNCHANGED <<stack, lock, irq, user>>

TrapNext == Device \/ \E h \in Harts :
            \/ Ecall(h) \/ Interrupt(h) \/ timervec(h)
            \/ uservec(h) \/ usertrap(h) \/ usertrapret(h) \/ usertrapret_off(h) \/ userret(h)
            \/ kernelvec(h) \/ kerneltrap_end(h)
            \/ plic_claim(h) \/ acquire(h) \/ test_and_set(h) \/ release(h)
            \/ SysReturn(h) \/ SysSleep(h)
            \/ yield(h) \/ swtched(h) \/ scheduler(h) \/ resume(h)
            \/ \E p \in Threads : pick(h, p)

TrapSpec == TrapInit /\ [][TrapNext]_trapVars

\* The state without registers that are set before they are read again, and
\* with the values of a program, which it counts modulo 2, as differences from
\* those it must find.
TrapView ==
    LET trapping == {"uservec", "usertrap", "kernelvec", "userret"}
        pc0(pc, p) == IF pc.at = "user" THEN UserPc((pc.n + user[p].pc.n) % 2) ELSE pc
        regs0(regs) == IF regs.rest \in Threads
                       THEN [regs EXCEPT !.a0 = (@ + user[regs.rest].regs.a0) % 2] ELSE regs
        h0(r) == [r EXCEPT !.sepc = IF r.pc.at \in trapping THEN pc0(@, r.proc) ELSE UserPc(0),
                           !.SPP = IF r.pc.at \in trapping THEN @ ELSE "S",
                           !.SPIE = IF r.pc.at \in trapping THEN @ ELSE FALSE,
                           !.scause = IF r.pc.at \in trapping THEN @ ELSE "none",
                           !.intena = IF r.noff = 0 THEN FALSE ELSE @,
                           !.pc = pc0(@, r.proc), !.regs = regs0(@)]
        returned(p) == \E h \in Harts : /\ hart[h].proc = p
                                        /\ hart[h].pc.at \in {"userret", "user", "uservec"}
        tf0(tf, p) == [regs |-> regs0(tf.regs), epc |-> pc0(tf.epc, p),
                       hartid |-> IF returned(p) THEN tf.hartid ELSE Nobody]
        p0(q, p) == IF q.state = "RUNNING" /\ q.lock = Nobody
                    THEN <<tf0(q.tf, p)>> ELSE <<[q EXCEPT !.tf = tf0(@, p)]>>
    IN  <<[h \in Harts |-> h0(hart[h])], [p \in Threads |-> p0(proc[p], p)], stack, lock, irq, panic>>

-----------------------------------------------------------------------------
\* A program finds the registers and the pc it left, a0 and pc advanced by a
\* system call, however often it was interrupted, switched out inside the
\* kernel and moved between harts; a system call finds its own registers.
RegistersKept ==
    \A h \in Harts :
        /\ PcAt(h, "user") => /\ hart[h].regs = user[hart[h].proc].regs
                            /\ hart[h].pc = user[hart[h].proc].pc
                            /\ hart[h].satp = hart[h].proc
        /\ hart[h].pc.at \in {"syscall", "syscall_held", "syscall_done"} => hart[h].regs = Kernel

\* Where an interrupt can be taken, stvec names the handler of that mode; the
\* kernel's tp is the hart; and no interrupt is open while a lock is held.
TrapsSafe ==
    \A h \in Harts :
        /\ hart[h].mode = "U" => hart[h].stvec = "uservec"
        /\ hart[h].mode = "S" /\ hart[h].SIE =>
               /\ hart[h].stvec = "kernelvec" /\ hart[h].noff = 0
               /\ lock # h /\ \A p \in Threads : proc[p].lock # h
        /\ hart[h].mode = "S" /\ ~PcAt(h, "uservec") => hart[h].tp = h

\* Two harts never run one process or use one kernel stack; interrupts nest
\* at most once on a stack; no check of push_off, sched or kerneltrap fails.
KernelSound ==
    /\ ~panic
    /\ \A g, h \in Harts : g # h => /\ hart[g].sp # hart[h].sp
                                    /\ hart[g].proc # Nobody => hart[g].proc # hart[h].proc
    /\ \A s \in DOMAIN stack : Len(stack[s]) <= 1

\* Traps and switches keep the kernel's own state: no interrupt meets a lock,
\* a wrong vector or a wrong tp, and no two harts share a stack.
TrapsSound == TrapsSafe /\ KernelSound
=============================================================================
