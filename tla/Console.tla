------------------------------ MODULE Console ------------------------------
(***************************************************************************)
(* Console input (kernel/console.c): consoleread() and the interrupt       *)
(* handler consoleintr() around the ring buffer cons.buf.                  *)
(*                                                                         *)
(* consoleintr() runs under cons.lock to its end and is one action; each   *)
(* turn of consoleread()'s loop is one, with cons.lock held from turn to   *)
(* turn and given up only to sleep or to return.                           *)
(***************************************************************************)
EXTENDS Integers, Sequences, FiniteSets, FiniteSetsExt

CONSTANTS Procs,
          Plain,           \* ordinary characters
          INPUT_BUF_SIZE,
          MOD,             \* cons.r, cons.w, cons.e are uint: modulo MOD
          MaxN             \* bound on the characters one read asks for

NL == "nl"                 \* newline; a carriage return is turned into it
EOF == "eof"               \* C('D')
Char == Plain \cup {NL, EOF}

ConsoleAssumption ==
    /\ INPUT_BUF_SIZE \in Nat \ {0} /\ MOD \in Nat /\ MOD > INPUT_BUF_SIZE
    /\ MOD % INPUT_BUF_SIZE = 0 /\ MaxN \in Nat

VARIABLES buf, r, w, e,
          lock,            \* holder of cons.lock
          pc, target, n,   \* consoleread()
          killed           \* p->killed

vars == <<buf, r, w, e, lock, pc, target, n, killed>>

None == "none"
Cells == 0 .. INPUT_BUF_SIZE - 1

Init == /\ buf = [x \in Cells |-> NL]
        /\ r = 0 /\ w = 0 /\ e = 0
        /\ lock = None
        /\ pc = [p \in Procs |-> "idle"]
        /\ target = [p \in Procs |-> 0]
        /\ n = [p \in Procs |-> 0]
        /\ killed = {}

\* Characters from index a up to index b.
Dist(a, b) == (b - a) % MOD
At(x) == buf[x % INPUT_BUF_SIZE]

\* wakeup(&cons.r)
Woken == [p \in Procs |-> IF pc[p] = "asleep" THEN "acquire" ELSE pc[p]]

-----------------------------------------------------------------------------
(* consoleintr(c) *)

Finishes(c) == c \in {NL, EOF} \/ Dist(r, e) + 1 = INPUT_BUF_SIZE

HasRoom == Dist(r, e) < INPUT_BUF_SIZE

IntrChar(c) ==
    /\ lock = None /\ HasRoom
    /\ buf' = [buf EXCEPT ![e % INPUT_BUF_SIZE] = c]
    /\ e' = (e + 1) % MOD
    /\ IF Finishes(c) THEN w' = e' /\ pc' = Woken ELSE UNCHANGED <<w, pc>>
    /\ UNCHANGED <<r, lock, target, n, killed>>

\* No room: the character is dropped.  C('P') only prints.
IntrDropped == lock = None /\ ~HasRoom /\ UNCHANGED vars

\* Mutant of Erasable: the edited line may be taken back into finished ones.
ErasableAll == Dist(r, e)

Erasable == Dist(w, e)

IntrErase ==
    /\ lock = None /\ Erasable # 0
    /\ e' = (e - 1) % MOD
    /\ UNCHANGED <<buf, r, w, lock, pc, target, n, killed>>

\* C('U'): back to w, or to a newline.
IntrKill ==
    /\ lock = None
    /\ e' = (e - Max({k \in 0 .. Dist(w, e) : \A j \in 1 .. k : At(e - j) # NL})) % MOD
    /\ UNCHANGED <<buf, r, w, lock, pc, target, n, killed>>

-----------------------------------------------------------------------------
(* consoleread(dst, m) *)
ReadStart(p, m) ==
    /\ pc[p] = "idle"
    /\ target' = [target EXCEPT ![p] = m]
    /\ n' = [n EXCEPT ![p] = m]
    /\ pc' = [pc EXCEPT ![p] = "acquire"]
    /\ UNCHANGED <<buf, r, w, e, lock, killed>>

Acquire(p) ==
    /\ pc[p] = "acquire" /\ lock = None
    /\ lock' = p
    /\ pc' = [pc EXCEPT ![p] = "loop"]
    /\ UNCHANGED <<buf, r, w, e, target, n, killed>>

\* release(&cons.lock) and return, or go to sleep.
Leave(p, l) == /\ lock' = None
               /\ pc' = [pc EXCEPT ![p] = l]

\* killed() is asked under cons.lock, but kill() does not take that lock ...
ReadEmpty(p) ==
    /\ pc[p] = "loop" /\ n[p] > 0 /\ r = w /\ p \notin killed
    /\ pc' = [pc EXCEPT ![p] = "sleep"]
    /\ UNCHANGED <<buf, r, w, e, lock, target, n, killed>>

\* ... and may come before sleep(&cons.r, &cons.lock).
ReadSleep(p) ==
    /\ pc[p] = "sleep"
    /\ Leave(p, "asleep")
    /\ UNCHANGED <<buf, r, w, e, target, n, killed>>

Return(p) == /\ Leave(p, "idle")
             /\ target' = [target EXCEPT ![p] = 0]
             /\ n' = [n EXCEPT ![p] = 0]

ReadKilled(p) ==
    /\ pc[p] = "loop" /\ n[p] > 0 /\ r = w /\ p \in killed
    /\ Return(p)
    /\ UNCHANGED <<buf, r, w, e, killed>>

ReadChar(p) ==
    /\ pc[p] = "loop" /\ n[p] > 1 /\ r # w /\ At(r) \notin {NL, EOF}
    /\ r' = (r + 1) % MOD
    /\ n' = [n EXCEPT ![p] = @ - 1]
    /\ UNCHANGED <<buf, w, e, lock, pc, target, killed>>

\* "Save ^D for next time" if something was read before it.
AfterEof(p) == IF n[p] < target[p] THEN r ELSE (r + 1) % MOD

ReadEof(p) ==
    /\ pc[p] = "loop" /\ n[p] > 0 /\ r # w /\ At(r) = EOF
    /\ r' = AfterEof(p)
    /\ Return(p)
    /\ UNCHANGED <<buf, w, e, killed>>

\* The last character asked for, the end of the line, or a failed copyout.
ReadLast(p) ==
    /\ pc[p] = "loop" /\ n[p] > 0 /\ r # w /\ At(r) # EOF
    /\ r' = (r + 1) % MOD
    /\ Return(p)
    /\ UNCHANGED <<buf, w, e, killed>>

\* kill() makes a sleeper runnable; the process is reaped after it returns.
Kill(p) ==
    /\ pc[p] # "idle" /\ p \notin killed
    /\ killed' = killed \cup {p}
    /\ pc' = [pc EXCEPT ![p] = IF @ = "asleep" THEN "acquire" ELSE @]
    /\ UNCHANGED <<buf, r, w, e, lock, target, n>>

Reaped(p) ==
    /\ pc[p] = "idle" /\ p \in killed
    /\ killed' = killed \ {p}
    /\ UNCHANGED <<buf, r, w, e, lock, pc, target, n>>

-----------------------------------------------------------------------------
Reading(p) == \/ Acquire(p) \/ ReadEmpty(p) \/ ReadSleep(p) \/ ReadKilled(p) \/ ReadChar(p)
              \/ ReadEof(p) \/ ReadLast(p)

Next == \/ \E c \in Char : IntrChar(c)
        \/ IntrDropped \/ IntrErase \/ IntrKill
        \/ \E p \in Procs : \/ \E m \in 1 .. MaxN : ReadStart(p, m)
                            \/ Reading(p) \/ Kill(p) \/ Reaped(p)

Spec == Init /\ [][Next]_vars

\* A runnable reader runs and gets the lock.
Fairness == \A p \in Procs : SF_vars(Reading(p))

LiveSpec == Spec /\ Fairness

-----------------------------------------------------------------------------
TypeOK ==
    /\ buf \in [Cells -> Char] /\ {r, w, e} \subseteq 0 .. MOD - 1
    /\ lock \in Procs \cup {None} /\ killed \subseteq Procs
    /\ \A p \in Procs : n[p] =< target[p] /\ (lock = p <=> pc[p] \in {"loop", "sleep"})

\* The three indices stay in order around the ring, and a full buffer always
\* belongs to the readers: a user who types too much can never wedge the
\* console with a line that can neither grow nor be read.
IndicesOrdered ==
    /\ Dist(r, w) + Dist(w, e) = Dist(r, e) /\ Dist(r, e) =< INPUT_BUF_SIZE
    /\ Dist(r, e) = INPUT_BUF_SIZE => w = e

\* A reader sleeps only while no finished input is left: no wakeup is missed.
AsleepOnlyIfEmpty == \A p \in Procs : pc[p] = "asleep" => r = w

\* "Wake process from sleep()": a process that was killed is not left asleep.
KilledWakes == \A p \in Procs : pc[p] = "asleep" => p \notin killed

\* An end of file that follows other input stays for the next read: it is
\* removed only by a read that has got nothing else.
EofKept ==
    [][\A p \in Procs : lock = p /\ At(r) = EOF /\ r' # r => n[p] = target[p]]_vars

\* The ring buffer implements the line input: editing never touches finished
\* input, and characters are taken once and in order.
Slice(a, b) == [j \in 1 .. Dist(a, b) |-> At(a + j - 1)]
Line == INSTANCE LineInput WITH Ends <- {NL, EOF}, Size <- INPUT_BUF_SIZE,
                                lines <- Slice(r, w), edit <- Slice(w, e)
LineDiscipline == Line!Spec

\* Every reader returns, or finds all finished input taken.
ReadersServed == \A p \in Procs : pc[p] # "idle" ~> pc[p] = "idle" \/ r = w
=============================================================================
