---------------------------- MODULE AddressSpace ----------------------------
(***************************************************************************)
(* What the virtual memory promises a process: a private sequence of pages *)
(* that only its own system calls change.  A call that fails changes       *)
(* nothing, except that a copy into the process may stop half-way.         *)
(***************************************************************************)
EXTENDS Integers, Sequences, FiniteSetsExt

CONSTANTS Procs,      \* the process table
          PageSize,   \* bytes of a page
          Programs,   \* the files exec() may be given
          Mark        \* the byte the kernel copies into user memory

VARIABLE space   \* per process the sequence of its pages, or NoSpace

NoSpace == <<[user |-> FALSE, write |-> FALSE, bytes |-> <<>>]>>
Zeros == [i \in 0 .. PageSize - 1 |-> 0]
PageCount(bytes) == (bytes + PageSize - 1) \div PageSize

-----------------------------------------------------------------------------
(* Reading a space.                                                         *)

Byte(s, a) == s[a \div PageSize + 1].bytes[a % PageSize]
Usable(s, a) == a < PageSize * Len(s) /\ s[a \div PageSize + 1].user
\* The lengths at which the run of usable bytes from a on meets a zero.
Ends(s, a) == {n \in 0 .. PageSize * Len(s) - 1 :
                  /\ \A i \in 0 .. n : Usable(s, a + i)
                  /\ Byte(s, a + n) = 0}
Text(s, a) == [i \in 1 .. Min(Ends(s, a)) |-> Byte(s, a + i - 1)]
\* The strings of the null-terminated vector at v.
ArgsAt(s, v) == [i \in 1 .. Len(Text(s, v)) |-> Text(s, Text(s, v)[i])]
\* The last page, the stack, has such a vector.
HasArgs(s, args) ==
    \E v \in PageSize * (Len(s) - 1) .. PageSize * Len(s) - 1 :
        /\ Ends(s, v) # {} /\ Len(Text(s, v)) = Len(args)
        /\ \A i \in DOMAIN args : LET a == Byte(s, v + i - 1) IN
                                  Ends(s, a) # {} /\ Text(s, a) = args[i]

\* The image of a program: each byte from the last segment that has it in the
\* file, zero elsewhere; a page takes its rights from the first segment that
\* reaches it.  Then the guard page and the stack.
Image(s, prog) ==
    LET End(i) == prog.segs[i].vaddr + prog.segs[i].memsz
        n == PageCount(Max({End(i) : i \in DOMAIN prog.segs} \cup {0}))
        Holds(i, a) == a - prog.segs[i].vaddr \in 0 .. prog.segs[i].filesz - 1
        Wanted(a) == LET h == {i \in DOMAIN prog.segs : Holds(i, a)}
                     IN  IF h = {} THEN 0
                         ELSE prog.file[prog.segs[Max(h)].off + a - prog.segs[Max(h)].vaddr + 1]
        Reach(k) == Min({i \in DOMAIN prog.segs : End(i) > (k - 1) * PageSize})
    IN  /\ Len(s) = n + 2
        /\ \A a \in 0 .. n * PageSize - 1 : Byte(s, a) = Wanted(a)
        /\ \A k \in 1 .. n : /\ s[k].user
                             /\ s[k].write = ("W" \in prog.segs[Reach(k)].flags)
        /\ ~s[n + 1].user /\ s[n + 2].user /\ s[n + 2].write

-----------------------------------------------------------------------------
(* What may become of the space s of one process in a step: the space t.    *)

\* fork(): the child gets a copy.
Copy(s, t) == s = NoSpace /\ \E q \in Procs : t = space[q]

\* sbrk(): pages of zeros at the end, or pages taken from the end.
Grow(s, t) == /\ Len(s) < Len(t)
              /\ t = s \o [i \in 1 .. Len(t) - Len(s) |->
                              [user |-> TRUE, write |-> TRUE, bytes |-> Zeros]]
Shrink(s, t) == Len(t) < Len(s) /\ t = SubSeq(s, 1, Len(t))

\* The kernel copies into pages the process may use, and no others.
Write(s, t) == /\ Len(t) = Len(s)
               /\ \A k \in DOMAIN s :
                      /\ t[k] = [s[k] EXCEPT !.bytes = t[k].bytes]
                      /\ \A i \in DOMAIN Zeros :
                             t[k].bytes[i] \in {s[k].bytes[i]} \cup (IF s[k].user THEN {Mark} ELSE {})

\* exec(): the pages give way to a freshly loaded program, which finds the
\* arguments its caller had in memory.
Load(s, t) == \E prog \in Programs :
                 /\ Image(t, prog)
                 /\ \E v \in 0 .. PageSize * Len(s) - 1 :
                        /\ Ends(s, v) # {}
                        /\ \A i \in 0 .. Len(Text(s, v)) - 1 : Ends(s, Byte(s, v + i)) # {}
                        /\ HasArgs(t, ArgsAt(s, v))

Init == \E p \in Procs : \A q \in Procs : (space[q] # NoSpace) = (q = p)

Step(s, t) == IF s = NoSpace THEN Copy(s, t)
              ELSE t = NoSpace \/ Grow(s, t) \/ Shrink(s, t) \/ Write(s, t) \/ Load(s, t)

Next == \E p \in Procs : /\ \A q \in Procs \ {p} : space'[q] = space[q]
                         /\ \E s \in {space[p]}, t \in {space'[p]} : Step(s, t)

Spec == Init /\ [][Next]_space
=============================================================================
