-------------------------------- MODULE Heap --------------------------------
(***************************************************************************)
(* malloc() and free() of the user library (Assignment3/initial_code/user/ *)
(* umalloc.c): a circular list of free blocks in order of their addresses. *)
(*                                                                         *)
(* Addresses and sizes count units of sizeof(Header).  The header base is  *)
(* at 0, below the heap that sbrk() extends; 0 is no other header, so a    *)
(* null freep is written Null.  A word that is no header's any more is 0.   *)
(* The program may call sbrk() too.                                        *)
(***************************************************************************)
EXTENDS Integers, FiniteSets, FiniteSetsExt

CONSTANTS Sizes,      \* of the requests, in units, header included
          MINCORE,    \* the least morecore() asks for (4096 in the code)
          Limit,      \* first address sbrk() does not give
          Foreign     \* units the program takes from sbrk() itself

HeapAssumption == Sizes \subseteq Nat \ {0, 1} /\ {MINCORE, Limit, Foreign} \subseteq Nat \ {0}

base == 0
Null == -1
Heap == 1 .. Limit - 1
Addr == {base} \cup Heap

VARIABLES ptr, size,   \* the two words of each header
          freep, brk,
          mine         \* the blocks the program holds: address and size

vars == <<ptr, size, freep, brk, mine>>

Init == /\ ptr = [a \in Addr |-> base] /\ size = [a \in Addr |-> 0]
        /\ freep = Null /\ brk = 1 /\ mine = {}

\* Mutant of Joins: blocks are joined across what lies between them.
JoinsLoose(a, n, b) == a + n =< b /\ a # base

\* The block of n units at a ends where the one at b begins.
Joins(a, n, b) == a + n = b

\* free() of the block of n units at bp, in the list h: where p stops, and the
\* list with the block.
free(h, bp, n) ==
    LET stops(p) == \/ bp > p /\ bp < h.ptr[p]
                    \/ p >= h.ptr[p] /\ (bp > p \/ bp < h.ptr[p])
        walk[p \in Addr] == IF stops(p) THEN p ELSE walk[h.ptr[p]]
        p == walk[h.freep]
        next == h.ptr[p]
        up == Joins(bp, n, next)
        n1 == IF up THEN n + h.size[next] ELSE n
        next1 == IF up THEN h.ptr[next] ELSE next
        down == Joins(p, h.size[p], bp)
        gone == {a \in {next} : up} \cup {a \in {bp} : down}
    IN  [freep |-> p,
         ptr |-> [a \in Addr |-> IF a \in gone THEN base
                                ELSE IF a = p THEN (IF down THEN next1 ELSE bp)
                                ELSE IF a = bp THEN next1 ELSE h.ptr[a]],
         size |-> [a \in Addr |-> IF a \in gone THEN 0
                                 ELSE IF a = p /\ down THEN h.size[p] + n1
                                 ELSE IF a = bp THEN n1 ELSE h.size[a]]]

\* The circular list, created by the first malloc().
List == [freep |-> IF freep = Null THEN base ELSE freep, ptr |-> ptr, size |-> size]

\* The first block that is large enough, searched from the one behind freep;
\* Null when the search has come round to freep.
Search(h, n) ==
    LET walk[prevp \in Addr] ==
          IF h.size[h.ptr[prevp]] >= n THEN prevp
          ELSE IF h.ptr[prevp] = h.freep THEN Null ELSE walk[h.ptr[prevp]]
    IN  walk[h.freep]

\* The block behind prevp, or the end of it, becomes the program's.
Take(h, prevp, n) ==
    LET p == h.ptr[prevp]
        rest == h.size[p] - n
        at == IF rest = 0 THEN p ELSE p + rest
    IN  /\ ptr' = IF rest = 0 THEN [h.ptr EXCEPT ![prevp] = h.ptr[p], ![p] = base] ELSE h.ptr
        /\ size' = [h.size EXCEPT ![p] = rest, ![at] = n]
        /\ freep' = prevp
        /\ mine' = mine \cup {<<at, n>>}

\* malloc(); after morecore() the search goes on behind the list's new freep.
morecore(h, n) == free(h, brk, n)
Malloc(n) ==
    LET found == Search(List, n)
        nu == Max({n, MINCORE})
        grown == morecore(List, nu)
    IN  \/ found # Null /\ Take(List, found, n) /\ UNCHANGED brk
        \/ found = Null /\ brk + nu =< Limit /\ brk' = brk + nu /\ Take(grown, Search(grown, n), n)
        \/ /\ found = Null /\ brk + nu > Limit
           /\ freep' = List.freep
           /\ UNCHANGED <<ptr, size, brk, mine>>

Free(b) ==
    LET h == free(List, b[1], size[b[1]])
    IN  /\ b \in mine
        /\ mine' = mine \ {b}
        /\ ptr' = h.ptr /\ size' = h.size /\ freep' = h.freep
        /\ UNCHANGED brk

\* The program's own use of sbrk().
Sbrk == /\ brk + Foreign =< Limit
        /\ brk' = brk + Foreign
        /\ UNCHANGED <<ptr, size, freep, mine>>

Next == (\E n \in Sizes : Malloc(n)) \/ (\E b \in mine : Free(b)) \/ Sbrk

Spec == Init /\ [][Next]_vars

-----------------------------------------------------------------------------
Units(a, n) == a .. a + n - 1
\* The headers on the list.
OnList ==
    LET walk[n \in 0 .. Cardinality(Addr)] ==
          IF n = 0 THEN {List.freep} ELSE LET w == walk[n - 1] IN w \cup {ptr[a] : a \in w}
    IN  walk[Cardinality(Addr)]

\* Blocks of the program and of the list never overlap, whatever the order of
\* malloc(), free() and sbrk(): each block lies in the heap with its header
\* intact, the list goes once round in order of the addresses with base on it,
\* and two free blocks that meet have been joined.
HeapSound ==
    LET blocks == mine \cup {<<a, size[a]>> : a \in OnList \ {base}}
    IN  /\ \A b \in blocks : b[2] > 0 /\ Units(b[1], b[2]) \subseteq 1 .. brk - 1
        /\ \A b, c \in blocks : b # c => Units(b[1], b[2]) \cap Units(c[1], c[2]) = {}
        /\ \A b \in mine : size[b[1]] = b[2]
        /\ base \in OnList
        /\ Cardinality({a \in OnList : ptr[a] =< a}) = 1
        /\ \A a \in OnList : a = base \/ a + size[a] # ptr[a]
=============================================================================
