------------------------------ MODULE FileMap ------------------------------
(***************************************************************************)
(* The block map of the file system with doubly-indirect blocks            *)
(* (Assignment4/source/fs.c): balloc, bfree, bmap, itrunc, readi, writei.  *)
(*                                                                         *)
(* Files grow and shrink by whole blocks.  Each operation holds ip->lock,  *)
(* so there is at most one per inode; operations on different inodes       *)
(* interleave at every call of balloc().  Their updates reach the disk     *)
(* atomically (module Log).                                                *)
(***************************************************************************)
EXTENDS Integers, FiniteSets, FiniteSetsExt

CONSTANTS Inodes,
          SIZE,        \* sb.size: blocks of the disk; block 0 is the boot block
          NDIRECT,     \* direct addresses of an inode
          NINDIRECT,   \* addresses in an index block
          MaxLen,      \* bound on the length of a file, at most MAXFILE
          MaxN         \* bound on the blocks of one read or write

NDINDIRECT == NINDIRECT * NINDIRECT
MAXFILE == NDIRECT + NINDIRECT + NDINDIRECT

FileMapAssumption ==
    /\ SIZE \in Nat \ {0} /\ NDIRECT \in Nat \ {0} /\ NINDIRECT \in Nat \ {0}
    /\ MaxLen \in 0 .. MAXFILE /\ MaxN \in Nat

BlockNos == 0 .. SIZE - 1
Slots == 0 .. NINDIRECT - 1
Zero == [k \in Slots |-> 0]

VARIABLES used,    \* the free bitmap: blocks marked in use
          words,   \* each block read as an array of block addresses
          tag,     \* the data last written to each block: <<inode, block of it>>
          addrs,   \* ip->addrs
          size,    \* ip->size, in blocks
          op,      \* the operation in progress on each inode
          panicked \* bfree() found a block already free

vars == <<used, words, tag, addrs, size, op, panicked>>

NoTag == <<>>
Idle == [pc |-> "idle", kind |-> "none", off |-> 0, left |-> 0, addr |-> 0]

Init == /\ used = {0}
        /\ words = [b \in BlockNos |-> Zero]
        /\ tag = [b \in BlockNos |-> NoTag]
        /\ addrs = [i \in Inodes |-> [k \in 0 .. NDIRECT + 1 |-> 0]]
        /\ size = [i \in Inodes |-> 0]
        /\ op = [i \in Inodes |-> Idle]
        /\ panicked = FALSE

\* balloc(): the first free block, or 0.  Block 0 is always in use, so that
\* "used \cup {Balloc}" also describes a failed call.
Balloc == LET free == BlockNos \ used IN IF free = {} THEN 0 ELSE Min(free)

\* balloc() zeroes the block it returns.
Bzero(addr) ==
    /\ words' = IF addr \in used THEN words ELSE [words EXCEPT ![addr] = Zero]
    /\ tag' = IF addr \in used THEN tag ELSE [tag EXCEPT ![addr] = NoTag]

Goto(i, pc) == [op EXCEPT ![i].pc = pc]

-----------------------------------------------------------------------------
(* readi(ip, off, n) and writei(ip, off, n) *)
\* Mutant of Limit: readi() does not clip.
LimitUnclipped(i, kind) == MaxLen

\* How far the operation may go: readi() clips n to the size, writei() refuses
\* to pass MAXFILE.
Limit(i, kind) == IF kind = "read" THEN size[i] ELSE MaxLen

Start(i, kind, off, n) ==
    /\ op[i].pc = "idle"
    /\ off =< size[i]
    /\ off + n =< Limit(i, kind)
    /\ op' = [op EXCEPT ![i] = [pc |-> "bmap", kind |-> kind, off |-> off,
                                left |-> n, addr |-> 0]]
    /\ UNCHANGED <<used, words, tag, addrs, size, panicked>>

\* bmap(), first access: the address in the inode.
InodeSlot(bn) == IF bn < NDIRECT THEN bn
                 ELSE IF bn < NDIRECT + NINDIRECT THEN NDIRECT ELSE NDIRECT + 1
AfterInode(bn) == IF bn < NDIRECT THEN "io"
                  ELSE IF bn < NDIRECT + NINDIRECT THEN "indirect" ELSE "double"

Bmap(i) ==
    LET bn   == op[i].off
        k    == InodeSlot(bn)
        addr == IF addrs[i][k] # 0 THEN addrs[i][k] ELSE Balloc
    IN  /\ op[i].pc = "bmap"
        /\ addrs' = [addrs EXCEPT ![i][k] = addr]
        /\ used' = used \cup {addr}
        /\ Bzero(addr)
        /\ op' = [op EXCEPT ![i].addr = addr,
                            ![i].pc = IF addr = 0 THEN "end" ELSE AfterInode(bn)]
        /\ UNCHANGED <<size, panicked>>

\* bmap(), an access to an index block: slot k of block op[i].addr, allocated
\* and zeroed if necessary.
IndexSlot(i, k, next, failed) ==
    LET a    == op[i].addr
        addr == IF words[a][k] # 0 THEN words[a][k] ELSE Balloc
    IN  /\ words' = IF words[a][k] # 0 \/ addr = 0 THEN words
                    ELSE [words EXCEPT ![addr] = Zero, ![a][k] = addr]
        /\ tag' = IF addr \in used THEN tag ELSE [tag EXCEPT ![addr] = NoTag]
        /\ used' = used \cup {addr}
        /\ op' = [op EXCEPT ![i].addr = addr,
                            ![i].pc = IF addr = 0 THEN failed ELSE next]
        /\ UNCHANGED <<addrs, size, panicked>>

BmapIndirect(i) == /\ op[i].pc = "indirect"
                   /\ IndexSlot(i, op[i].off - NDIRECT, "io", "end")

DoubleBn(i) == op[i].off - NDIRECT - NINDIRECT

\* Mutant of BmapDouble: remainder and quotient exchanged.
BmapDoubleSwapped(i) == /\ op[i].pc = "double"
                        /\ IndexSlot(i, DoubleBn(i) % NINDIRECT, "leaf", "leaf")

\* A failed balloc() of the second-level block does not end bmap().
BmapDouble(i) == /\ op[i].pc = "double"
                 /\ IndexSlot(i, DoubleBn(i) \div NINDIRECT, "leaf", "leaf")

BmapLeaf(i) == /\ op[i].pc = "leaf"
               /\ IndexSlot(i, DoubleBn(i) % NINDIRECT, "io", "end")

\* The rest of the loop body: copy the block, which may fail.
CopyBlock(i) ==
    /\ op[i].pc = "io"
    /\ tag' = IF op[i].kind = "write"
              THEN [tag EXCEPT ![op[i].addr] = <<i, op[i].off>>] ELSE tag
    /\ op' = [op EXCEPT ![i].off = @ + 1, ![i].left = @ - 1,
                        ![i].pc = IF op[i].left = 1 THEN "end" ELSE "bmap"]
    /\ UNCHANGED <<used, words, addrs, size, panicked>>

CopyFails(i) ==
    /\ op[i].pc = "io"
    /\ op' = Goto(i, "end")
    /\ UNCHANGED <<used, words, tag, addrs, size, panicked>>

\* After the loop; iupdate().
EndIO(i) ==
    /\ op[i].pc = "end"
    /\ size' = IF op[i].kind = "write" /\ op[i].off > size[i]
               THEN [size EXCEPT ![i] = op[i].off] ELSE size
    /\ op' = [op EXCEPT ![i] = Idle]
    /\ UNCHANGED <<used, words, tag, addrs, panicked>>

-----------------------------------------------------------------------------
(* itrunc() *)
Entries(a) == {words[a][k] : k \in Slots} \ {0}

Bfree(S) == /\ panicked' = ~(S \subseteq used)
            /\ used' = used \ S

TruncDirect(i) ==
    /\ op[i].pc = "idle"
    /\ Bfree({addrs[i][k] : k \in 0 .. NDIRECT - 1} \ {0})
    /\ addrs' = [addrs EXCEPT ![i] = [k \in 0 .. NDIRECT + 1 |->
                                        IF k < NDIRECT THEN 0 ELSE @[k]]]
    /\ op' = [op EXCEPT ![i].pc = "trunc_indirect", ![i].kind = "trunc"]
    /\ UNCHANGED <<words, tag, size>>

\* Mutant of TruncIndirect: the inode keeps the address of the index block.
TruncIndirectStale(i) ==
    LET a == addrs[i][NDIRECT]
    IN  /\ op[i].pc = "trunc_indirect"
        /\ IF a = 0 THEN UNCHANGED <<used, panicked>> ELSE Bfree(Entries(a) \cup {a})
        /\ op' = Goto(i, "trunc_double")
        /\ UNCHANGED <<words, tag, size, addrs>>

TruncIndirect(i) ==
    LET a == addrs[i][NDIRECT]
    IN  /\ op[i].pc = "trunc_indirect"
        /\ IF a = 0 THEN UNCHANGED <<used, panicked>> ELSE Bfree(Entries(a) \cup {a})
        /\ addrs' = [addrs EXCEPT ![i][NDIRECT] = 0]
        /\ op' = Goto(i, "trunc_double")
        /\ UNCHANGED <<words, tag, size>>

\* The index block is read from ip->addrs[NDIRECT], which is 0 by now.
TruncDouble(i) ==
    LET top == addrs[i][NDIRECT + 1]
        a   == addrs[i][NDIRECT]
    IN  /\ op[i].pc = "trunc_double"
        /\ IF top = 0 THEN UNCHANGED <<used, panicked>>
           ELSE Bfree({top} \cup Entries(a) \cup UNION {Entries(c) : c \in Entries(a)})
        /\ addrs' = [addrs EXCEPT ![i][NDIRECT + 1] = 0]
        /\ size' = [size EXCEPT ![i] = 0]
        /\ op' = [op EXCEPT ![i] = Idle]
        /\ UNCHANGED <<words, tag>>

Step(i) == \/ Bmap(i) \/ BmapIndirect(i) \/ BmapDouble(i) \/ BmapLeaf(i)
           \/ CopyBlock(i) \/ CopyFails(i) \/ EndIO(i)
           \/ TruncIndirect(i) \/ TruncDouble(i)

Next == \E i \in Inodes :
          \/ \E off \in 0 .. MAXFILE, n \in 1 .. MaxN, kind \in {"read", "write"} :
               Start(i, kind, off, n)
          \/ TruncDirect(i)
          \/ Step(i)

Spec == Init /\ [][Next]_vars

-----------------------------------------------------------------------------
(* Properties *)

TypeOK ==
    /\ used \in SUBSET BlockNos
    /\ words \in [BlockNos -> [Slots -> BlockNos]]
    /\ addrs \in [Inodes -> [0 .. NDIRECT + 1 -> BlockNos]]
    /\ size \in [Inodes -> 0 .. MaxLen]
    /\ \A i \in Inodes : op[i].addr \in BlockNos /\ op[i].off \in 0 .. MaxLen

\* The places of the map that hold an address, as <<block, slot>> or
\* <<inode, slot>>, followed from the inode by its shape.
InodeRefs(i) == {<<i, k>> : k \in {j \in 0 .. NDIRECT + 1 : addrs[i][j] # 0}}
BlockRefs(a) == {<<a, k>> : k \in {j \in Slots : a # 0 /\ words[a][j] # 0}}
TopRefs(i) == BlockRefs(addrs[i][NDIRECT + 1])
LeafRefs(i) == UNION {BlockRefs(words[r[1]][r[2]]) : r \in TopRefs(i)}
IndexRefs(i) == BlockRefs(addrs[i][NDIRECT]) \cup TopRefs(i) \cup LeafRefs(i)

InodeRef(r) == addrs[r[1]][r[2]]
IndexRef(r) == words[r[1]][r[2]]

Reachable(i) == {InodeRef(r) : r \in InodeRefs(i)} \cup {IndexRef(r) : r \in IndexRefs(i)}

\* bmap() without allocation: the block of the disk that holds block bn.
Lookup(i, bn) ==
    IF bn < NDIRECT THEN addrs[i][bn]
    ELSE IF bn < NDIRECT + NINDIRECT
    THEN words[addrs[i][NDIRECT]][bn - NDIRECT]
    ELSE LET k == bn - NDIRECT - NINDIRECT
         IN  words[words[addrs[i][NDIRECT + 1]][k \div NINDIRECT]][k % NINDIRECT]

Truncating(i) == op[i].kind = "trunc"

\* No block belongs to two places: every address in the map is the only one
\* with its value, marked in use, and never the boot block.
OneOwner ==
    /\ \A i \in Inodes :
         /\ Reachable(i) \subseteq used \ {0}
         /\ Cardinality(Reachable(i)) = Cardinality(InodeRefs(i)) + Cardinality(IndexRefs(i))
    /\ \A i, j \in Inodes : i # j => Reachable(i) \cap Reachable(j) = {}

\* Every block below the size of a file holds what was last written to it
\* through that file: no write through another file reached it.
ReadsBack ==
    \A i \in Inodes : ~Truncating(i) =>
        \A bn \in 0 .. size[i] - 1 : tag[Lookup(i, bn)] = <<i, bn>>

\* itrunc() "discards contents": a block in use belongs to a file.
NoLeak == used = {0} \cup UNION {Reachable(i) : i \in Inodes}

\* bfree() never finds the block already free.
NoPanic == ~panicked

\* The boot block is never given a block address.
BootBlockClean == words[0] = Zero

\* readi() runs outside a transaction, so its bmap() must never allocate.
ReadsAllocateNothing ==
    [][\A i \in Inodes : op[i].kind = "read" /\ op'[i] # op[i] => UNCHANGED <<used, words>>]_vars
=============================================================================
