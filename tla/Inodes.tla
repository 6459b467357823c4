------------------------------- MODULE Inodes -------------------------------
(***************************************************************************)
(* The inode table and link counts (Assignment4/source: ialloc, iupdate,   *)
(* iget, ilock, iunlock, iput, dirlookup, dirlink of fs.c; sys_open,       *)
(* create, sys_link, sys_unlink of sysfile.c) for files of one directory.  *)
(*                                                                         *)
(* A process works on one file at a time and keeps it open between two     *)
(* operations if it likes.  The lock of the directory and of each inode    *)
(* are sleep-locks; a section under itable.lock or under one buffer is a   *)
(* single action.  Contents of files are in module FileMap, transactions   *)
(* in module Log.                                                          *)
(***************************************************************************)
EXTENDS Integers, FiniteSets, FiniteSetsExt

CONSTANTS Procs, Names, Inums,
          NINODE     \* entries of itable, enough for one file per process

InodesAssumption ==
    /\ IsFiniteSet(Procs) /\ "none" \notin Procs /\ IsFiniteSet(Names)
    /\ NINODE \in Nat /\ NINODE >= Cardinality(Procs)
    /\ Inums \subseteq (Nat \ {0})

Entries == 1 .. NINODE
None == "none"

VARIABLES inum, ref, valid,
          mem,     \* ip->type and ip->nlink of each entry
          lock,    \* holder of ip->lock
          disk,    \* dip->type and dip->nlink of each inode
          dir,     \* the directory: the inode of each name, 0 for none
          dlock,   \* holder of dp->lock
          pc, op, name,
          fresh,   \* the inode ialloc() marked, 0 for none
          e        \* ip: an entry of the table

vars == <<inum, ref, valid, mem, lock, disk, dir, dlock, pc, op, name, fresh, e>>

Free == [type |-> 0, nlink |-> 0]

Init == /\ inum = [x \in Entries |-> 0]
        /\ ref = [x \in Entries |-> 0]
        /\ valid = [x \in Entries |-> FALSE]
        /\ mem = [x \in Entries |-> Free]
        /\ lock = [x \in Entries |-> None]
        /\ disk = [i \in Inums |-> Free]
        /\ dir = [n \in Names |-> 0]
        /\ dlock = None
        /\ pc = [p \in Procs |-> "idle"]
        /\ op = [p \in Procs |-> "none"]
        /\ name = [p \in Procs |-> None]
        /\ fresh = [p \in Procs |-> 0]
        /\ e = [p \in Procs |-> 1]

Goto(p, l) == pc' = [pc EXCEPT ![p] = l]

-----------------------------------------------------------------------------
(* iget() *)
InTable(i) == {x \in Entries : ref[x] > 0 /\ inum[x] = i}
Empty == {x \in Entries : ref[x] = 0}

Iget(p, i) ==
    LET x == IF InTable(i) # {} THEN Min(InTable(i)) ELSE Min(Empty)
    IN  /\ e' = [e EXCEPT ![p] = x]
        /\ inum' = [inum EXCEPT ![x] = i]
        /\ ref' = [ref EXCEPT ![x] = @ + 1]
        /\ valid' = [valid EXCEPT ![x] = @ /\ InTable(i) # {}]

\* ilock()
Ilock(p) ==
    /\ pc[p] = "ilock" /\ lock[e[p]] = None
    /\ lock' = [lock EXCEPT ![e[p]] = p]
    /\ Goto(p, "load")
    /\ UNCHANGED <<inum, ref, valid, mem, disk, dir, dlock, op, name, fresh, e>>

\* "ilock: no type" is a panic.
Load(p) ==
    LET x == e[p]
    IN  /\ pc[p] = "load"
        /\ mem' = IF valid[x] THEN mem ELSE [mem EXCEPT ![x] = disk[inum[x]]]
        /\ valid' = [valid EXCEPT ![x] = TRUE]
        /\ Goto(p, IF ~valid[x] /\ mem'[x].type = 0 THEN "panic" ELSE op[p])
        /\ UNCHANGED <<inum, ref, lock, disk, dir, dlock, op, name, fresh, e>>

\* A change of the inode in memory, followed by iupdate().
Iupdate(x, m) == /\ mem' = [mem EXCEPT ![x] = m]
                 /\ disk' = [disk EXCEPT ![inum[x]] = m]

Nlink(x, d) == [mem[x] EXCEPT !.nlink = @ + d]

-----------------------------------------------------------------------------
(* sys_open() of an existing name (also create() that finds it), and the    *)
(* namei(old) of sys_link()                                                *)
Lookup(p, n, o) ==
    /\ pc[p] = "idle" /\ dlock = None /\ dir[n] # 0
    /\ Iget(p, dir[n])
    /\ op' = [op EXCEPT ![p] = o]
    /\ name' = [name EXCEPT ![p] = n]
    /\ Goto(p, "ilock")
    /\ UNCHANGED <<mem, lock, disk, dir, dlock, fresh>>

Opened(p) ==
    /\ pc[p] = "open"
    /\ lock' = [lock EXCEPT ![e[p]] = None]
    /\ Goto(p, "opened")
    /\ UNCHANGED <<inum, ref, valid, mem, disk, dir, dlock, op, name, fresh, e>>

Close(p) ==
    /\ pc[p] = "opened"
    /\ Goto(p, "iput")
    /\ UNCHANGED <<inum, ref, valid, mem, lock, disk, dir, dlock, op, name, fresh, e>>

\* The name does not exist: namei() or dirlookup() returns 0.
NotFound(p, n) ==
    /\ pc[p] = "idle" /\ dlock = None /\ dir[n] = 0
    /\ UNCHANGED vars

-----------------------------------------------------------------------------
(* create(): the directory stays locked to the end *)
Ialloc(p, n, i) ==
    /\ pc[p] = "idle" /\ dlock = None /\ dir[n] = 0
    /\ disk[i].type = 0 /\ \A j \in Inums : j < i => disk[j].type # 0
    /\ dlock' = p
    /\ disk' = [disk EXCEPT ![i] = [type |-> 1, nlink |-> 0]]
    /\ op' = [op EXCEPT ![p] = "create"]
    /\ fresh' = [fresh EXCEPT ![p] = i]
    /\ name' = [name EXCEPT ![p] = n]
    /\ Goto(p, "iget")
    /\ UNCHANGED <<inum, ref, valid, mem, lock, dir, e>>

\* "ialloc: no inodes": create() returns 0.
IallocNone(p, n) ==
    /\ pc[p] = "idle" /\ dlock = None /\ dir[n] = 0
    /\ \A i \in Inums : disk[i].type # 0
    /\ UNCHANGED vars

IallocIget(p) ==
    /\ pc[p] = "iget"
    /\ Iget(p, fresh[p])
    /\ fresh' = [fresh EXCEPT ![p] = 0]
    /\ Goto(p, "ilock")
    /\ UNCHANGED <<mem, lock, disk, dir, dlock, op, name>>

CreateCount(p) ==
    /\ pc[p] = "create"
    /\ Iupdate(e[p], [type |-> 1, nlink |-> 1])
    /\ Goto(p, "newlink")
    /\ UNCHANGED <<inum, ref, valid, lock, dir, dlock, op, name, fresh, e>>

CreateLink(p) ==
    /\ pc[p] = "newlink"
    /\ dir' = [dir EXCEPT ![name[p]] = inum[e[p]]]
    /\ dlock' = None
    /\ Goto(p, "open")
    /\ UNCHANGED <<inum, ref, valid, mem, lock, disk, op, name, fresh, e>>

\* dirlink() found no block: the inode is given up.  iput() comes before the
\* directory is unlocked.
CreateFails(p) ==
    /\ pc[p] = "newlink"
    /\ Iupdate(e[p], [type |-> 1, nlink |-> 0])
    /\ lock' = [lock EXCEPT ![e[p]] = None]
    /\ Goto(p, "iput")
    /\ UNCHANGED <<inum, ref, valid, dir, dlock, op, name, fresh, e>>

-----------------------------------------------------------------------------
(* sys_unlink() *)
UnlinkLookup(p, n) ==
    /\ pc[p] = "idle" /\ dlock = None /\ dir[n] # 0
    /\ dlock' = p
    /\ Iget(p, dir[n])
    /\ op' = [op EXCEPT ![p] = "unlink"]
    /\ name' = [name EXCEPT ![p] = n]
    /\ Goto(p, "ilock")
    /\ UNCHANGED <<mem, lock, disk, dir, fresh>>

\* "unlink: nlink < 1" is a panic.
UnlinkErase(p) ==
    /\ pc[p] = "unlink"
    /\ IF mem[e[p]].nlink < 1
       THEN Goto(p, "panic") /\ UNCHANGED <<dir, dlock>>
       ELSE /\ dir' = [dir EXCEPT ![name[p]] = 0]
            /\ dlock' = None
            /\ Goto(p, "uncount")
    /\ UNCHANGED <<inum, ref, valid, mem, lock, disk, op, name, fresh, e>>

\* Also the "bad" path of sys_link().
Uncount(p) ==
    /\ pc[p] = "uncount"
    /\ Iupdate(e[p], Nlink(e[p], -1))
    /\ lock' = [lock EXCEPT ![e[p]] = None]
    /\ Goto(p, "iput")
    /\ UNCHANGED <<inum, ref, valid, dir, dlock, op, name, fresh, e>>

-----------------------------------------------------------------------------
(* sys_link() *)
LinkCount(p) ==
    /\ pc[p] = "link"
    /\ Iupdate(e[p], Nlink(e[p], 1))
    /\ lock' = [lock EXCEPT ![e[p]] = None]
    /\ Goto(p, "dirlink")
    /\ UNCHANGED <<inum, ref, valid, dir, dlock, op, name, fresh, e>>

LinkName(p, n) ==
    /\ pc[p] = "dirlink" /\ dlock = None /\ dir[n] = 0
    /\ dir' = [dir EXCEPT ![n] = inum[e[p]]]
    /\ Goto(p, "iput")
    /\ UNCHANGED <<inum, ref, valid, mem, lock, disk, dlock, op, name, fresh, e>>

\* The name exists, or the directory cannot grow.  The reference dirlookup()
\* takes on the inode of an existing name is dropped again at once; as the
\* name keeps its link count above 0 no iput() can tell.
LinkFails(p) ==
    /\ pc[p] = "dirlink" /\ dlock = None
    /\ op' = [op EXCEPT ![p] = "uncount"]
    /\ Goto(p, "ilock")
    /\ UNCHANGED <<inum, ref, valid, mem, lock, disk, dir, dlock, name, fresh, e>>

-----------------------------------------------------------------------------
(* iput() *)

\* Mutant of LastPut: the other references are forgotten.
LastPutAny(x) == valid[x] /\ mem[x].nlink = 0

LastPut(x) == ref[x] = 1 /\ valid[x] /\ mem[x].nlink = 0

\* The return from the system call ends the lifetime of its locals.
Done(p) == /\ Goto(p, "idle")
           /\ dlock' = IF dlock = p THEN None ELSE dlock
           /\ op' = [op EXCEPT ![p] = "none"]
           /\ name' = [name EXCEPT ![p] = None]
           /\ e' = [e EXCEPT ![p] = 1]

IputLast(p) ==
    /\ pc[p] = "iput" /\ LastPut(e[p]) /\ lock[e[p]] = None
    /\ lock' = [lock EXCEPT ![e[p]] = p]
    /\ Goto(p, "trunc")
    /\ UNCHANGED <<inum, ref, valid, mem, disk, dir, dlock, op, name, fresh, e>>

\* itrunc() (module FileMap), type = 0, iupdate().
IputFree(p) ==
    /\ pc[p] = "trunc"
    /\ Iupdate(e[p], Free)
    /\ Goto(p, "invalidate")
    /\ UNCHANGED <<inum, ref, valid, lock, dir, dlock, op, name, fresh, e>>

\* Mutant of IputInvalidate: the entry stays valid.
IputStillValid(p) ==
    /\ pc[p] = "invalidate"
    /\ lock' = [lock EXCEPT ![e[p]] = None]
    /\ Goto(p, "unref")
    /\ UNCHANGED <<inum, ref, valid, mem, disk, dir, dlock, op, name, fresh, e>>

IputInvalidate(p) ==
    /\ pc[p] = "invalidate"
    /\ valid' = [valid EXCEPT ![e[p]] = FALSE]
    /\ lock' = [lock EXCEPT ![e[p]] = None]
    /\ Goto(p, "unref")
    /\ UNCHANGED <<inum, ref, mem, disk, dir, dlock, op, name, fresh, e>>

IputDrop(p) ==
    /\ \/ pc[p] = "iput" /\ ~LastPut(e[p])
       \/ pc[p] = "unref"
    /\ ref' = [ref EXCEPT ![e[p]] = @ - 1]
    /\ Done(p)
    /\ UNCHANGED <<inum, valid, mem, lock, disk, dir, fresh>>

-----------------------------------------------------------------------------
Next == \E p \in Procs :
          \/ \E n \in Names : \/ \E o \in {"open", "link"} : Lookup(p, n, o)
                              \/ NotFound(p, n) \/ IallocNone(p, n)
                              \/ \E i \in Inums : Ialloc(p, n, i)
                              \/ UnlinkLookup(p, n) \/ LinkName(p, n)
          \/ Ilock(p) \/ Load(p) \/ Opened(p) \/ Close(p)
          \/ IallocIget(p) \/ CreateCount(p) \/ CreateLink(p) \/ CreateFails(p)
          \/ UnlinkErase(p) \/ Uncount(p) \/ LinkCount(p) \/ LinkFails(p)
          \/ IputLast(p) \/ IputFree(p) \/ IputInvalidate(p) \/ IputDrop(p)

Spec == Init /\ [][Next]_vars

-----------------------------------------------------------------------------
(* Properties *)
TypeOK ==
    /\ inum \in [Entries -> Inums \cup {0}]
    /\ valid \in [Entries -> BOOLEAN] /\ lock \in [Entries -> Procs \cup {None}]
    /\ dir \in [Names -> Inums \cup {0}] /\ fresh \in [Procs -> Inums \cup {0}]
    /\ e \in [Procs -> Entries] /\ ref \in [Entries -> Nat] /\ dlock \in Procs \cup {None}
    /\ \A i \in Inums : disk[i].type \in {0, 1} /\ disk[i].nlink \in Nat

Holds(p) == pc[p] \notin {"idle", "iget"}
Users(x) == {p \in Procs : Holds(p) /\ e[p] = x}

Coherent ==
    \A x \in Entries : ref[x] > 0 /\ valid[x] /\ lock[x] = None => mem[x] = disk[inum[x]]

\* "ip->ref == 1 means no other process can have ip locked, so this
\* acquiresleep() won't block (or deadlock)": it would sleep with itable.lock.
IputNeverBlocks ==
    \A p \in Procs : pc[p] = "iput" /\ LastPut(e[p]) => lock[e[p]] = None

\* One entry for each inode in use, with exactly as many references as there
\* are processes that use it, so that the last iput() never blocks; and an
\* unlocked valid entry agrees with the disk, also when its inode was freed and
\* allocated again while a reference was left.
TableExact ==
    /\ Coherent
    /\ IputNeverBlocks
    /\ \A x \in Entries : ref[x] = Cardinality(Users(x))
    /\ \A x, y \in Entries : x # y /\ ref[x] > 0 /\ ref[y] > 0 => inum[x] # inum[y]

\* No "ilock: no type", no "unlink: nlink < 1".
NoPanic == \A p \in Procs : pc[p] # "panic"

\* A file with a name, or open in some process, is not freed, and nobody
\* meets a freed inode behind a reference.
NotFreedInUse ==
    /\ NoPanic
    /\ \A n \in Names : dir[n] # 0 => disk[dir[n]].type # 0
    /\ \A p \in Procs : pc[p] = "opened" => disk[inum[e[p]]].type # 0

Quiet == \A p \in Procs : pc[p] \in {"idle", "opened"}

\* Between operations the link count on disk is the number of names, however
\* link, unlink and create interleave and fail, and no file is freed that has a
\* name or is open.
LinksExact ==
    /\ NotFreedInUse
    /\ Quiet => \A i \in Inums : disk[i].nlink = Cardinality({n \in Names : dir[n] = i})

\* "If that was the last reference and the inode has no links to it, free the
\* inode (and its content) on disk": between operations an inode that is
\* marked allocated has a name or is open somewhere.
NoInodeLost ==
    Quiet => \A i \in Inums : disk[i].type # 0 =>
                 \/ \E n \in Names : dir[n] = i
                 \/ \E p \in Procs : pc[p] = "opened" /\ inum[e[p]] = i
=============================================================================
