---------------------------- MODULE InodesProofs ----------------------------
(***************************************************************************)
(* For every number of processes, names and inodes: the table of inodes is *)
(* exact and agrees with the disk, and link counts are the numbers of      *)
(* names.                                                                  *)
(*                                                                         *)
(* The inductive invariant has two layers.  Table says who holds which     *)
(* entry and which lock, whatever the entries contain.  Content says what  *)
(* entries, inodes and directory tell of each other while calls are        *)
(* halfway: which counts are one ahead of the names, which inode belongs   *)
(* to a create() under way, and that an inode without a type is met only   *)
(* by an iput() that has just freed it.                                    *)
(***************************************************************************)
EXTENDS Inodes, NumberFacts, FiniteSetTheorems, TLAPS

\* Where a process can be, where it holds the lock of its entry, and where it
\* is past the end of ilock().
Labels == {"idle", "iget", "ilock", "load", "open", "opened", "create", "newlink", "unlink",
           "uncount", "link", "dirlink", "iput", "trunc", "invalidate", "unref", "panic"}
Locking == {"load", "open", "create", "newlink", "unlink", "uncount", "link", "trunc",
            "invalidate", "panic"}
Loaded == Locking \ {"load", "panic"}
Record == [type : {0, 1}, nlink : Int]

Types ==
    /\ inum \in [Entries -> Inums \cup {0}] /\ ref \in [Entries -> Nat]
    /\ valid \in [Entries -> BOOLEAN] /\ mem \in [Entries -> Record]
    /\ lock \in [Entries -> Procs \cup {None}]
    /\ disk \in [Inums -> Record] /\ dir \in [Names -> Inums \cup {0}]
    /\ dlock \in Procs \cup {None}
    /\ pc \in [Procs -> Labels]
    /\ op \in [Procs -> {"none", "open", "link", "create", "unlink", "uncount"}]
    /\ name \in [Procs -> Names \cup {None}]
    /\ fresh \in [Procs -> Inums \cup {0}] /\ e \in [Procs -> Entries]

\* The place in a call tells the call.
Calls == \A p \in Procs :
    /\ pc[p] = "iget" => op[p] = "create" /\ fresh[p] \in Inums
    /\ pc[p] \in {"ilock", "load"} => op[p] # "none"
    /\ pc[p] \in {"create", "newlink"} => op[p] = "create"
    /\ pc[p] = "open" => op[p] \in {"create", "open"}
    /\ pc[p] = "unlink" => op[p] = "unlink"
    /\ pc[p] \in {"link", "dirlink"} => op[p] = "link"
    /\ pc[p] = "uncount" => op[p] \in {"unlink", "uncount"}
    /\ op[p] \in {"create", "unlink"} => name[p] \in Names

\* A reference for each user, an entry for each inode in use, and a lock for
\* each process that is between ilock() and iunlock().
Refs == \A x \in Entries : ref[x] = Cardinality(Users(x))
Unique == /\ \A x \in Entries : ref[x] > 0 => inum[x] \in Inums
          /\ \A x, y \in Entries : x # y /\ ref[x] > 0 /\ ref[y] > 0 => inum[x] # inum[y]
Locks == \A x \in Entries, p \in Procs : lock[x] = p <=> (pc[p] \in Locking /\ e[p] = x)

\* create() keeps the directory locked until it has linked the new inode, and
\* sys_unlink() until it has erased the name.
MakesName(p) == \/ pc[p] = "iget"
                \/ op[p] = "create" /\ pc[p] \in {"ilock", "load", "create", "newlink"}
TakesName(p) == op[p] = "unlink" /\ pc[p] \in {"ilock", "load", "unlink"}
DirLock == \A p \in Procs : MakesName(p) \/ TakesName(p) => dlock = p

Table == Types /\ Calls /\ Refs /\ Unique /\ Locks /\ DirLock

\* A process that has a reference to the inode; one that has freed it and not
\* given up the reference; one that creates it.
At(p, i) == Holds(p) /\ inum[e[p]] = i
Gone(p) == pc[p] \in {"invalidate", "unref"}
Creating(p, i) == MakesName(p) /\ i = IF pc[p] = "iget" THEN fresh[p] ELSE inum[e[p]]
Named(i) == {n \in Names : dir[n] = i}
\* The count of the inode is one more than the names: the name is still to be
\* written, or the count still to be taken back.
Owes(p) == \/ pc[p] \in {"newlink", "dirlink", "uncount"}
           \/ pc[p] \in {"ilock", "load"} /\ op[p] = "uncount"
Owing(i) == {p \in Procs : Owes(p) /\ inum[e[p]] = i}

\* A valid entry agrees with the disk, except while an iput() that has freed
\* the inode has not invalidated it.
Cached == \A x \in Entries :
    ref[x] > 0 /\ valid[x] /\ (\A p \in Users(x) : pc[p] # "invalidate")
        => mem[x] = disk[inum[x]] /\ disk[inum[x]].type = 1
Valid == \A p \in Procs : pc[p] \in Loaded => valid[e[p]]
\* An inode without a type has no name, is not being created, and only an
\* iput() that freed it still refers to it.
Alive == \A i \in Inums : disk[i].type = 0 =>
    /\ disk[i] = Free /\ \A n \in Names : dir[n] # i
    /\ \A p \in Procs : (At(p, i) => Gone(p)) /\ ~Creating(p, i)
\* The link count of LinksExact, also while calls are halfway.
Counts == \A i \in Inums : disk[i].nlink = Cardinality(Named(i)) + Cardinality(Owing(i))
\* Nobody else knows the inode that create() makes, and the name stays free.
New == \A p \in Procs : \A i \in Inums : Creating(p, i) =>
    /\ disk[i] = [type |-> 1, nlink |-> IF pc[p] = "newlink" THEN 1 ELSE 0]
    /\ dir[name[p]] = 0
    /\ \A q \in Procs : q # p /\ At(q, i) => Gone(q)
\* iput() truncates with the only reference, and unlink() erases the name of
\* the inode it has locked.
Last == \A p \in Procs : pc[p] = "trunc" => ref[e[p]] = 1 /\ mem[e[p]].nlink = 0
Taken == \A p \in Procs : TakesName(p) => dir[name[p]] = inum[e[p]]

Content == NoPanic /\ Cached /\ Valid /\ Alive /\ Counts /\ New /\ Last /\ Taken

Inv == Table /\ Content

-----------------------------------------------------------------------------
\* Min() of a non-empty set of naturals is one of them.
LEMMA Smallest ==
    ASSUME NEW S \in SUBSET Nat, S # {}, IsFiniteSet(S)
    PROVE  Min(S) \in S
  BY Least DEF Min

LEMMA SetOfUsers ==
    ASSUME InodesAssumption, NEW x
    PROVE  IsFiniteSet(Users(x)) /\ Cardinality(Users(x)) \in Nat
<1>1. Users(x) \in SUBSET Procs
  BY DEF Users
<1> QED
  BY <1>1, FS_Subset, FS_CardinalityType DEF InodesAssumption

LEMMA UsedEntry ==
    ASSUME InodesAssumption, Types, Refs
    PROVE  /\ \A x \in Entries : ref[x] > 0 <=> Users(x) # {}
           /\ \A p \in Procs : Holds(p) => ref[e[p]] > 0
<1>1. \A x \in Entries : ref[x] > 0 <=> Users(x) # {}
  <2> SUFFICES ASSUME NEW x \in Entries
               PROVE  ref[x] > 0 <=> Users(x) # {}
    OBVIOUS
  <2>1. IsFiniteSet(Users(x)) /\ Cardinality(Users(x)) \in Nat
    BY SetOfUsers
  <2>2. Cardinality(Users(x)) = 0 <=> Users(x) = {}
    BY <2>1, FS_EmptySet
  <2> QED
    BY <2>1, <2>2 DEF Refs
<1>2. \A p \in Procs : Holds(p) => e[p] \in Entries /\ p \in Users(e[p])
  BY DEF Types, Users
<1> QED
  BY <1>1, <1>2

\* A process that holds no entry finds one: the others cannot use all of them.
LEMMA RoomInTable ==
    ASSUME InodesAssumption, Types, Refs, NEW p \in Procs, ~Holds(p)
    PROVE  Empty # {}
<1> SUFFICES ASSUME Empty = {}
             PROVE  FALSE
  OBVIOUS
<1> DEFINE H == {q \in Procs : Holds(q)}
           f == [q \in H |-> e[q]]
<1>1. H \in SUBSET (Procs \ {p})
  OBVIOUS
<1>2. IsFiniteSet(Procs \ {p}) /\ Cardinality(Procs \ {p}) = Cardinality(Procs) - 1
  BY FS_RemoveElement DEF InodesAssumption
<1>3. IsFiniteSet(H) /\ Cardinality(H) =< Cardinality(Procs) - 1
  BY <1>1, <1>2, FS_Subset
<1>4. f \in Surjection(H, Entries)
  <2>1. f \in [H -> Entries]
    BY DEF Types
  <2>2. \A x \in Entries : \E q \in H : f[q] = x
    <3> SUFFICES ASSUME NEW x \in Entries
                 PROVE  \E q \in H : f[q] = x
      OBVIOUS
    <3>1. ref[x] \in Nat /\ ref[x] # 0
      BY DEF Empty, Types
    <3>2. Users(x) # {}
      BY <3>1, UsedEntry
    <3> QED
      BY <3>2 DEF Users
  <2> QED
    BY <2>1, <2>2 DEF Surjection
<1>5. Cardinality(Entries) =< Cardinality(H)
  BY <1>3, <1>4, FS_Surjection
<1>6. Cardinality(Entries) = NINODE
  <2>1. 1 \in Int /\ NINODE \in Int /\ NINODE \in Nat
    BY DEF InodesAssumption
  <2>2. Cardinality(1 .. NINODE) = IF 1 > NINODE THEN 0 ELSE NINODE - 1 + 1
    BY <2>1, FS_Interval
  <2> QED
    BY <2>1, <2>2 DEF Entries
<1>7. Cardinality(Procs) \in Nat /\ Cardinality(H) \in Nat
  BY <1>3, FS_CardinalityType DEF InodesAssumption
<1> QED
  BY <1>3, <1>5, <1>6, <1>7 DEF InodesAssumption

\* iget() takes the entry of the inode or an unused one.
Got(p, i, x) ==
    /\ e' = [e EXCEPT ![p] = x]
    /\ ref' = [ref EXCEPT ![x] = @ + 1]
    /\ \/ ref[x] > 0 /\ inum[x] = i /\ inum' = inum /\ valid' = valid
       \/ /\ ref[x] = 0 /\ InTable(i) = {}
          /\ inum' = [inum EXCEPT ![x] = i] /\ valid' = [valid EXCEPT ![x] = FALSE]

LEMMA IgetEntry ==
    ASSUME InodesAssumption, Types, Refs, NEW p \in Procs, ~Holds(p), NEW i, Iget(p, i)
    PROVE  \E x \in Entries : Got(p, i, x)
<1>1. IsFiniteSet(Entries) /\ Entries \subseteq Nat
  <2>1. 1 \in Int /\ NINODE \in Int
    BY DEF InodesAssumption
  <2> QED
    BY <2>1, FS_Interval DEF Entries, InodesAssumption
<1>2. Empty # {}
  BY RoomInTable
<1>3. InTable(i) \in SUBSET Entries /\ Empty \in SUBSET Entries
  BY DEF InTable, Empty
<1>4. Min(Empty) \in Empty /\ (InTable(i) # {} => Min(InTable(i)) \in InTable(i))
  <2>1. /\ IsFiniteSet(Empty) /\ Empty \in SUBSET Nat
        /\ IsFiniteSet(InTable(i)) /\ InTable(i) \in SUBSET Nat
    BY <1>1, <1>3, FS_Subset
  <2> QED
    BY <1>2, <2>1, Smallest
<1>5. CASE InTable(i) # {}
  <2>1. PICK x \in InTable(i) : x = Min(InTable(i))
    BY <1>4, <1>5
  <2>2. x \in Entries /\ ref[x] > 0 /\ inum[x] = i
    BY DEF InTable
  <2>3. /\ e' = [e EXCEPT ![p] = x]
        /\ inum' = [inum EXCEPT ![x] = i]
        /\ ref' = [ref EXCEPT ![x] = @ + 1]
        /\ valid' = [valid EXCEPT ![x] = @ /\ TRUE]
    BY <1>5, <2>1 DEF Iget
  <2>4. inum' = inum /\ valid' = valid
    BY <2>2, <2>3 DEF Types
  <2> QED
    BY <2>2, <2>3, <2>4 DEF Got
<1>6. CASE InTable(i) = {}
  <2>1. PICK x \in Empty : x = Min(Empty)
    BY <1>4
  <2>2. x \in Entries /\ ref[x] = 0
    BY DEF Empty
  <2>3. /\ e' = [e EXCEPT ![p] = x]
        /\ inum' = [inum EXCEPT ![x] = i]
        /\ ref' = [ref EXCEPT ![x] = @ + 1]
        /\ valid' = [valid EXCEPT ![x] = @ /\ FALSE]
    BY <1>6, <2>1 DEF Iget
  <2>4. valid' = [valid EXCEPT ![x] = FALSE]
    BY <2>2, <2>3 DEF Types
  <2> QED
    BY <1>6, <2>2, <2>3, <2>4 DEF Got
<1> QED
  BY <1>5, <1>6

-----------------------------------------------------------------------------
(* The table *)

LEMMA TableInit ==
    ASSUME InodesAssumption, Init
    PROVE  Table
<1>0. \A p \in Procs : 1 \in Entries
  <2>1. Procs # {} => Cardinality(Procs) # 0 /\ Cardinality(Procs) \in Nat
    BY FS_EmptySet, FS_CardinalityType DEF InodesAssumption
  <2> QED
    BY <2>1 DEF Entries, InodesAssumption
<1>1. Types /\ Calls /\ DirLock /\ Unique
  BY <1>0 DEF Init, Types, Calls, DirLock, MakesName, TakesName, Unique, Labels, Record, Free
<1>2. Locks
  BY DEF Init, Locks, Locking, InodesAssumption, None
<1>3. Refs
  <2>1. \A x \in Entries : Users(x) = {}
    BY DEF Init, Users, Holds
  <2> QED
    BY <2>1, FS_EmptySet DEF Init, Refs
<1> QED
  BY <1>1, <1>2, <1>3 DEF Table

\* The steps that take and drop no reference.
Stays(p) == \/ Ilock(p) \/ Load(p) \/ Opened(p) \/ Close(p) \/ CreateCount(p) \/ CreateLink(p)
            \/ CreateFails(p) \/ UnlinkErase(p) \/ Uncount(p) \/ LinkCount(p)
            \/ (\E n \in Names : LinkName(p, n)) \/ LinkFails(p) \/ IputLast(p) \/ IputFree(p)
            \/ IputInvalidate(p)

LEMMA StaysFrame ==
    ASSUME Types, Calls, NEW p \in Procs, Stays(p)
    PROVE  /\ UNCHANGED <<e, ref, inum, name, fresh>>
           /\ \E l \in Labels \ {"idle", "iget"} : pc' = [pc EXCEPT ![p] = l]
           /\ Holds(p)
<1>1. UNCHANGED <<e, ref, inum, name, fresh>> /\ Holds(p)
  BY DEF Stays, Ilock, Load, Opened, Close, CreateCount, CreateLink, CreateFails, UnlinkErase,
         Uncount, LinkCount, LinkName, LinkFails, IputLast, IputFree, IputInvalidate, Holds
<1>2. \E l \in Labels \ {"idle", "iget"} : pc' = [pc EXCEPT ![p] = l]
  <2>1. CASE Load(p)
    <3>1. op[p] \in Labels \ {"idle", "iget"}
      BY <2>1 DEF Load, Types, Calls, Labels
    <3> QED
      BY <2>1, <3>1 DEF Load, Goto, Labels
  <2>2. CASE UnlinkErase(p)
    BY <2>2 DEF UnlinkErase, Goto, Labels
  <2> QED
    BY <2>1, <2>2 DEF Stays, Ilock, Opened, Close, CreateCount, CreateLink, CreateFails,
         Uncount, LinkCount, LinkName, LinkFails, IputLast, IputFree, IputInvalidate, Goto, Labels
<1> QED
  BY <1>1, <1>2

LEMMA StaysUsers ==
    ASSUME Types, Calls, Refs, Unique, NEW p \in Procs, Stays(p)
    PROVE  /\ \A q \in Procs : Holds(q)' <=> Holds(q)
           /\ \A x : Users(x)' = Users(x)
           /\ Refs' /\ Unique'
<1>1. /\ UNCHANGED <<e, ref, inum>> /\ Holds(p)
      /\ \E l \in Labels \ {"idle", "iget"} : pc' = [pc EXCEPT ![p] = l]
  BY StaysFrame
<1>2. \A q \in Procs : Holds(q)' <=> Holds(q)
  BY <1>1 DEF Holds, Types
<1>3. \A x : Users(x)' = Users(x)
  BY <1>1, <1>2 DEF Users
<1> QED
  BY <1>1, <1>2, <1>3 DEF Refs, Unique

LEMMA StaysTypes ==
    ASSUME InodesAssumption, Types, Calls, Refs, Unique, NEW p \in Procs, Stays(p)
    PROVE  Types'
<1>1. UNCHANGED <<e, ref, inum, name, fresh>> /\ pc' \in [Procs -> Labels]
  BY StaysFrame DEF Types
<1>2. mem' \in [Entries -> Record] /\ disk' \in [Inums -> Record]
  <2>1. \A x \in Entries : mem[x] \in Record /\ Nlink(x, 1) \in Record /\ Nlink(x, -1) \in Record
    BY DEF Types, Nlink, Record
  <2>2. e[p] \in Entries /\ inum[e[p]] \in Inums
    BY StaysFrame, UsedEntry DEF Types, Unique
  <2>3. \A m \in Record :
            Iupdate(e[p], m) => mem' \in [Entries -> Record] /\ disk' \in [Inums -> Record]
    BY <2>2 DEF Types, Iupdate
  <2>4. Free \in Record /\ [type |-> 1, nlink |-> 1] \in Record /\ [type |-> 1, nlink |-> 0] \in Record
    BY DEF Free, Record
  <2>5. CASE Load(p)
    BY <2>2, <2>5 DEF Load, Types
  <2> QED
    BY <2>1, <2>2, <2>3, <2>4, <2>5 DEF Types, Stays, Ilock, Opened, Close, CreateCount,
       CreateLink, CreateFails, UnlinkErase,
         Uncount, LinkCount, LinkName, LinkFails, IputLast, IputFree, IputInvalidate
<1>3. valid' \in [Entries -> BOOLEAN] /\ lock' \in [Entries -> Procs \cup {None}]
  BY DEF Types, Stays, Ilock, Load, Opened, Close, CreateCount, CreateLink, CreateFails,
     UnlinkErase,
         Uncount, LinkCount, LinkName, LinkFails, IputLast, IputFree, IputInvalidate
<1>4. dir' \in [Names -> Inums \cup {0}] /\ dlock' \in Procs \cup {None}
  BY DEF Types, Stays, Ilock, Load, Opened, Close, CreateCount, CreateLink, CreateFails,
     UnlinkErase,
         Uncount, LinkCount, LinkName, LinkFails, IputLast, IputFree, IputInvalidate
<1>5. op' \in [Procs -> {"none", "open", "link", "create", "unlink", "uncount"}]
  BY DEF Types, Stays, Ilock, Load, Opened, Close, CreateCount, CreateLink, CreateFails,
     UnlinkErase,
         Uncount, LinkCount, LinkName, LinkFails, IputLast, IputFree, IputInvalidate
<1> QED
  BY <1>1, <1>2, <1>3, <1>4, <1>5 DEF Types

LEMMA StaysCalls ==
    ASSUME InodesAssumption, Types, Calls, NEW p \in Procs, Stays(p)
    PROVE  Calls'
<1> UNCHANGED <<e, ref, inum, name, fresh>>
  BY StaysFrame
<1> USE DEF Calls, Goto, Types
<1>1. ASSUME Ilock(p) PROVE Calls'
  BY <1>1 DEF Ilock
<1>2. ASSUME Load(p) PROVE Calls'
  BY <1>2 DEF Load
<1>3. ASSUME Opened(p) \/ Close(p) \/ CreateCount(p) \/ CreateLink(p) \/ CreateFails(p) PROVE Calls'
  BY <1>3 DEF Opened, Close, CreateCount, CreateLink, CreateFails
<1>4. ASSUME UnlinkErase(p) \/ Uncount(p) \/ LinkCount(p) PROVE Calls'
  BY <1>4 DEF UnlinkErase, Uncount, LinkCount
<1>5. ASSUME NEW n \in Names, LinkName(p, n) PROVE Calls'
  BY <1>5 DEF LinkName
<1>6. ASSUME LinkFails(p) PROVE Calls'
  BY <1>6 DEF LinkFails
<1>7. ASSUME IputLast(p) \/ IputFree(p) \/ IputInvalidate(p) PROVE Calls'
  BY <1>7 DEF IputLast, IputFree, IputInvalidate
<1> QED
  BY <1>1, <1>2, <1>3, <1>4, <1>5, <1>6, <1>7 DEF Stays

LEMMA StaysLocks ==
    ASSUME InodesAssumption, Types, Calls, Locks, NEW p \in Procs, Stays(p)
    PROVE  Locks'
<1> e' = e
  BY StaysFrame
<1> None \notin Procs
  BY DEF InodesAssumption, None
<1> USE DEF Locks, Goto, Types, Locking
<1>1. ASSUME Ilock(p) PROVE Locks'
  BY <1>1 DEF Ilock
<1>2. ASSUME Load(p) PROVE Locks'
  BY <1>2 DEF Load, Calls
<1>3. ASSUME Opened(p) PROVE Locks'
  BY <1>3 DEF Opened
<1>4. ASSUME Close(p) PROVE Locks'
  BY <1>4 DEF Close
<1>5. ASSUME CreateCount(p) \/ CreateLink(p) PROVE Locks'
  BY <1>5 DEF CreateCount, CreateLink
<1>6. ASSUME CreateFails(p) PROVE Locks'
  BY <1>6 DEF CreateFails
<1>7. ASSUME UnlinkErase(p) PROVE Locks'
  BY <1>7 DEF UnlinkErase
<1>8. ASSUME Uncount(p) PROVE Locks'
  BY <1>8 DEF Uncount
<1>9. ASSUME LinkCount(p) PROVE Locks'
  BY <1>9 DEF LinkCount
<1>10. ASSUME NEW n \in Names, LinkName(p, n) PROVE Locks'
  BY <1>10 DEF LinkName
<1>11. ASSUME LinkFails(p) PROVE Locks'
  BY <1>11 DEF LinkFails
<1>12. ASSUME IputLast(p) PROVE Locks'
  BY <1>12 DEF IputLast
<1>13. ASSUME IputFree(p) PROVE Locks'
  BY <1>13 DEF IputFree
<1>14. ASSUME IputInvalidate(p) PROVE Locks'
  BY <1>14 DEF IputInvalidate
<1> QED
  BY <1>1, <1>2, <1>3, <1>4, <1>5, <1>6, <1>7, <1>8, <1>9, <1>10, <1>11, <1>12, <1>13,
     <1>14 DEF Stays

LEMMA StaysDirLock ==
    ASSUME InodesAssumption, Types, Calls, DirLock, NEW p \in Procs, Stays(p)
    PROVE  DirLock'
<1> None \notin Procs
  BY DEF InodesAssumption, None
<1> USE DEF DirLock, MakesName, TakesName, Goto, Types, Calls
<1>1. ASSUME Ilock(p) PROVE DirLock'
  BY <1>1 DEF Ilock
<1>2. ASSUME Load(p) PROVE DirLock'
  BY <1>2 DEF Load
<1>3. ASSUME Opened(p) \/ Close(p) PROVE DirLock'
  BY <1>3 DEF Opened, Close
<1>4. ASSUME CreateCount(p) \/ CreateFails(p) PROVE DirLock'
  BY <1>4 DEF CreateCount, CreateFails
<1>5. ASSUME CreateLink(p) PROVE DirLock'
  BY <1>5 DEF CreateLink
<1>6. ASSUME UnlinkErase(p) PROVE DirLock'
  BY <1>6 DEF UnlinkErase
<1>7. ASSUME Uncount(p) \/ LinkCount(p) PROVE DirLock'
  BY <1>7 DEF Uncount, LinkCount
<1>8. ASSUME NEW n \in Names, LinkName(p, n) PROVE DirLock'
  BY <1>8 DEF LinkName
<1>9. ASSUME LinkFails(p) PROVE DirLock'
  BY <1>9 DEF LinkFails
<1>10. ASSUME IputLast(p) \/ IputFree(p) \/ IputInvalidate(p) PROVE DirLock'
  BY <1>10 DEF IputLast, IputFree, IputInvalidate
<1> QED
  BY <1>1, <1>2, <1>3, <1>4, <1>5, <1>6, <1>7, <1>8, <1>9, <1>10 DEF Stays

\* The steps that take a reference.
Gets(p, i, x) ==
    /\ Got(p, i, x)
    /\ pc' = [pc EXCEPT ![p] = "ilock"]
    /\ UNCHANGED <<mem, lock, disk, dir>>
    /\ \/ \E n \in Names, o \in {"open", "link"} :
             /\ pc[p] = "idle" /\ dlock = None /\ dir[n] = i
             /\ op' = [op EXCEPT ![p] = o] /\ name' = [name EXCEPT ![p] = n]
             /\ UNCHANGED <<dlock, fresh>>
       \/ \E n \in Names :
             /\ pc[p] = "idle" /\ dlock = None /\ dir[n] = i
             /\ op' = [op EXCEPT ![p] = "unlink"] /\ name' = [name EXCEPT ![p] = n]
             /\ dlock' = p /\ UNCHANGED fresh
       \/ /\ pc[p] = "iget" /\ fresh[p] = i
          /\ fresh' = [fresh EXCEPT ![p] = 0] /\ UNCHANGED <<dlock, op, name>>

LEMMA GetsStep ==
    ASSUME InodesAssumption, Types, Calls, Refs, NEW p \in Procs,
           \/ \E n \in Names, o \in {"open", "link"} : Lookup(p, n, o)
           \/ \E n \in Names : UnlinkLookup(p, n)
           \/ IallocIget(p)
    PROVE  \E i \in Inums, x \in Entries : Gets(p, i, x)
<1>1. ASSUME NEW n \in Names, NEW o \in {"open", "link"}, Lookup(p, n, o)
      PROVE  \E i \in Inums, x \in Entries : Gets(p, i, x)
  <2>1. ~Holds(p) /\ dir[n] \in Inums
    BY <1>1 DEF Lookup, Holds, Types
  <2>2. PICK x \in Entries : Got(p, dir[n], x)
    BY <1>1, <2>1, IgetEntry DEF Lookup
  <2>3. Gets(p, dir[n], x)
    BY <1>1, <2>2 DEF Gets, Lookup, Goto
  <2> QED
    BY <2>1, <2>3
<1>2. ASSUME NEW n \in Names, UnlinkLookup(p, n)
      PROVE  \E i \in Inums, x \in Entries : Gets(p, i, x)
  <2>1. ~Holds(p) /\ dir[n] \in Inums
    BY <1>2 DEF UnlinkLookup, Holds, Types
  <2>2. PICK x \in Entries : Got(p, dir[n], x)
    BY <1>2, <2>1, IgetEntry DEF UnlinkLookup
  <2>3. Gets(p, dir[n], x)
    BY <1>2, <2>2 DEF Gets, UnlinkLookup, Goto
  <2> QED
    BY <2>1, <2>3
<1>3. ASSUME IallocIget(p)
      PROVE  \E i \in Inums, x \in Entries : Gets(p, i, x)
  <2>1. ~Holds(p) /\ fresh[p] \in Inums
    BY <1>3 DEF IallocIget, Holds, Types, Calls
  <2>2. PICK x \in Entries : Got(p, fresh[p], x)
    BY <1>3, <2>1, IgetEntry DEF IallocIget
  <2>3. Gets(p, fresh[p], x)
    BY <1>3, <2>2 DEF Gets, IallocIget, Goto
  <2> QED
    BY <2>1, <2>3
<1> QED
  BY <1>1, <1>2, <1>3

LEMMA GetsUsers ==
    ASSUME InodesAssumption, Types, NEW p \in Procs, NEW i \in Inums, NEW x \in Entries, Gets(p, i, x)
    PROVE  /\ ~Holds(p) /\ Holds(p)' /\ \A q \in Procs \ {p} : Holds(q)' <=> Holds(q)
           /\ p \notin Users(x) /\ Users(x)' = Users(x) \cup {p}
           /\ \A y \in Entries \ {x} : Users(y)' = Users(y)
<1>1. /\ pc[p] \in {"idle", "iget"} /\ pc' = [pc EXCEPT ![p] = "ilock"]
      /\ e' = [e EXCEPT ![p] = x]
  BY DEF Gets, Got
<1>2. ~Holds(p) /\ Holds(p)' /\ \A q \in Procs \ {p} : Holds(q)' <=> Holds(q)
  BY <1>1 DEF Holds, Types
<1>3. p \notin Users(x)
  BY <1>2 DEF Users
<1>4. \A q \in Procs, y \in Entries : q \in Users(y)' <=> IF q = p THEN y = x ELSE q \in Users(y)
  BY <1>1, <1>2 DEF Users, Types
<1>5. \A y : Users(y)' \subseteq Procs /\ Users(y) \subseteq Procs
  BY DEF Users
<1>6. Users(x)' = Users(x) \cup {p}
  BY <1>4, <1>5
<1>7. \A y \in Entries \ {x} : Users(y)' = Users(y)
  BY <1>2, <1>4, <1>5 DEF Users
<1> QED
  BY <1>2, <1>3, <1>6, <1>7

LEMMA GetsTable ==
    ASSUME InodesAssumption, Table, NEW p \in Procs, NEW i \in Inums, NEW x \in Entries, Gets(p, i, x)
    PROVE  Table'
<1> USE DEF Table
<1> None \notin Procs
  BY DEF InodesAssumption, None
<1>1. Types'
  <2>1. /\ e' \in [Procs -> Entries] /\ inum' \in [Entries -> Inums \cup {0}]
        /\ ref' \in [Entries -> Nat] /\ valid' \in [Entries -> BOOLEAN]
    <3>1. e' \in [Procs -> Entries] /\ ref' \in [Entries -> Nat]
      BY DEF Types, Gets, Got
    <3>2. inum' \in [Entries -> Inums \cup {0}]
      BY DEF Types, Gets, Got
    <3>3. valid' \in [Entries -> BOOLEAN]
      BY DEF Types, Gets, Got
    <3> QED
      BY <3>1, <3>2, <3>3
  <2>2. pc' \in [Procs -> Labels] /\ dlock' \in Procs \cup {None}
    BY DEF Types, Gets, Labels
  <2>3. /\ op' \in [Procs -> {"none", "open", "link", "create", "unlink", "uncount"}]
        /\ name' \in [Procs -> Names \cup {None}]
        /\ fresh' \in [Procs -> Inums \cup {0}]
    BY DEF Types, Gets
  <2>4. UNCHANGED <<mem, lock, disk, dir>>
    BY DEF Gets
  <2> QED
    BY <2>1, <2>2, <2>3, <2>4 DEF Types
<1>2. Calls'
  BY DEF Calls, Types, Gets
<1>3. Refs'
  <2>1. /\ p \notin Users(x) /\ Users(x)' = Users(x) \cup {p}
        /\ \A y \in Entries \ {x} : Users(y)' = Users(y)
    BY GetsUsers
  <2>2. IsFiniteSet(Users(x)) /\ Cardinality(Users(x)) \in Nat
    BY SetOfUsers
  <2>3. Cardinality(Users(x) \cup {p}) = Cardinality(Users(x)) + 1
    BY <2>1, <2>2, FS_AddElement
  <2>4. ref' = [ref EXCEPT ![x] = @ + 1]
    BY DEF Gets, Got
  <2> QED
    BY <2>1, <2>3, <2>4 DEF Refs, Types
<1>4. Unique'
  BY DEF Unique, Types, Gets, Got, InTable
<1>5. Locks'
  BY DEF Locks, Types, Gets, Got, Locking
<1>6. DirLock'
  BY DEF DirLock, MakesName, TakesName, Types, Gets, Calls
<1> QED
  BY <1>1, <1>2, <1>3, <1>4, <1>5, <1>6

LEMMA IallocTable ==
    ASSUME InodesAssumption, Table, NEW p \in Procs, NEW n \in Names, NEW i \in Inums, Ialloc(p, n, i)
    PROVE  Table'
<1> USE DEF Table
<1> None \notin Procs
  BY DEF InodesAssumption, None
<1>1. Types'
  <2>1. [type |-> 1, nlink |-> 0] \in Record
    BY DEF Record
  <2> QED
    BY <2>1 DEF Ialloc, Types, Goto, Labels
<1>2. Calls'
  BY DEF Ialloc, Types, Goto, Calls
<1>3. \A x : Users(x)' = Users(x)
  <2>1. e' = e /\ \A q \in Procs : Holds(q)' <=> Holds(q)
    BY DEF Holds, Ialloc, Types, Goto
  <2> QED
    BY <2>1 DEF Users
<1>4. Refs' /\ Unique'
  BY <1>3 DEF Refs, Unique, Ialloc
<1>5. Locks'
  BY DEF Locks, Types, Ialloc, Goto, Locking
<1>6. DirLock'
  BY DEF DirLock, MakesName, TakesName, Types, Ialloc, Goto
<1> QED
  BY <1>1, <1>2, <1>4, <1>5, <1>6

LEMMA DropUsers ==
    ASSUME InodesAssumption, Types, NEW p \in Procs, IputDrop(p), NEW x \in Entries, x = e[p]
    PROVE  /\ Holds(p) /\ ~Holds(p)' /\ \A q \in Procs \ {p} : Holds(q)' <=> Holds(q)
           /\ p \in Users(x) /\ Users(x)' = Users(x) \ {p}
           /\ \A y \in Entries \ {x} : Users(y)' = Users(y)
<1>1. /\ pc[p] \in {"iput", "unref"} /\ pc' = [pc EXCEPT ![p] = "idle"]
      /\ e' = [e EXCEPT ![p] = 1] /\ e[p] \in Entries
  BY DEF IputDrop, Done, Goto, Types
<1>2. Holds(p) /\ ~Holds(p)' /\ \A q \in Procs \ {p} : Holds(q)' <=> Holds(q)
  BY <1>1 DEF Holds, Types
<1>3. p \in Users(x)
  BY <1>2 DEF Users
<1>4. \A q \in Procs, y \in Entries : q \in Users(y)' <=> q # p /\ q \in Users(y)
  BY <1>1, <1>2 DEF Users, Types
<1>5. \A y : Users(y)' \subseteq Procs /\ Users(y) \subseteq Procs
  BY DEF Users
<1>6. Users(x)' = Users(x) \ {p}
  BY <1>4, <1>5
<1>7. \A y \in Entries \ {x} : Users(y)' = Users(y)
  BY <1>4, <1>5 DEF Users
<1> QED
  BY <1>2, <1>3, <1>6, <1>7

LEMMA DropTable ==
    ASSUME InodesAssumption, Table, NEW p \in Procs, IputDrop(p)
    PROVE  Table'
<1> USE DEF Table
<1> None \notin Procs
  BY DEF InodesAssumption, None
<1>1. PICK x \in Entries : x = e[p]
  BY DEF Types
<1>2. /\ Holds(p) /\ p \in Users(x) /\ Users(x)' = Users(x) \ {p}
      /\ \A y \in Entries \ {x} : Users(y)' = Users(y)
  BY <1>1, DropUsers
<1>3. ref' = [ref EXCEPT ![x] = @ - 1] /\ ref[x] > 0 /\ 1 \in Entries
  BY <1>1, <1>2, UsedEntry DEF IputDrop, Entries, InodesAssumption
<1>4. Types'
  <2>1. ref' \in [Entries -> Nat]
    BY <1>3 DEF Types
  <2> QED
    BY <1>3, <2>1 DEF IputDrop, Done, Goto, Types, Labels
<1>5. Calls'
  BY DEF Calls, IputDrop, Done, Goto, Types
<1>6. Refs'
  <2>1. IsFiniteSet(Users(x)) /\ Cardinality(Users(x)) \in Nat
    BY SetOfUsers
  <2>2. Cardinality(Users(x) \ {p}) = Cardinality(Users(x)) - 1
    BY <1>2, <2>1, FS_RemoveElement
  <2> QED
    BY <1>2, <1>3, <2>2 DEF Refs, Types
<1>7. Unique'
  BY <1>3 DEF Unique, IputDrop, Types
<1>8. Locks'
  BY DEF Locks, IputDrop, Done, Goto, Types, Locking
<1>9. DirLock'
  BY DEF DirLock, MakesName, TakesName, IputDrop, Done, Goto, Types
<1> QED
  BY <1>4, <1>5, <1>6, <1>7, <1>8, <1>9

\* Every step is of one of five kinds.
LEMMA Kinds ==
    ASSUME InodesAssumption, Table, Next
    PROVE  \/ UNCHANGED vars
           \/ \E p \in Procs : \/ Stays(p)
                               \/ \E i \in Inums, x \in Entries : Gets(p, i, x)
                               \/ \E n \in Names, i \in Inums : Ialloc(p, n, i)
                               \/ IputDrop(p)
<1> SUFFICES ASSUME NEW p \in Procs,
                    \/ \E n \in Names : \/ \E o \in {"open", "link"} : Lookup(p, n, o)
                                        \/ NotFound(p, n) \/ IallocNone(p, n)
                                        \/ \E i \in Inums : Ialloc(p, n, i)
                                        \/ UnlinkLookup(p, n) \/ LinkName(p, n)
                    \/ Stays(p) \/ IallocIget(p) \/ IputDrop(p)
             PROVE  \/ UNCHANGED vars
                    \/ Stays(p)
                    \/ \E i \in Inums, x \in Entries : Gets(p, i, x)
                    \/ \E n \in Names, i \in Inums : Ialloc(p, n, i)
                    \/ IputDrop(p)
  BY DEF Next, Stays
<1>1. ASSUME \/ \E n \in Names, o \in {"open", "link"} : Lookup(p, n, o)
             \/ \E n \in Names : UnlinkLookup(p, n)
             \/ IallocIget(p)
      PROVE  \E i \in Inums, x \in Entries : Gets(p, i, x)
  BY <1>1, GetsStep DEF Table
<1>2. ASSUME NEW n \in Names, NotFound(p, n) \/ IallocNone(p, n)
      PROVE  UNCHANGED vars
  BY <1>2 DEF NotFound, IallocNone
<1>3. ASSUME NEW n \in Names, LinkName(p, n)
      PROVE  Stays(p)
  BY <1>3 DEF Stays
<1> QED
  BY <1>1, <1>2, <1>3

LEMMA StaysTable ==
    ASSUME InodesAssumption, Table, NEW p \in Procs, Stays(p)
    PROVE  Table'
BY StaysUsers, StaysTypes, StaysCalls, StaysLocks, StaysDirLock DEF Table

LEMMA SameTable ==
    ASSUME Table, UNCHANGED vars
    PROVE  Table'
<1> USE DEF Table, vars
<1>1. Types' /\ Calls'
  BY DEF Types, Calls
<1>2. Refs' /\ Unique'
  BY DEF Refs, Users, Holds, Unique
<1>3. Locks' /\ DirLock'
  BY DEF Locks, DirLock, MakesName, TakesName
<1> QED
  BY <1>1, <1>2, <1>3

LEMMA TableNext ==
    ASSUME InodesAssumption, Table, [Next]_vars
    PROVE  Table'
BY Kinds, StaysTable, GetsTable, IallocTable, DropTable, SameTable

-----------------------------------------------------------------------------
(* The inodes *)

LEMMA Facts ==
    ASSUME InodesAssumption, Table
    PROVE  /\ None \notin Procs
           /\ \A p \in Procs : Holds(p) =>
                e[p] \in Entries /\ ref[e[p]] > 0 /\ inum[e[p]] \in Inums
           /\ \A p, q \in Procs : Holds(p) /\ Holds(q) /\ inum[e[p]] = inum[e[q]] => e[p] = e[q]
           /\ \A x \in Entries : \A p, q \in Users(x) : ref[x] = 1 => p = q
           /\ \A p, q \in Procs : pc[p] \in Locking /\ pc[q] \in Locking /\ e[p] = e[q] => p = q
           /\ \A p \in Procs : MakesName(p) \/ TakesName(p) => dlock = p
<1> USE DEF Table
<1>1. None \notin Procs
  BY DEF InodesAssumption, None
<1>2. \A p \in Procs : Holds(p) => e[p] \in Entries /\ ref[e[p]] > 0 /\ inum[e[p]] \in Inums
  BY UsedEntry DEF Types, Unique
<1>3. \A p, q \in Procs : Holds(p) /\ Holds(q) /\ inum[e[p]] = inum[e[q]] => e[p] = e[q]
  BY <1>2 DEF Unique
<1>4. \A x \in Entries : \A p, q \in Users(x) : ref[x] = 1 => p = q
  <2> SUFFICES ASSUME NEW x \in Entries, NEW p \in Users(x), NEW q \in Users(x), ref[x] = 1
               PROVE  p = q
    OBVIOUS
  <2>1. IsFiniteSet(Users(x)) /\ Cardinality(Users(x)) = 1
    BY SetOfUsers DEF Refs
  <2>2. \E y : Users(x) = {y}
    BY <2>1, FS_Singleton
  <2> QED
    BY <2>2
<1>5. \A p, q \in Procs : pc[p] \in Locking /\ pc[q] \in Locking /\ e[p] = e[q] => p = q
  BY DEF Locks, Types
<1> QED
  BY <1>1, <1>2, <1>3, <1>4, <1>5 DEF DirLock

\* Past ilock() and before the inode is freed, the entry agrees with the disk.
LEMMA Current ==
    ASSUME InodesAssumption, Inv
    PROVE  \A p \in Procs : pc[p] \in (Loaded \ {"invalidate"}) =>
               mem[e[p]] = disk[inum[e[p]]] /\ disk[inum[e[p]]].type = 1
<1> SUFFICES ASSUME NEW p \in Procs, pc[p] \in (Loaded \ {"invalidate"})
             PROVE  mem[e[p]] = disk[inum[e[p]]] /\ disk[inum[e[p]]].type = 1
  OBVIOUS
<1>1. Holds(p) /\ pc[p] \in Locking
  BY DEF Holds, Loaded, Locking
<1>2. e[p] \in Entries /\ ref[e[p]] > 0 /\ valid[e[p]]
  BY <1>1, Facts DEF Inv, Content, Valid
<1>3. \A q \in Users(e[p]) : pc[q] # "invalidate"
  <2> SUFFICES ASSUME NEW q \in Users(e[p]), pc[q] = "invalidate"
               PROVE  FALSE
    OBVIOUS
  <2>1. q \in Procs /\ e[q] = e[p] /\ pc[q] \in Locking
    BY DEF Users, Locking
  <2> QED
    BY <1>1, <2>1, Facts DEF Inv, Loaded
<1> QED
  BY <1>2, <1>3 DEF Inv, Content, Cached

\* Names and counts still owed are finite sets.
LEMMA Numbers ==
    ASSUME InodesAssumption, NEW i
    PROVE  /\ IsFiniteSet(Named(i)) /\ Cardinality(Named(i)) \in Nat
           /\ Cardinality(Named(i)) = 0 <=> Named(i) = {}
           /\ IsFiniteSet(Owing(i)) /\ Cardinality(Owing(i)) \in Nat
           /\ Cardinality(Owing(i)) = 0 <=> Owing(i) = {}
<1>1. Named(i) \in SUBSET Names /\ Owing(i) \in SUBSET Procs
  BY DEF Named, Owing
<1>2. IsFiniteSet(Named(i)) /\ IsFiniteSet(Owing(i))
  BY <1>1, FS_Subset DEF InodesAssumption
<1> QED
  BY <1>2, FS_CardinalityType, FS_EmptySet

LEMMA NameAdded ==
    ASSUME InodesAssumption, Types, NEW n \in Names, NEW i \in Inums, dir[n] # i,
           dir' = [dir EXCEPT ![n] = i]
    PROVE  /\ Cardinality(Named(i)') = Cardinality(Named(i)) + 1
           /\ \A j \in Inums : j # i /\ j # dir[n] => Named(j)' = Named(j)
<1>1. n \notin Named(i) /\ Named(i)' = Named(i) \cup {n}
  BY DEF Named, Types
<1>2. \A j \in Inums : j # i /\ j # dir[n] => Named(j)' = Named(j)
  BY DEF Named, Types
<1>3. IsFiniteSet(Named(i))
  BY Numbers
<1> QED
  BY <1>1, <1>2, <1>3, FS_AddElement

LEMMA NameErased ==
    ASSUME InodesAssumption, Types, NEW n \in Names, NEW i \in Inums, dir[n] = i,
           dir' = [dir EXCEPT ![n] = 0]
    PROVE  /\ Cardinality(Named(i)') = Cardinality(Named(i)) - 1
           /\ \A j \in Inums \ {i} : Named(j)' = Named(j)
<1>0. 0 \notin Inums
  BY DEF InodesAssumption
<1>1. n \in Named(i) /\ Named(i)' = Named(i) \ {n}
  BY <1>0 DEF Named, Types
<1>2. \A j \in Inums \ {i} : Named(j)' = Named(j)
  BY <1>0 DEF Named, Types
<1>3. IsFiniteSet(Named(i))
  BY Numbers
<1> QED
  BY <1>1, <1>2, <1>3, FS_RemoveElement

LEMMA OwingSame ==
    ASSUME UNCHANGED <<inum, e>>, \A q \in Procs : Owes(q)' <=> Owes(q)
    PROVE  \A j : Owing(j)' = Owing(j)
BY DEF Owing

LEMMA OwingMore ==
    ASSUME InodesAssumption, UNCHANGED <<inum, e>>, NEW p \in Procs, ~Owes(p), Owes(p)',
           \A q \in Procs \ {p} : Owes(q)' <=> Owes(q), NEW i, i = inum[e[p]]
    PROVE  /\ Cardinality(Owing(i)') = Cardinality(Owing(i)) + 1
           /\ \A j : j # i => Owing(j)' = Owing(j)
<1>1. p \notin Owing(i) /\ Owing(i)' = Owing(i) \cup {p}
  BY DEF Owing
<1>2. \A j : j # i => Owing(j)' = Owing(j)
  BY DEF Owing
<1>3. IsFiniteSet(Owing(i))
  BY Numbers
<1> QED
  BY <1>1, <1>2, <1>3, FS_AddElement

LEMMA OwingLess ==
    ASSUME InodesAssumption, UNCHANGED <<inum, e>>, NEW p \in Procs, Owes(p), ~Owes(p)',
           \A q \in Procs \ {p} : Owes(q)' <=> Owes(q), NEW i, i = inum[e[p]]
    PROVE  /\ Cardinality(Owing(i)') = Cardinality(Owing(i)) - 1
           /\ \A j : j # i => Owing(j)' = Owing(j)
<1>1. p \in Owing(i) /\ Owing(i)' = Owing(i) \ {p}
  BY DEF Owing
<1>2. \A j : j # i => Owing(j)' = Owing(j)
  BY DEF Owing
<1>3. IsFiniteSet(Owing(i))
  BY Numbers
<1> QED
  BY <1>1, <1>2, <1>3, FS_RemoveElement

LEMMA StaysOthers ==
    ASSUME InodesAssumption, Inv, NEW p \in Procs, Stays(p)
    PROVE  /\ UNCHANGED <<e, ref, inum, name, fresh>> /\ Holds(p)
           /\ \A q \in Procs \ {p} : pc'[q] = pc[q] /\ op'[q] = op[q]
           /\ \A q \in Procs, i \in Inums : At(q, i)' <=> At(q, i)
           /\ \A q \in Procs : Gone(q) => Gone(q)'
           /\ \A q \in Procs : MakesName(q)' => MakesName(q)
           /\ \A q \in Procs : TakesName(q)' => TakesName(q)
           /\ \A q \in Procs, i \in Inums : Creating(q, i)' => Creating(q, i)
           /\ \A q \in Procs \ {p} : Owes(q)' <=> Owes(q)
<1> USE DEF Inv, Table
<1>1. UNCHANGED <<e, ref, inum, name, fresh>> /\ Holds(p)
  BY StaysFrame
<1>2. \A q \in Procs \ {p} : pc'[q] = pc[q]
  BY StaysFrame DEF Types
<1>3. \A q \in Procs \ {p} : op'[q] = op[q]
  BY DEF Types, Stays, Ilock, Load, Opened, Close, CreateCount, CreateLink, CreateFails,
     UnlinkErase,
         Uncount, LinkCount, LinkName, LinkFails, IputLast, IputFree, IputInvalidate
<1>4. \A q \in Procs, i \in Inums : At(q, i)' <=> At(q, i)
  BY <1>1, StaysUsers DEF At
<1>5. Gone(p) => Gone(p)'
  BY DEF Types, Goto, Gone, Stays, Ilock, Load, Opened, Close, CreateCount, CreateLink,
     CreateFails, UnlinkErase,
         Uncount, LinkCount, LinkName, LinkFails, IputLast, IputFree, IputInvalidate
<1>6. MakesName(p)' => MakesName(p) /\ pc[p] # "iget" /\ pc'[p] # "iget"
  <2>1. CASE Load(p)
    BY <2>1 DEF Load, Goto, MakesName, Types
  <2>2. CASE LinkFails(p)
    BY <2>2 DEF LinkFails, Goto, MakesName, Types
  <2> QED
    BY <2>1, <2>2 DEF Types, Goto, MakesName, Calls, Stays, Ilock, Opened, Close, CreateCount,
       CreateLink, CreateFails, UnlinkErase,
         Uncount, LinkCount, LinkName, IputLast, IputFree, IputInvalidate
<1>7. TakesName(p)' => TakesName(p)
  <2>1. CASE Load(p)
    BY <2>1 DEF Load, Goto, TakesName, Types
  <2>2. CASE LinkFails(p)
    BY <2>2 DEF LinkFails, Goto, TakesName, Types
  <2> QED
    BY <2>1, <2>2 DEF Types, Goto, TakesName, Calls, Stays, Ilock, Opened, Close, CreateCount,
       CreateLink, CreateFails, UnlinkErase,
         Uncount, LinkCount, LinkName, IputLast, IputFree, IputInvalidate
<1>8. \A q \in Procs \ {p} : /\ Gone(q)' <=> Gone(q)
                             /\ MakesName(q)' <=> MakesName(q)
                             /\ TakesName(q)' <=> TakesName(q)
                             /\ Owes(q)' <=> Owes(q)
  BY <1>2, <1>3 DEF Gone, MakesName, TakesName, Owes
<1>9. \A q \in Procs, i \in Inums : Creating(q, i)' => Creating(q, i)
  BY <1>1, <1>2, <1>6, <1>8 DEF Creating
<1> QED
  BY <1>1, <1>2, <1>3, <1>4, <1>5, <1>6, <1>7, <1>8, <1>9

\* What a step that stays does to an inode, to the directory and to an entry.
LEMMA StaysData ==
    ASSUME InodesAssumption, Inv, NEW p \in Procs, Stays(p)
    PROVE  /\ \/ UNCHANGED <<mem, disk>>
              \/ Load(p)
              \/ /\ pc[p] \in (Loaded \ {"invalidate"})
                 /\ \E m \in Record : /\ Iupdate(e[p], m)
                                      /\ \/ m.type = 1
                                         \/ pc[p] = "trunc" /\ m = Free /\ pc'[p] = "invalidate"
           /\ \/ UNCHANGED dir
              \/ MakesName(p) /\ pc[p] = "newlink" /\ dir' = [dir EXCEPT ![name[p]] = inum[e[p]]]
              \/ TakesName(p) /\ pc[p] = "unlink" /\ dir' = [dir EXCEPT ![name[p]] = 0]
              \/ \E n \in Names : /\ pc[p] = "dirlink" /\ dlock = None /\ dir[n] = 0
                                  /\ dir' = [dir EXCEPT ![n] = inum[e[p]]]
           /\ \/ UNCHANGED valid
              \/ Load(p)
              \/ pc[p] = "invalidate" /\ valid' = [valid EXCEPT ![e[p]] = FALSE]
<1> USE DEF Inv, Table
<1>1. \/ UNCHANGED <<mem, disk>>
      \/ Load(p)
      \/ /\ pc[p] \in (Loaded \ {"invalidate"})
         /\ \E m \in Record : /\ Iupdate(e[p], m)
                              /\ \/ m.type = 1
                                 \/ pc[p] = "trunc" /\ m = Free /\ pc'[p] = "invalidate"
  <2>1. CASE CreateCount(p) \/ CreateFails(p)
    <3>1. /\ [type |-> 1, nlink |-> 1] \in Record /\ [type |-> 1, nlink |-> 0] \in Record
          /\ [type |-> 1, nlink |-> 1].type = 1 /\ [type |-> 1, nlink |-> 0].type = 1
      BY DEF Record
    <3> QED
      BY <2>1, <3>1 DEF CreateCount, CreateFails, Loaded, Locking
  <2>2. CASE Uncount(p) \/ LinkCount(p)
    <3>1. pc[p] \in (Loaded \ {"invalidate"})
      BY <2>2 DEF Uncount, LinkCount, Loaded, Locking
    <3>2. mem[e[p]] \in Record /\ mem[e[p]].type = 1
      BY <3>1, Current DEF Types
    <3>3. /\ Nlink(e[p], 1) \in Record /\ Nlink(e[p], -1) \in Record
          /\ Nlink(e[p], 1).type = 1 /\ Nlink(e[p], -1).type = 1
      BY <3>2 DEF Nlink, Record
    <3> QED
      BY <2>2, <3>1, <3>3 DEF Uncount, LinkCount
  <2>3. CASE IputFree(p)
    <3>1. Free \in Record
      BY DEF Free, Record
    <3> QED
      BY <2>3, <3>1 DEF IputFree, Goto, Loaded, Locking, Types
  <2> QED
    BY <2>1, <2>2, <2>3 DEF Stays, Ilock, Opened, Close, CreateLink, UnlinkErase, LinkName,
         LinkFails, IputLast, IputInvalidate
<1>2. \/ UNCHANGED dir
      \/ MakesName(p) /\ pc[p] = "newlink" /\ dir' = [dir EXCEPT ![name[p]] = inum[e[p]]]
      \/ TakesName(p) /\ pc[p] = "unlink" /\ dir' = [dir EXCEPT ![name[p]] = 0]
      \/ \E n \in Names : /\ pc[p] = "dirlink" /\ dlock = None /\ dir[n] = 0
                          /\ dir' = [dir EXCEPT ![n] = inum[e[p]]]
  <2>1. CASE CreateLink(p)
    BY <2>1 DEF CreateLink, MakesName, Calls
  <2>2. CASE UnlinkErase(p)
    BY <2>2 DEF UnlinkErase, TakesName, Calls
  <2>3. ASSUME NEW n \in Names, LinkName(p, n)
        PROVE  /\ pc[p] = "dirlink" /\ dlock = None /\ dir[n] = 0
               /\ dir' = [dir EXCEPT ![n] = inum[e[p]]]
    BY <2>3 DEF LinkName
  <2> QED
    BY <2>1, <2>2, <2>3 DEF Stays, Ilock, Load, Opened, Close, CreateCount, CreateFails,
         Uncount, LinkCount, LinkFails, IputLast, IputFree, IputInvalidate
<1>3. \/ UNCHANGED valid
      \/ Load(p)
      \/ pc[p] = "invalidate" /\ valid' = [valid EXCEPT ![e[p]] = FALSE]
  BY DEF Stays, Ilock, Opened, Close, CreateCount, CreateLink, CreateFails, UnlinkErase,
         Uncount, LinkCount, LinkName, LinkFails, IputLast, IputFree, IputInvalidate
<1> QED
  BY <1>1, <1>2, <1>3

\* ilock() never finds an inode without a type.
LEMMA LoadFinds ==
    ASSUME InodesAssumption, Inv, NEW p \in Procs, Load(p)
    PROVE  /\ ~valid[e[p]] => mem' = [mem EXCEPT ![e[p]] = disk[inum[e[p]]]]
           /\ valid[e[p]] => mem' = mem
           /\ disk[inum[e[p]]].type = 1 /\ disk' = disk
           /\ valid' = [valid EXCEPT ![e[p]] = TRUE]
           /\ pc' = [pc EXCEPT ![p] = op[p]] /\ op[p] # "panic"
<1> USE DEF Inv, Table
<1>1. Holds(p) /\ pc[p] = "load"
  BY DEF Load, Holds
<1>2. e[p] \in Entries /\ inum[e[p]] \in Inums
  BY <1>1, Facts
<1>3. disk[inum[e[p]]].type = 1
  <2>1. At(p, inum[e[p]]) /\ ~Gone(p)
    BY <1>1 DEF At, Gone
  <2>2. disk[inum[e[p]]].type # 0
    BY <1>2, <2>1 DEF Content, Alive
  <2> QED
    BY <1>2, <2>2 DEF Types, Record
<1>4. /\ mem' = IF valid[e[p]] THEN mem ELSE [mem EXCEPT ![e[p]] = disk[inum[e[p]]]]
      /\ valid' = [valid EXCEPT ![e[p]] = TRUE] /\ disk' = disk
      /\ Goto(p, IF ~valid[e[p]] /\ mem'[e[p]].type = 0 THEN "panic" ELSE op[p])
  BY DEF Load
<1>5. ~valid[e[p]] => mem'[e[p]].type # 0
  BY <1>2, <1>3, <1>4 DEF Types
<1>6. op[p] # "panic"
  BY DEF Types
<1> QED
  BY <1>3, <1>4, <1>5, <1>6 DEF Goto

LEMMA StaysNoPanic ==
    ASSUME InodesAssumption, Inv, NEW p \in Procs, Stays(p)
    PROVE  NoPanic'
<1> USE DEF Inv, Table
<1>1. SUFFICES pc'[p] # "panic"
  BY StaysOthers DEF NoPanic, Content
<1>2. CASE Load(p)
  BY <1>2, LoadFinds DEF Types
<1>3. CASE UnlinkErase(p)
  <2>1. pc[p] = "unlink" /\ pc[p] \in (Loaded \ {"invalidate"}) /\ TakesName(p)
    BY <1>3 DEF UnlinkErase, Loaded, Locking, TakesName, Calls
  <2>2. mem[e[p]] = disk[inum[e[p]]] /\ name[p] \in Names /\ dir[name[p]] = inum[e[p]]
    BY <2>1, Current DEF Content, Taken, Calls
  <2>3. inum[e[p]] \in Inums
    BY <2>1, Facts DEF Holds
  <2>4. name[p] \in Named(inum[e[p]])
    BY <2>2 DEF Named
  <2>5. disk[inum[e[p]]].nlink = Cardinality(Named(inum[e[p]])) + Cardinality(Owing(inum[e[p]]))
    BY <2>3 DEF Content, Counts
  <2>6. /\ Cardinality(Named(inum[e[p]])) \in Nat /\ Cardinality(Owing(inum[e[p]])) \in Nat
        /\ Cardinality(Named(inum[e[p]])) # 0
    BY <2>4, Numbers
  <2>7. ~(mem[e[p]].nlink < 1)
    BY <2>2, <2>5, <2>6
  <2> QED
    BY <1>3, <2>7 DEF UnlinkErase, Goto, Types
<1> QED
  BY <1>2, <1>3 DEF Types, Goto, Stays, Ilock, Opened, Close, CreateCount, CreateLink, CreateFails,
         Uncount, LinkCount, LinkName, LinkFails, IputLast, IputFree, IputInvalidate

LEMMA StaysCached ==
    ASSUME InodesAssumption, Inv, NEW p \in Procs, Stays(p)
    PROVE  Cached'
<1> USE DEF Inv, Table
<1> SUFFICES ASSUME NEW x \in Entries, ref'[x] > 0, valid'[x],
                    \A q \in Users(x)' : pc'[q] # "invalidate"
             PROVE  mem'[x] = disk'[inum'[x]] /\ disk'[inum'[x]].type = 1
  BY DEF Cached
<1>1. ref[x] > 0 /\ inum'[x] = inum[x] /\ Users(x)' = Users(x) /\ Holds(p)
  BY StaysOthers, StaysUsers
<1>2. inum[x] \in Inums /\ e[p] \in Entries /\ ref[e[p]] > 0 /\ inum[e[p]] \in Inums
  BY <1>1, Facts DEF Unique
<1>3. x # e[p] => inum[x] # inum[e[p]]
  BY <1>1, <1>2 DEF Unique
<1>4. ~(pc[p] = "invalidate" /\ x = e[p])
  <2> SUFFICES ASSUME pc[p] = "invalidate" /\ x = e[p]
               PROVE  FALSE
    OBVIOUS
  <2>1. valid' = [valid EXCEPT ![e[p]] = FALSE]
    BY DEF Stays, Ilock, Load, Opened, Close, CreateCount, CreateLink, CreateFails, UnlinkErase,
           Uncount, LinkCount, LinkName, LinkFails, IputLast, IputFree, IputInvalidate
  <2> QED
    BY <1>2, <2>1 DEF Types
<1>5. \A q \in Users(x) : pc[q] # "invalidate"
  BY <1>1, <1>4, StaysOthers DEF Users
<1>6. valid[x] => mem[x] = disk[inum[x]] /\ disk[inum[x]].type = 1
  BY <1>1, <1>5 DEF Content, Cached
<1>7. CASE Load(p)
  <2>1. CASE x = e[p]
    BY <1>2, <1>6, <1>7, <2>1, <1>1, LoadFinds DEF Types
  <2>2. CASE x # e[p]
    BY <1>2, <1>6, <1>7, <2>2, <1>1, LoadFinds DEF Types
  <2> QED
    BY <2>1, <2>2
<1>8. CASE ~Load(p)
  <2>1. valid[x]
    BY <1>2, <1>8, StaysData DEF Types
  <2>2. CASE UNCHANGED <<mem, disk>>
    BY <1>1, <1>6, <2>1, <2>2
  <2>3. ASSUME NEW m \in Record, Iupdate(e[p], m),
               m.type = 1 \/ (m = Free /\ pc'[p] = "invalidate")
        PROVE  mem'[x] = disk'[inum'[x]] /\ disk'[inum'[x]].type = 1
    <3>1. CASE x = e[p]
      <4>1. p \in Users(x)'
        BY <1>1, <3>1 DEF Users
      <4>2. m.type = 1
        BY <2>3, <4>1
      <4> QED
        BY <1>1, <1>2, <2>3, <3>1, <4>2 DEF Iupdate, Types
    <3>2. CASE x # e[p]
      BY <1>1, <1>2, <1>3, <1>6, <2>1, <2>3, <3>2 DEF Iupdate, Types
    <3> QED
      BY <3>1, <3>2
  <2> QED
    BY <1>8, <2>2, <2>3, StaysData
<1> QED
  BY <1>7, <1>8

LEMMA StaysValid ==
    ASSUME InodesAssumption, Inv, NEW p \in Procs, Stays(p)
    PROVE  Valid'
<1> USE DEF Inv, Table
<1> SUFFICES ASSUME NEW q \in Procs, pc'[q] \in Loaded
             PROVE  valid'[e'[q]]
  BY DEF Valid
<1>1. e' = e /\ Holds(p) /\ e[p] \in Entries /\ e[q] \in Entries
  BY StaysOthers DEF Types
<1>2. CASE q = p
  <2>1. CASE Load(p)
    BY <1>1, <1>2, <2>1, LoadFinds DEF Types
  <2>2. CASE IputLast(p)
    BY <1>1, <1>2, <2>2 DEF IputLast, LastPut
  <2>3. CASE ~Load(p) /\ ~IputLast(p)
    <3>1. pc[p] \in Loaded /\ pc[p] # "invalidate"
      BY <1>2, <2>3 DEF Stays, Goto, Types, Loaded, Locking, Ilock, Opened, Close, CreateCount,
         CreateLink,
         CreateFails, UnlinkErase, Uncount, LinkCount, LinkName, LinkFails, IputFree, IputInvalidate
    <3> QED
      BY <1>1, <1>2, <2>3, <3>1, StaysData DEF Content, Valid
  <2> QED
    BY <2>1, <2>2, <2>3
<1>3. CASE q # p
  <2>1. pc[q] \in Loaded /\ valid[e[q]]
    BY <1>3, StaysOthers DEF Content, Valid
  <2>2. pc[p] = "invalidate" => e[q] # e[p]
    BY <1>3, <2>1, Facts DEF Loaded, Locking
  <2>3. CASE Load(p)
    BY <1>1, <2>1, <2>3, LoadFinds DEF Types
  <2>4. CASE ~Load(p)
    BY <1>1, <2>1, <2>2, <2>4, StaysData DEF Types
  <2> QED
    BY <2>3, <2>4
<1> QED
  BY <1>2, <1>3

LEMMA Unnamed ==
    ASSUME InodesAssumption, Inv
    PROVE  \A i \in Inums : disk[i].nlink = 0 => \A n \in Names : dir[n] # i
<1> SUFFICES ASSUME NEW i \in Inums, disk[i].nlink = 0, NEW n \in Names, dir[n] = i
             PROVE  FALSE
  OBVIOUS
<1>1. n \in Named(i)
  BY DEF Named
<1>2. Cardinality(Named(i)) \in Nat /\ Cardinality(Owing(i)) \in Nat /\ Cardinality(Named(i)) # 0
  BY <1>1, Numbers
<1>3. disk[i].nlink = Cardinality(Named(i)) + Cardinality(Owing(i))
  BY DEF Inv, Content, Counts
<1> QED
  BY <1>2, <1>3

LEMMA StaysAlive ==
    ASSUME InodesAssumption, Inv, NEW p \in Procs, Stays(p)
    PROVE  Alive'
<1> USE DEF Inv, Table
<1> SUFFICES ASSUME NEW i \in Inums, disk'[i].type = 0
             PROVE  /\ disk'[i] = Free /\ \A n \in Names : dir'[n] # i
                    /\ \A q \in Procs : (At(q, i)' => Gone(q)') /\ ~Creating(q, i)'
  BY DEF Alive
<1>1. /\ Holds(p) /\ \A q \in Procs : /\ At(q, i)' <=> At(q, i)
                                      /\ Gone(q) => Gone(q)'
                                      /\ Creating(q, i)' => Creating(q, i)
  BY StaysOthers
<1>2. e[p] \in Entries /\ inum[e[p]] \in Inums /\ 0 \notin Inums
  BY <1>1, Facts DEF InodesAssumption
<1>3. CASE disk[i].type = 0
  <2>1. /\ disk[i] = Free /\ \A n \in Names : dir[n] # i
        /\ \A q \in Procs : (At(q, i) => Gone(q)) /\ ~Creating(q, i)
    BY <1>3 DEF Content, Alive
  <2>2. ~Gone(p) => inum[e[p]] # i
    BY <1>1, <2>1 DEF At
  <2>3. disk'[i] = Free
    <3>1. ~Gone(p) => disk'[i] = disk[i]
      BY <1>2, <2>2, StaysData DEF Iupdate, Types, Load
    <3>2. Gone(p) => disk'[i] = disk[i]
      BY StaysData DEF Gone, Loaded, Locking, Load
    <3> QED
      BY <2>1, <3>1, <3>2
  <2>4. \A n \in Names : dir'[n] # i
    <3>1. Gone(p) => dir' = dir
      BY StaysData DEF Gone
    <3>2. ~Gone(p) => \A n \in Names : dir'[n] # i
      BY <1>2, <2>1, <2>2, StaysData DEF Types
    <3> QED
      BY <2>1, <3>1, <3>2
  <2> QED
    BY <1>1, <2>1, <2>3, <2>4
<1>4. CASE disk[i].type # 0
  <2>1. PICK m \in Record : /\ Iupdate(e[p], m)
                            /\ \/ m.type = 1
                               \/ pc[p] = "trunc" /\ m = Free /\ pc'[p] = "invalidate"
    BY <1>4, StaysData DEF Load
  <2>2. i = inum[e[p]] /\ m.type = 0 /\ disk'[i] = m
    BY <1>2, <1>4, <2>1 DEF Iupdate, Types
  <2>3. pc[p] = "trunc" /\ m = Free /\ pc'[p] = "invalidate"
    BY <2>1, <2>2
  <2>4. mem[e[p]] = disk[i] /\ mem[e[p]].nlink = 0 /\ ref[e[p]] = 1
    BY <2>2, <2>3, Current DEF Content, Last, Loaded, Locking
  <2>5. \A n \in Names : dir'[n] # i
    <3>1. dir' = dir
      BY <2>3, StaysData
    <3> QED
      BY <2>4, <3>1, Unnamed
  <2>6. \A q \in Procs : At(q, i)' => Gone(q)'
    <3> SUFFICES ASSUME NEW q \in Procs, At(q, i)
                 PROVE  Gone(q)'
      BY <1>1
    <3>1. e[q] = e[p] /\ Holds(q)
      BY <1>1, <2>2, Facts DEF At
    <3>2. p \in Users(e[p]) /\ q \in Users(e[p])
      BY <1>1, <3>1 DEF Users
    <3>3. q = p
      BY <1>2, <2>4, <3>2, Facts
    <3> QED
      BY <2>3, <3>3 DEF Gone
  <2>7. \A q \in Procs : ~Creating(q, i)'
    <3> SUFFICES ASSUME NEW q \in Procs, Creating(q, i)
                 PROVE  FALSE
      BY <1>1
    <3>1. At(p, i) /\ ~Gone(p)
      BY <1>1, <2>2, <2>3 DEF At, Gone
    <3>2. q # p
      BY <2>3 DEF Creating, MakesName
    <3> QED
      BY <3>1, <3>2 DEF Content, New
  <2> QED
    BY <2>2, <2>3, <2>5, <2>6, <2>7
<1> QED
  BY <1>3, <1>4

LEMMA StaysLast ==
    ASSUME InodesAssumption, Inv, NEW p \in Procs, Stays(p)
    PROVE  Last'
<1> USE DEF Inv, Table
<1> SUFFICES ASSUME NEW q \in Procs, pc'[q] = "trunc"
             PROVE  ref'[e'[q]] = 1 /\ mem'[e'[q]].nlink = 0
  BY DEF Last
<1>1. e' = e /\ ref' = ref /\ e[q] \in Entries /\ e[p] \in Entries
  BY StaysOthers DEF Types
<1>2. CASE q = p
  <2>1. IputLast(p)
    <3>1. CASE Load(p)
      BY <1>2, <3>1, LoadFinds DEF Types
    <3> QED
      BY <1>2, <3>1 DEF Stays, Goto, Types, Ilock, Opened, Close, CreateCount, CreateLink,
         CreateFails, UnlinkErase, Uncount, LinkCount, LinkName, LinkFails, IputFree, IputInvalidate
  <2> QED
    BY <1>1, <1>2, <2>1 DEF IputLast, LastPut
<1>3. CASE q # p
  <2>1. pc[q] = "trunc" /\ ref[e[q]] = 1 /\ mem[e[q]].nlink = 0
    BY <1>3, StaysOthers DEF Content, Last
  <2>2. pc[p] \in Locking => e[q] # e[p]
    BY <1>3, <2>1, Facts DEF Locking
  <2>3. mem'[e[q]] = mem[e[q]]
    BY <1>1, <2>2, StaysData DEF Load, Iupdate, Loaded, Locking, Types
  <2> QED
    BY <1>1, <2>1, <2>3
<1> QED
  BY <1>2, <1>3

LEMMA StaysTaken ==
    ASSUME InodesAssumption, Inv, NEW p \in Procs, Stays(p)
    PROVE  Taken'
<1> USE DEF Inv, Table
<1> SUFFICES ASSUME NEW q \in Procs, TakesName(q)'
             PROVE  dir'[name'[q]] = inum'[e'[q]]
  BY DEF Taken
<1>1. UNCHANGED <<e, inum, name>> /\ TakesName(q)
  BY StaysOthers
<1>2. dir[name[q]] = inum[e[q]] /\ dlock = q /\ q # None
  BY <1>1, Facts DEF Content, Taken
<1>3. dir' = dir
  <2>1. CASE q = p
    <3>1. ~(TakesName(p) /\ pc[p] = "unlink" /\ dir' = [dir EXCEPT ![name[p]] = 0])
      <4> SUFFICES ASSUME pc[p] = "unlink"
                   PROVE  FALSE
        OBVIOUS
      <4>1. pc'[p] \in {"panic", "uncount"}
        BY DEF Stays, Goto, Types, Ilock, Load, Opened, Close, CreateCount, CreateLink, CreateFails,
               UnlinkErase, Uncount, LinkCount, LinkName, LinkFails, IputLast, IputFree,
                  IputInvalidate
      <4> QED
        BY <2>1, <4>1 DEF TakesName
    <3> QED
      BY <1>1, <1>2, <2>1, <3>1, StaysData DEF MakesName, TakesName
  <2>2. CASE q # p
    BY <1>2, <2>2, StaysData, Facts
  <2> QED
    BY <2>1, <2>2
<1> QED
  BY <1>1, <1>2, <1>3

LEMMA StaysNew ==
    ASSUME InodesAssumption, Inv, NEW p \in Procs, Stays(p)
    PROVE  New'
<1> USE DEF Inv, Table
<1> SUFFICES ASSUME NEW q \in Procs, NEW i \in Inums, Creating(q, i)'
             PROVE  /\ disk'[i] = [type |-> 1, nlink |-> IF pc'[q] = "newlink" THEN 1 ELSE 0]
                    /\ dir'[name'[q]] = 0
                    /\ \A r \in Procs : r # q /\ At(r, i)' => Gone(r)'
  BY DEF New
<1>1. /\ Creating(q, i) /\ MakesName(q) /\ MakesName(q)' /\ UNCHANGED <<name, inum, e>>
      /\ \A r \in Procs : (At(r, i)' <=> At(r, i)) /\ (Gone(r) => Gone(r)')
      /\ Holds(p)
  BY StaysOthers DEF Creating
<1>2. /\ disk[i] = [type |-> 1, nlink |-> IF pc[q] = "newlink" THEN 1 ELSE 0]
      /\ dir[name[q]] = 0
      /\ \A r \in Procs : r # q /\ At(r, i) => Gone(r)
  BY <1>1 DEF Content, New
<1>3. dlock = q /\ q # None
  BY <1>1, Facts
<1>4. ~(p = q /\ pc[p] = "newlink")
  <2> SUFFICES ASSUME p = q, pc[p] = "newlink"
               PROVE  FALSE
    OBVIOUS
  <2>1. pc'[p] \in {"open", "iput"}
    BY DEF Stays, Goto, Types, Ilock, Load, Opened, Close, CreateCount, CreateLink, CreateFails,
           UnlinkErase, Uncount, LinkCount, LinkName, LinkFails, IputLast, IputFree, IputInvalidate
  <2> QED
    BY <1>1, <2>1 DEF MakesName
<1>5. dir' = dir
  <2>1. ~(p = q /\ TakesName(p)) /\ ~(p = q /\ pc[p] = "dirlink")
    BY <1>1 DEF MakesName, TakesName
  <2> QED
    BY <1>3, <1>4, <2>1, StaysData, Facts
<1>6. disk'[i] = [type |-> 1, nlink |-> IF pc'[q] = "newlink" THEN 1 ELSE 0]
  <2>1. CASE q = p
    <3>1. /\ pc[p] \in {"ilock", "load", "create"} /\ op[p] = "create" /\ i = inum[e[p]]
          /\ e[p] \in Entries
      BY <1>1, <1>4, <2>1 DEF Creating, MakesName, Holds, Types
    <3>2. CASE CreateCount(p)
      BY <2>1, <3>1, <3>2 DEF CreateCount, Iupdate, Goto, Types
    <3>3. CASE ~CreateCount(p)
      <4>1. Ilock(p) \/ Load(p)
        BY <3>1, <3>3 DEF Stays, Opened, Close, CreateLink, CreateFails,
           UnlinkErase, Uncount, LinkCount, LinkName, LinkFails, IputLast, IputFree, IputInvalidate
      <4>2. CASE Ilock(p)
        BY <1>2, <2>1, <3>1, <4>2 DEF Ilock, Goto, Types
      <4>3. CASE Load(p)
        BY <1>2, <2>1, <3>1, <4>3, LoadFinds DEF Types
      <4> QED
        BY <4>1, <4>2, <4>3
    <3> QED
      BY <3>2, <3>3
  <2>2. CASE q # p
    <3>1. pc'[q] = pc[q]
      BY <2>2, StaysOthers
    <3>2. ~Gone(p) => inum[e[p]] # i
      BY <1>1, <1>2, <2>2 DEF At
    <3>3. disk'[i] = disk[i]
      <4>1. e[p] \in Entries /\ inum[e[p]] \in Inums
        BY <1>1, Facts
      <4> QED
        BY <3>2, <4>1, StaysData DEF Iupdate, Types, Load, Gone, Loaded, Locking
    <3> QED
      BY <1>2, <3>1, <3>3
  <2> QED
    BY <2>1, <2>2
<1> QED
  BY <1>1, <1>2, <1>5, <1>6

\* The counts: a step moves the count of its inode, the names and what is owed
\* together.
LEMMA StaysCounts ==
    ASSUME InodesAssumption, Inv, NEW p \in Procs, Stays(p)
    PROVE  Counts'
<1> USE DEF Inv, Table
<1>1. /\ UNCHANGED <<inum, e, name>> /\ Holds(p)
      /\ \A q \in Procs \ {p} : Owes(q)' <=> Owes(q)
  BY StaysOthers
<1>2. PICK i \in Inums : i = inum[e[p]]
  BY <1>1, Facts
<1>3. e[p] \in Entries /\ pc[p] \in Labels /\ 0 \notin Inums /\ Inums \subseteq Nat
  BY DEF Types, InodesAssumption
<1>4. \A j \in Inums : /\ disk[j].nlink = Cardinality(Named(j)) + Cardinality(Owing(j))
                       /\ Cardinality(Named(j)) \in Nat /\ Cardinality(Owing(j)) \in Nat
  BY Numbers DEF Content, Counts
<1>5. ASSUME UNCHANGED <<dir, disk>>, Owes(p)' <=> Owes(p)
      PROVE  Counts'
  <2>1. \A j : Owing(j)' = Owing(j) /\ Named(j)' = Named(j)
    BY <1>1, <1>5, OwingSame DEF Named
  <2> QED
    BY <1>4, <1>5, <2>1 DEF Counts
<1>6. ASSUME NEW m \in Record, Iupdate(e[p], m), dir' = dir,
             \/ (Owes(p)' <=> Owes(p)) /\ m.nlink = disk[i].nlink
             \/ Owes(p) /\ ~Owes(p)' /\ m.nlink = disk[i].nlink - 1
             \/ ~Owes(p) /\ Owes(p)' /\ m.nlink = disk[i].nlink + 1
      PROVE  Counts'
  <2>1. /\ \A j : Named(j)' = Named(j)
        /\ disk'[i].nlink = m.nlink /\ \A j \in Inums \ {i} : disk'[j] = disk[j]
    BY <1>2, <1>6 DEF Iupdate, Types, Named
  <2>2. CASE (Owes(p)' <=> Owes(p)) /\ m.nlink = disk[i].nlink
    <3>1. \A j : Owing(j)' = Owing(j)
      BY <1>1, <2>2, OwingSame
    <3> QED
      BY <1>4, <2>1, <2>2, <3>1 DEF Counts
  <2>3. CASE Owes(p) /\ ~Owes(p)' /\ m.nlink = disk[i].nlink - 1
    <3>1. /\ Cardinality(Owing(i)') = Cardinality(Owing(i)) - 1
          /\ \A j : j # i => Owing(j)' = Owing(j)
      BY <1>1, <1>2, <2>3, OwingLess
    <3>2. disk'[i].nlink = Cardinality(Named(i)') + Cardinality(Owing(i)')
      BY <1>4, <2>1, <2>3, <3>1
    <3> QED
      BY <1>4, <2>1, <3>1, <3>2 DEF Counts
  <2>4. CASE ~Owes(p) /\ Owes(p)' /\ m.nlink = disk[i].nlink + 1
    <3>1. /\ Cardinality(Owing(i)') = Cardinality(Owing(i)) + 1
          /\ \A j : j # i => Owing(j)' = Owing(j)
      BY <1>1, <1>2, <2>4, OwingMore
    <3>2. disk'[i].nlink = Cardinality(Named(i)') + Cardinality(Owing(i)')
      BY <1>4, <2>1, <2>4, <3>1
    <3> QED
      BY <1>4, <2>1, <3>1, <3>2 DEF Counts
  <2> QED
    BY <1>6, <2>2, <2>3, <2>4
<1>7. ASSUME NEW n \in Names, dir[n] = 0, dir' = [dir EXCEPT ![n] = i], disk' = disk,
             Owes(p), ~Owes(p)'
      PROVE  Counts'
  <2>1. /\ Cardinality(Owing(i)') = Cardinality(Owing(i)) - 1
        /\ \A j : j # i => Owing(j)' = Owing(j)
    BY <1>1, <1>2, <1>7, OwingLess
  <2>2. /\ Cardinality(Named(i)') = Cardinality(Named(i)) + 1
        /\ \A j \in Inums : j # i => Named(j)' = Named(j)
    BY <1>3, <1>7, NameAdded
  <2>3. disk'[i].nlink = Cardinality(Named(i)') + Cardinality(Owing(i)')
    BY <1>4, <1>7, <2>1, <2>2
  <2> QED
    BY <1>4, <1>7, <2>1, <2>2, <2>3 DEF Counts
<1>8. ASSUME NEW n \in Names, dir[n] = i, dir' = [dir EXCEPT ![n] = 0], disk' = disk,
             ~Owes(p), Owes(p)'
      PROVE  Counts'
  <2>1. /\ Cardinality(Owing(i)') = Cardinality(Owing(i)) + 1
        /\ \A j : j # i => Owing(j)' = Owing(j)
    BY <1>1, <1>2, <1>8, OwingMore
  <2>2. /\ Cardinality(Named(i)') = Cardinality(Named(i)) - 1
        /\ \A j \in Inums : j # i => Named(j)' = Named(j)
    BY <1>3, <1>8, NameErased
  <2>3. disk'[i].nlink = Cardinality(Named(i)') + Cardinality(Owing(i)')
    BY <1>4, <1>8, <2>1, <2>2
  <2> QED
    BY <1>4, <1>8, <2>1, <2>2, <2>3 DEF Counts
<1>9. CASE \/ Ilock(p) \/ Opened(p) \/ Close(p) \/ LinkFails(p) \/ IputLast(p) \/ IputInvalidate(p)
  <2>1. UNCHANGED <<dir, disk>> /\ (Owes(p)' <=> Owes(p))
    BY <1>9 DEF Ilock, Opened, Close, LinkFails, IputLast, IputInvalidate, Goto, Owes, Types
  <2> QED
    BY <1>5, <2>1
<1>10. CASE Load(p)
  <2>1. UNCHANGED <<dir, disk>> /\ (Owes(p)' <=> Owes(p))
    <3>1. /\ pc' = [pc EXCEPT ![p] = op[p]] /\ op' = op /\ pc[p] = "load"
          /\ UNCHANGED <<dir, disk>>
      BY <1>10, LoadFinds DEF Load
    <3> QED
      BY <3>1 DEF Owes, Types
  <2> QED
    BY <1>5, <2>1
<1>11. CASE CreateCount(p)
  <2>1. Creating(p, i)
    BY <1>2, <1>11 DEF CreateCount, Creating, MakesName, Calls
  <2>2. disk[i].nlink = 0
    <3>1. pc[p] = "create"
      BY <1>11 DEF CreateCount
    <3>2. disk[i] = [type |-> 1, nlink |-> IF pc[p] = "newlink" THEN 1 ELSE 0]
      BY <2>1 DEF Content, New
    <3> QED
      BY <3>1, <3>2
  <2>3. [type |-> 1, nlink |-> 1] \in Record /\ [type |-> 1, nlink |-> 1].nlink = disk[i].nlink + 1
    BY <2>2 DEF Record
  <2>4. Iupdate(e[p], [type |-> 1, nlink |-> 1]) /\ dir' = dir /\ ~Owes(p) /\ Owes(p)'
    BY <1>11 DEF CreateCount, Goto, Owes, Types
  <2> QED
    BY <1>6, <2>3, <2>4
<1>12. CASE CreateFails(p)
  <2>1. Creating(p, i)
    BY <1>2, <1>12 DEF CreateFails, Creating, MakesName, Calls
  <2>2. disk[i].nlink = 1
    <3>1. pc[p] = "newlink"
      BY <1>12 DEF CreateFails
    <3>2. disk[i] = [type |-> 1, nlink |-> IF pc[p] = "newlink" THEN 1 ELSE 0]
      BY <2>1 DEF Content, New
    <3> QED
      BY <3>1, <3>2
  <2>3. [type |-> 1, nlink |-> 0] \in Record /\ [type |-> 1, nlink |-> 0].nlink = disk[i].nlink - 1
    BY <2>2 DEF Record
  <2>4. Iupdate(e[p], [type |-> 1, nlink |-> 0]) /\ dir' = dir /\ Owes(p) /\ ~Owes(p)'
    BY <1>12 DEF CreateFails, Goto, Owes, Types
  <2> QED
    BY <1>6, <2>3, <2>4
<1>13. CASE Uncount(p) \/ LinkCount(p)
  <2>1. pc[p] \in (Loaded \ {"invalidate"})
    BY <1>13 DEF Uncount, LinkCount, Loaded, Locking
  <2>2. mem[e[p]] \in Record /\ mem[e[p]] = disk[i]
    BY <1>2, <1>3, <2>1, Current DEF Types
  <2>3. /\ Nlink(e[p], 1) \in Record /\ Nlink(e[p], -1) \in Record
        /\ Nlink(e[p], 1).nlink = disk[i].nlink + 1 /\ Nlink(e[p], -1).nlink = disk[i].nlink - 1
    BY <2>2 DEF Nlink, Record
  <2>4. CASE Uncount(p)
    <3>1. Iupdate(e[p], Nlink(e[p], -1)) /\ dir' = dir /\ Owes(p) /\ ~Owes(p)'
      BY <2>4 DEF Uncount, Goto, Owes, Types
    <3> QED
      BY <1>6, <2>3, <3>1
  <2>5. CASE LinkCount(p)
    <3>1. Iupdate(e[p], Nlink(e[p], 1)) /\ dir' = dir /\ ~Owes(p) /\ Owes(p)'
      BY <2>5 DEF LinkCount, Goto, Owes, Types
    <3> QED
      BY <1>6, <2>3, <3>1
  <2> QED
    BY <1>13, <2>4, <2>5
<1>14. CASE IputFree(p)
  <2>1. pc[p] = "trunc" /\ pc[p] \in (Loaded \ {"invalidate"})
    BY <1>14 DEF IputFree, Loaded, Locking
  <2>2. disk[i].nlink = 0
    BY <1>2, <2>1, Current DEF Content, Last
  <2>3. Free \in Record /\ Free.nlink = disk[i].nlink
    BY <2>2 DEF Free, Record
  <2>4. Iupdate(e[p], Free) /\ dir' = dir /\ (Owes(p)' <=> Owes(p))
    BY <1>14 DEF IputFree, Goto, Owes, Types
  <2> QED
    BY <1>6, <2>3, <2>4
<1>15. CASE CreateLink(p)
  <2>1. Creating(p, i) /\ name[p] \in Names
    BY <1>2, <1>15 DEF CreateLink, Creating, MakesName, Calls
  <2>2. dir[name[p]] = 0
    BY <2>1 DEF Content, New
  <2>3. dir' = [dir EXCEPT ![name[p]] = i] /\ disk' = disk /\ Owes(p) /\ ~Owes(p)'
    BY <1>2, <1>15 DEF CreateLink, Goto, Owes, Types
  <2>4. PICK n \in Names : n = name[p]
    BY <2>1
  <2> QED
    BY <1>7, <2>2, <2>3, <2>4
<1>16. CASE UnlinkErase(p)
  <2>1. TakesName(p) /\ name[p] \in Names
    BY <1>16 DEF UnlinkErase, TakesName, Calls
  <2>2. dir[name[p]] = i
    BY <1>2, <2>1 DEF Content, Taken
  <2>3. pc'[p] # "panic"
    BY StaysNoPanic DEF NoPanic
  <2>4. dir' = [dir EXCEPT ![name[p]] = 0] /\ disk' = disk /\ ~Owes(p) /\ Owes(p)'
    BY <1>16, <2>3 DEF UnlinkErase, Goto, Owes, Types
  <2>5. PICK n \in Names : n = name[p]
    BY <2>1
  <2> QED
    BY <1>8, <2>2, <2>4, <2>5
<1>17. ASSUME NEW n \in Names, LinkName(p, n)
       PROVE  Counts'
  <2>1. dir[n] = 0 /\ dir' = [dir EXCEPT ![n] = i] /\ disk' = disk /\ Owes(p) /\ ~Owes(p)'
    BY <1>2, <1>17 DEF LinkName, Goto, Owes, Types
  <2> QED
    BY <1>7, <2>1
<1> QED
  BY <1>9, <1>10, <1>11, <1>12, <1>13, <1>14, <1>15, <1>16, <1>17 DEF Stays

LEMMA StaysContent ==
    ASSUME InodesAssumption, Inv, NEW p \in Procs, Stays(p)
    PROVE  Content'
BY StaysNoPanic, StaysCached, StaysValid, StaysAlive, StaysCounts, StaysNew, StaysLast, StaysTaken
   DEF Content

LEMMA GetsContent ==
    ASSUME InodesAssumption, Inv, NEW p \in Procs, NEW i \in Inums, NEW x \in Entries, Gets(p, i, x)
    PROVE  Content'
<1> USE DEF Inv, Table
<1>1. /\ e' = [e EXCEPT ![p] = x] /\ ref' = [ref EXCEPT ![x] = @ + 1]
      /\ pc' = [pc EXCEPT ![p] = "ilock"] /\ UNCHANGED <<mem, lock, disk, dir>>
      /\ pc[p] \in {"idle", "iget"} /\ e'[p] = x /\ inum'[x] = i /\ pc'[p] = "ilock"
  BY DEF Gets, Got, Types
<1>2. /\ ~Holds(p) /\ Holds(p)' /\ \A q \in Procs \ {p} : Holds(q)' <=> Holds(q)
      /\ Users(x)' = Users(x) \cup {p} /\ \A y \in Entries \ {x} : Users(y)' = Users(y)
  BY GetsUsers
<1>3. \A y \in Entries : ref[y] > 0 => inum'[y] = inum[y] /\ (valid'[y] <=> valid[y])
  BY DEF Gets, Got, Types
<1>4. \A q \in Procs \ {p} : /\ pc'[q] = pc[q] /\ op'[q] = op[q] /\ e'[q] = e[q]
                             /\ name'[q] = name[q] /\ fresh'[q] = fresh[q]
  BY <1>1 DEF Gets, Types
<1>5. \A q \in Procs \ {p} : Holds(q) => /\ e[q] \in Entries /\ inum'[e'[q]] = inum[e[q]]
                                         /\ valid'[e'[q]] <=> valid[e[q]]
  BY <1>3, <1>4, Facts
<1>6. \A q \in Procs \ {p} : /\ Gone(q)' <=> Gone(q)
                             /\ MakesName(q)' <=> MakesName(q)
                             /\ TakesName(q)' <=> TakesName(q)
                             /\ Owes(q)' <=> Owes(q)
  BY <1>4 DEF Gone, MakesName, TakesName, Owes
<1>7. \A q \in Procs \ {p}, j \in Inums : /\ At(q, j)' <=> At(q, j)
                                          /\ Creating(q, j)' <=> Creating(q, j)
  <2>1. \A q \in Procs \ {p} : MakesName(q) /\ pc[q] # "iget" => Holds(q)
    BY DEF MakesName, Holds
  <2>2. \A q \in Procs \ {p}, j \in Inums : At(q, j)' <=> At(q, j)
    BY <1>2, <1>5 DEF At
  <2> QED
    BY <1>4, <1>5, <1>6, <2>1, <2>2 DEF Creating
<1>8. \/ \E n \in Names : dir[n] = i /\ dlock = None /\ pc[p] = "idle"
      \/ Creating(p, i) /\ pc[p] = "iget"
  BY DEF Gets, Creating, MakesName
<1>9. /\ disk[i].type # 0 /\ ~Gone(p)' /\ ~Owes(p)' /\ ~Owes(p)
      /\ \A q \in Procs \ {p} : ~MakesName(q)
  <2>1. disk[i].type # 0
    BY <1>8 DEF Content, Alive
  <2>2. ~Gone(p)' /\ ~Owes(p)
    BY <1>1 DEF Gone, Owes
  <2>3. ~Owes(p)'
    BY <1>1 DEF Owes, Gets, Types, Calls
  <2>4. \A q \in Procs \ {p} : ~MakesName(q)
    BY <1>8, Facts DEF Creating
  <2> QED
    BY <2>1, <2>2, <2>3, <2>4
<1>10. NoPanic'
  BY <1>1, <1>4 DEF NoPanic, Content
<1>11. Cached'
  <2> SUFFICES ASSUME NEW y \in Entries, ref'[y] > 0, valid'[y],
                      \A q \in Users(y)' : pc'[q] # "invalidate"
               PROVE  mem'[y] = disk'[inum'[y]] /\ disk'[inum'[y]].type = 1
    BY DEF Cached
  <2>1. ref[y] > 0
    BY DEF Gets, Got, Types
  <2>2. \A q \in Users(y) : pc[q] # "invalidate"
    BY <1>1, <1>2, <1>4 DEF Users
  <2> QED
    BY <1>1, <1>3, <2>1, <2>2 DEF Content, Cached
<1>12. Valid'
  <2> SUFFICES ASSUME NEW q \in Procs, pc'[q] \in Loaded
               PROVE  valid'[e'[q]]
    BY DEF Valid
  <2>1. q # p
    BY <1>1 DEF Loaded, Locking
  <2>2. pc[q] \in Loaded /\ Holds(q)
    BY <1>4, <2>1 DEF Loaded, Locking, Holds
  <2> QED
    BY <1>5, <2>1, <2>2 DEF Content, Valid
<1>13. Alive'
  <2> SUFFICES ASSUME NEW j \in Inums, disk'[j].type = 0
               PROVE  /\ disk'[j] = Free /\ \A n \in Names : dir'[n] # j
                      /\ \A q \in Procs : (At(q, j)' => Gone(q)') /\ ~Creating(q, j)'
    BY DEF Alive
  <2>1. /\ disk[j] = Free /\ \A n \in Names : dir[n] # j
        /\ \A q \in Procs : (At(q, j) => Gone(q)) /\ ~Creating(q, j)
    BY <1>1 DEF Content, Alive
  <2>2. j # i
    BY <1>1, <1>9
  <2>3. ~At(p, j)' /\ ~Creating(p, j)'
    BY <1>1, <2>2 DEF At, Creating
  <2> QED
    BY <1>1, <1>6, <1>7, <2>1, <2>3
<1>14. Counts'
  <2>1. \A j \in Inums : Owing(j)' = Owing(j)
    <3>1. \A q \in Procs \ {p} : Owes(q) => Holds(q)
      BY DEF Owes, Holds
    <3>2. \A q \in Procs, j \in Inums : (Owes(q)' /\ inum'[e'[q]] = j) <=> (Owes(q) /\ inum[e[q]] = j)
      BY <1>5, <1>6, <1>9, <3>1
    <3> QED
      BY <3>2 DEF Owing
  <2>2. \A j : Named(j)' = Named(j)
    BY <1>1 DEF Named
  <2> QED
    BY <1>1, <2>1, <2>2 DEF Content, Counts
<1>15. New'
  <2> SUFFICES ASSUME NEW q \in Procs, NEW j \in Inums, Creating(q, j)'
               PROVE  /\ disk'[j] = [type |-> 1, nlink |-> IF pc'[q] = "newlink" THEN 1 ELSE 0]
                      /\ dir'[name'[q]] = 0
                      /\ \A r \in Procs : r # q /\ At(r, j)' => Gone(r)'
    BY DEF New
  <2>1. q = p
    BY <1>7, <1>9 DEF Creating
  <2>2. j = i
    BY <1>1, <2>1 DEF Creating
  <2>3. op'[p] = "create"
    BY <1>1, <2>1 DEF Creating, MakesName
  <2>4. Creating(p, i) /\ pc[p] = "iget" /\ name' = name
    BY <2>3 DEF Gets, Types, Creating, MakesName
  <2> QED
    BY <1>1, <1>6, <1>7, <2>1, <2>2, <2>4 DEF Content, New
<1>16. Last'
  <2> SUFFICES ASSUME NEW q \in Procs, pc'[q] = "trunc"
               PROVE  ref'[e'[q]] = 1 /\ mem'[e'[q]].nlink = 0
    BY DEF Last
  <2>1. q # p /\ pc[q] = "trunc" /\ e'[q] = e[q] /\ Holds(q)
    BY <1>1, <1>4 DEF Holds
  <2>2. ref[e[q]] = 1 /\ mem[e[q]].nlink = 0 /\ e[q] \in Entries /\ inum[e[q]] \in Inums
    BY <2>1, Facts DEF Content, Last
  <2>3. mem[e[q]] = disk[inum[e[q]]]
    BY <2>1, Current DEF Loaded, Locking
  <2>4. inum[e[q]] # i
    <3> SUFFICES ASSUME inum[e[q]] = i
                 PROVE  FALSE
      OBVIOUS
    <3>1. \A n \in Names : dir[n] # i
      BY <2>2, <2>3, Unnamed
    <3>2. At(q, i) /\ ~Gone(q)
      BY <2>1 DEF At, Gone
    <3> QED
      BY <1>8, <2>1, <3>1, <3>2 DEF Content, New
  <2>5. e[q] # x
    BY <1>3, <1>1, <2>2, <2>4
  <2> QED
    BY <1>1, <2>1, <2>2, <2>5 DEF Types
<1>17. Taken'
  <2> SUFFICES ASSUME NEW q \in Procs, TakesName(q)'
               PROVE  dir'[name'[q]] = inum'[e'[q]]
    BY DEF Taken
  <2>1. CASE q = p
    <3>1. op'[p] = "unlink"
      BY <2>1 DEF TakesName
    <3>2. dir[name'[p]] = i
      BY <1>1, <3>1 DEF Gets, Types, Calls
    <3> QED
      BY <1>1, <2>1, <3>2
  <2>2. CASE q # p
    <3>1. TakesName(q) /\ Holds(q)
      BY <1>6, <2>2 DEF TakesName, Holds
    <3> QED
      BY <1>1, <1>4, <1>5, <2>2, <3>1 DEF Content, Taken
  <2> QED
    BY <2>1, <2>2
<1> QED
  BY <1>10, <1>11, <1>12, <1>13, <1>14, <1>15, <1>16, <1>17 DEF Content

LEMMA IallocContent ==
    ASSUME InodesAssumption, Inv, NEW p \in Procs, NEW n \in Names, NEW i \in Inums, Ialloc(p, n, i)
    PROVE  Content'
<1> USE DEF Inv, Table
<1>1. /\ UNCHANGED <<inum, ref, valid, mem, lock, dir, e>> /\ pc[p] = "idle" /\ dlock = None
      /\ dir[n] = 0 /\ disk[i].type = 0
      /\ disk' = [disk EXCEPT ![i] = [type |-> 1, nlink |-> 0]]
      /\ pc'[p] = "iget" /\ fresh'[p] = i /\ name'[p] = n /\ op'[p] = "create"
  BY DEF Ialloc, Goto, Types
<1>2. \A q \in Procs \ {p} : /\ pc'[q] = pc[q] /\ op'[q] = op[q]
                             /\ name'[q] = name[q] /\ fresh'[q] = fresh[q]
  BY DEF Ialloc, Goto, Types
<1>3. /\ disk[i] = Free /\ \A m \in Names : dir[m] # i
      /\ \A q \in Procs : (At(q, i) => Gone(q)) /\ ~Creating(q, i)
  BY <1>1 DEF Content, Alive
<1>4. /\ ~Holds(p) /\ ~Holds(p)' /\ \A q \in Procs \ {p} : Holds(q)' <=> Holds(q)
      /\ \A y : Users(y)' = Users(y)
  <2>1. ~Holds(p) /\ ~Holds(p)' /\ \A q \in Procs \ {p} : Holds(q)' <=> Holds(q)
    BY <1>1, <1>2 DEF Holds
  <2> QED
    BY <1>1, <2>1 DEF Users
<1>5. \A q \in Procs \ {p} : /\ Gone(q)' <=> Gone(q)
                             /\ TakesName(q)' <=> TakesName(q)
                             /\ Owes(q)' <=> Owes(q)
                             /\ ~MakesName(q)'
  <2>1. \A q \in Procs \ {p} : /\ Gone(q)' <=> Gone(q)
                               /\ TakesName(q)' <=> TakesName(q)
                               /\ Owes(q)' <=> Owes(q)
                               /\ MakesName(q)' <=> MakesName(q)
    BY <1>2 DEF Gone, TakesName, MakesName, Owes
  <2> QED
    BY <1>1, <2>1, Facts
<1>6. ~Owes(p) /\ ~Owes(p)' /\ ~TakesName(p)' /\ ~Gone(p)
  BY <1>1 DEF Owes, TakesName, Gone
<1>7. \A q \in Procs, j \in Inums : At(q, j)' <=> At(q, j)
  BY <1>1, <1>4 DEF At
<1>8. disk'[i] = [type |-> 1, nlink |-> 0] /\ \A j \in Inums \ {i} : disk'[j] = disk[j]
  BY <1>1 DEF Types
<1>9. NoPanic'
  BY <1>1, <1>2 DEF NoPanic, Content
<1>10. Cached'
  <2> SUFFICES ASSUME NEW y \in Entries, ref'[y] > 0, valid'[y],
                      \A q \in Users(y)' : pc'[q] # "invalidate"
               PROVE  mem'[y] = disk'[inum'[y]] /\ disk'[inum'[y]].type = 1
    BY DEF Cached
  <2>1. \A q \in Users(y) : pc[q] # "invalidate"
    BY <1>1, <1>2, <1>4 DEF Users
  <2>2. mem[y] = disk[inum[y]] /\ disk[inum[y]].type = 1 /\ inum[y] \in Inums
    BY <1>1, <2>1 DEF Content, Cached, Unique
  <2>3. inum[y] # i
    BY <1>1, <2>2
  <2> QED
    BY <1>1, <1>8, <2>2, <2>3
<1>11. Valid'
  BY <1>1, <1>2 DEF Content, Valid, Loaded, Locking
<1>12. Alive'
  <2> SUFFICES ASSUME NEW j \in Inums, disk'[j].type = 0
               PROVE  /\ disk'[j] = Free /\ \A m \in Names : dir'[m] # j
                      /\ \A q \in Procs : (At(q, j)' => Gone(q)') /\ ~Creating(q, j)'
    BY DEF Alive
  <2>1. j # i /\ disk'[j] = disk[j]
    BY <1>8
  <2>2. /\ disk[j] = Free /\ \A m \in Names : dir[m] # j
        /\ \A q \in Procs : (At(q, j) => Gone(q)) /\ ~Creating(q, j)
    BY <2>1 DEF Content, Alive
  <2>3. \A q \in Procs : ~Creating(q, j)'
    BY <1>1, <1>5, <2>1 DEF Creating
  <2>4. ~At(p, j)
    BY <1>4 DEF At
  <2> QED
    BY <1>1, <1>5, <1>7, <2>1, <2>2, <2>3, <2>4
<1>13. Counts'
  <2>1. \A j : Owing(j)' = Owing(j) /\ Named(j)' = Named(j)
    BY <1>1, <1>5, <1>6 DEF Owing, Named
  <2>2. disk[i].nlink = 0 /\ disk'[i].nlink = 0
    BY <1>3, <1>8 DEF Free
  <2> QED
    BY <1>8, <2>1, <2>2 DEF Content, Counts
<1>14. New'
  <2> SUFFICES ASSUME NEW q \in Procs, NEW j \in Inums, Creating(q, j)'
               PROVE  /\ disk'[j] = [type |-> 1, nlink |-> IF pc'[q] = "newlink" THEN 1 ELSE 0]
                      /\ dir'[name'[q]] = 0
                      /\ \A r \in Procs : r # q /\ At(r, j)' => Gone(r)'
    BY DEF New
  <2>1. q = p /\ j = i
    BY <1>1, <1>5 DEF Creating
  <2> QED
    BY <1>1, <1>3, <1>5, <1>7, <1>8, <2>1
<1>15. Last'
  BY <1>1, <1>2 DEF Content, Last
<1>16. Taken'
  BY <1>1, <1>2, <1>5, <1>6 DEF Content, Taken
<1> QED
  BY <1>9, <1>10, <1>11, <1>12, <1>13, <1>14, <1>15, <1>16 DEF Content

LEMMA DropContent ==
    ASSUME InodesAssumption, Inv, NEW p \in Procs, IputDrop(p)
    PROVE  Content'
<1> USE DEF Inv, Table
<1>1. PICK x \in Entries : x = e[p]
  BY DEF Types
<1>2. /\ UNCHANGED <<inum, valid, mem, lock, disk, dir, fresh>> /\ pc[p] \in {"iput", "unref"}
      /\ ref' = [ref EXCEPT ![x] = @ - 1] /\ pc'[p] = "idle" /\ op'[p] = "none"
  BY <1>1 DEF IputDrop, Done, Goto, Types
<1>3. \A q \in Procs \ {p} : /\ pc'[q] = pc[q] /\ op'[q] = op[q]
                             /\ name'[q] = name[q] /\ e'[q] = e[q]
  BY DEF IputDrop, Done, Goto, Types
<1>4. /\ Holds(p) /\ ~Holds(p)' /\ \A q \in Procs \ {p} : Holds(q)' <=> Holds(q)
      /\ p \in Users(x) /\ Users(x)' = Users(x) \ {p}
      /\ \A y \in Entries \ {x} : Users(y)' = Users(y)
  BY <1>1, DropUsers
<1>5. \A q \in Procs \ {p} : /\ Gone(q)' <=> Gone(q)
                             /\ TakesName(q)' <=> TakesName(q)
                             /\ MakesName(q)' <=> MakesName(q)
                             /\ Owes(q)' <=> Owes(q)
  BY <1>3 DEF Gone, TakesName, MakesName, Owes
<1>6. ~Owes(p) /\ ~Owes(p)' /\ ~TakesName(p)' /\ ~MakesName(p)'
  BY <1>2 DEF Owes, TakesName, MakesName
<1>7. \A q \in Procs \ {p}, j \in Inums : /\ At(q, j)' <=> At(q, j)
                                          /\ Creating(q, j)' <=> Creating(q, j)
  BY <1>2, <1>3, <1>4, <1>5 DEF At, Creating
<1>8. \A j \in Inums : ~At(p, j)' /\ ~Creating(p, j)'
  BY <1>4, <1>6 DEF At, Creating
<1>9. NoPanic'
  BY <1>2, <1>3 DEF NoPanic, Content
<1>10. Cached'
  <2> SUFFICES ASSUME NEW y \in Entries, ref'[y] > 0, valid'[y],
                      \A q \in Users(y)' : pc'[q] # "invalidate"
               PROVE  mem'[y] = disk'[inum'[y]] /\ disk'[inum'[y]].type = 1
    BY DEF Cached
  <2>1. ref[y] > 0
    BY <1>2 DEF Types
  <2>2. \A q \in Users(y) : pc[q] # "invalidate"
    BY <1>2, <1>3, <1>4 DEF Users
  <2> QED
    BY <1>2, <2>1, <2>2 DEF Content, Cached
<1>11. Valid'
  BY <1>2, <1>3 DEF Content, Valid, Loaded, Locking
<1>12. Alive'
  <2> SUFFICES ASSUME NEW j \in Inums, disk'[j].type = 0
               PROVE  /\ disk'[j] = Free /\ \A m \in Names : dir'[m] # j
                      /\ \A q \in Procs : (At(q, j)' => Gone(q)') /\ ~Creating(q, j)'
    BY DEF Alive
  <2>1. /\ disk[j] = Free /\ \A m \in Names : dir[m] # j
        /\ \A q \in Procs : (At(q, j) => Gone(q)) /\ ~Creating(q, j)
    BY <1>2 DEF Content, Alive
  <2> QED
    BY <1>2, <1>5, <1>7, <1>8, <2>1
<1>13. Counts'
  <2>1. \A j : Owing(j)' = Owing(j) /\ Named(j)' = Named(j)
    BY <1>2, <1>3, <1>5, <1>6 DEF Owing, Named
  <2> QED
    BY <1>2, <2>1 DEF Content, Counts
<1>14. New'
  <2> SUFFICES ASSUME NEW q \in Procs, NEW j \in Inums, Creating(q, j)'
               PROVE  /\ disk'[j] = [type |-> 1, nlink |-> IF pc'[q] = "newlink" THEN 1 ELSE 0]
                      /\ dir'[name'[q]] = 0
                      /\ \A r \in Procs : r # q /\ At(r, j)' => Gone(r)'
    BY DEF New
  <2>1. q # p /\ Creating(q, j)
    BY <1>7, <1>8
  <2>2. /\ disk[j] = [type |-> 1, nlink |-> IF pc[q] = "newlink" THEN 1 ELSE 0]
        /\ dir[name[q]] = 0 /\ \A r \in Procs : r # q /\ At(r, j) => Gone(r)
    BY <2>1 DEF Content, New
  <2>3. \A r \in Procs : r # q /\ At(r, j)' => Gone(r)'
    BY <1>5, <1>7, <1>8, <2>2
  <2> QED
    BY <1>2, <1>3, <2>1, <2>2, <2>3
<1>15. Last'
  <2> SUFFICES ASSUME NEW q \in Procs, pc'[q] = "trunc"
               PROVE  ref'[e'[q]] = 1 /\ mem'[e'[q]].nlink = 0
    BY DEF Last
  <2>1. q # p /\ pc[q] = "trunc" /\ e'[q] = e[q] /\ e[q] \in Entries
    BY <1>2, <1>3 DEF Types
  <2>2. ref[e[q]] = 1 /\ mem[e[q]].nlink = 0
    BY <2>1 DEF Content, Last
  <2>3. e[q] # x
    <3>1. e[q] = x => q \in Users(x)
      BY <2>1 DEF Users, Holds
    <3> QED
      BY <1>4, <2>1, <2>2, <3>1, Facts
  <2> QED
    BY <1>2, <2>1, <2>2, <2>3 DEF Types
<1>16. Taken'
  BY <1>2, <1>3, <1>5, <1>6 DEF Content, Taken
<1> QED
  BY <1>9, <1>10, <1>11, <1>12, <1>13, <1>14, <1>15, <1>16 DEF Content

LEMMA ContentInit ==
    ASSUME InodesAssumption, Init
    PROVE  Content
<1> USE DEF Init
<1>1. NoPanic /\ Cached /\ Valid /\ New /\ Last /\ Taken
  BY DEF NoPanic, Cached, Valid, New, Creating, MakesName, TakesName, Last, Taken, Loaded, Locking
<1>2. Alive
  <2>1. 0 \notin Inums
    BY DEF InodesAssumption
  <2>2. \A p \in Procs, i \in Inums : ~At(p, i) /\ ~Creating(p, i)
    BY DEF At, Holds, Creating, MakesName
  <2>3. \A i \in Inums : disk[i] = Free /\ \A n \in Names : dir[n] # i
    BY <2>1
  <2> QED
    BY <2>2, <2>3 DEF Alive
<1>3. Counts
  <2>1. \A i \in Inums : Named(i) = {} /\ Owing(i) = {}
    BY DEF Named, Owing, Owes, InodesAssumption
  <2>2. \A i \in Inums : /\ Cardinality(Named(i)) = 0 /\ Cardinality(Owing(i)) = 0
                         /\ disk[i].nlink = 0
    BY <2>1, FS_EmptySet DEF Free
  <2> QED
    BY ONLY <2>2 DEF Counts
<1> QED
  BY <1>1, <1>2, <1>3 DEF Content

LEMMA SameContent ==
    ASSUME Content, UNCHANGED vars
    PROVE  Content'
<1> USE DEF Content, vars
<1>1. NoPanic' /\ Valid' /\ Last'
  BY DEF NoPanic, Valid, Last
<1>2. Cached'
  BY DEF Cached, Users, Holds
<1>3. Alive' /\ New'
  BY DEF Alive, New, At, Gone, Creating, MakesName, Holds
<1>4. Counts'
  BY DEF Counts, Named, Owing, Owes
<1>5. Taken'
  BY DEF Taken, TakesName
<1> QED
  BY <1>1, <1>2, <1>3, <1>4, <1>5

LEMMA Invariant ==
    ASSUME InodesAssumption
    PROVE  Spec => []Inv
<1>1. Init => Inv
  BY TableInit, ContentInit DEF Inv
<1>2. Inv /\ [Next]_vars => Inv'
  <2> SUFFICES ASSUME Inv, [Next]_vars
               PROVE  Inv'
    OBVIOUS
  <2>1. Table'
    BY TableNext DEF Inv
  <2>2. Content'
    <3>1. CASE UNCHANGED vars
      BY <3>1, SameContent DEF Inv
    <3>2. CASE Next
      BY <3>2, Kinds, StaysContent, GetsContent, IallocContent, DropContent, SameContent DEF Inv
    <3> QED
      BY <3>1, <3>2
  <2> QED
    BY <2>1, <2>2 DEF Inv
<1> QED
  BY <1>1, <1>2, PTL DEF Spec

\* iget(), ilock() and iput() keep one entry for each inode in use with a
\* reference for each user, an unlocked valid entry agrees with the disk, and
\* the last iput() never sleeps with itable.lock, also when the inode is freed
\* and allocated again while a reference is left.
THEOREM InodeTableIsExact ==
    ASSUME InodesAssumption
    PROVE  Spec => []TableExact
<1>1. Inv => TableExact
  <2> SUFFICES ASSUME Inv
               PROVE  TableExact
    OBVIOUS
  <2> USE DEF Inv, Table
  <2>1. Coherent
    <3> SUFFICES ASSUME NEW x \in Entries, ref[x] > 0, valid[x], lock[x] = None
                 PROVE  mem[x] = disk[inum[x]]
      BY DEF Coherent
    <3>1. \A p \in Users(x) : pc[p] # "invalidate"
      BY Facts DEF Users, Locks, Locking
    <3> QED
      BY <3>1 DEF Content, Cached
  <2>2. IputNeverBlocks
    <3> SUFFICES ASSUME NEW p \in Procs, pc[p] = "iput", LastPut(e[p]), lock[e[p]] # None
                 PROVE  FALSE
      BY DEF IputNeverBlocks
    <3>1. e[p] \in Entries /\ ref[e[p]] = 1 /\ p \in Users(e[p])
      BY DEF LastPut, Types, Users, Holds
    <3>2. PICK q \in Procs : q = lock[e[p]]
      BY <3>1 DEF Types
    <3>3. pc[q] \in Locking /\ q \in Users(e[p])
      BY <3>1, <3>2 DEF Locks, Users, Holds, Locking
    <3>4. q = p
      BY <3>1, <3>3, Facts
    <3> QED
      BY <3>3, <3>4 DEF Locking
  <2> QED
    BY <2>1, <2>2 DEF TableExact, Refs, Unique
<1> QED
  BY <1>1, Invariant, PTL

\* However create(), sys_link() and sys_unlink() interleave and fail, link counts
\* are the numbers of names between operations, a file with a name or open is not
\* freed, and neither "ilock: no type" nor "unlink: nlink < 1" is reached.
THEOREM LinkCountsAreExact ==
    ASSUME InodesAssumption
    PROVE  Spec => []LinksExact
<1>1. Inv => LinksExact
  <2> SUFFICES ASSUME Inv
               PROVE  LinksExact
    OBVIOUS
  <2> USE DEF Inv, Table
  <2>1. \A n \in Names : dir[n] # 0 => disk[dir[n]].type # 0
    BY DEF Content, Alive, Types
  <2>2. \A p \in Procs : pc[p] = "opened" => disk[inum[e[p]]].type # 0
    <3> SUFFICES ASSUME NEW p \in Procs, pc[p] = "opened"
                 PROVE  disk[inum[e[p]]].type # 0
      OBVIOUS
    <3>1. Holds(p) /\ ~Gone(p)
      BY DEF Holds, Gone
    <3>2. inum[e[p]] \in Inums /\ At(p, inum[e[p]])
      BY <3>1, Facts DEF At
    <3> QED
      BY <3>1, <3>2 DEF Content, Alive
  <2>3. ASSUME Quiet, NEW i \in Inums
        PROVE  disk[i].nlink = Cardinality({n \in Names : dir[n] = i})
    <3>1. Owing(i) = {}
      BY <2>3 DEF Quiet, Owing, Owes
    <3>2. Cardinality(Owing(i)) = 0 /\ Cardinality(Named(i)) \in Nat
      BY <3>1, FS_EmptySet, Numbers
    <3>3. disk[i].nlink = Cardinality(Named(i))
      BY <3>2 DEF Content, Counts
    <3> QED
      BY <3>3 DEF Named
  <2> QED
    BY <2>1, <2>2, <2>3 DEF LinksExact, NotFreedInUse, Content
<1> QED
  BY <1>1, Invariant, PTL
=============================================================================
