------------------------------- MODULE Names -------------------------------
(***************************************************************************)
(* Directories and paths (Assignment3/initial_code/kernel: dirlookup,      *)
(* dirlink, skipelem and namex of fs.c; sys_link, sys_unlink, create,      *)
(* sys_mkdir, sys_mknod and sys_chdir of sysfile.c).                       *)
(*                                                                         *)
(* A path is a sequence of names and slashes.  What a call does between    *)
(* ilock() and iunlock() of an inode is one step; a lock that stays held   *)
(* to the next step is in lock.  An inode in memory and on disk is one     *)
(* record here (module Inodes tells them apart), and files are empty.      *)
(***************************************************************************)
EXTENDS Integers, Sequences, FiniteSets, FiniteSetsExt, SequencesExt

CONSTANTS Procs, Inums,
          ROOTINO,
          Paths,       \* what programs pass to the system calls
          MaxEntries,  \* entries of a directory for which there is room on the disk
          Careful      \* TRUE: no directory is removed while a process is in it

NamesAssumption == /\ ROOTINO \in Inums /\ Inums \subseteq Nat \ {0}
                   /\ MaxEntries \in Nat /\ MaxEntries > 2 /\ Careful \in BOOLEAN

None == "none"

VARIABLES inode,  \* type, nlink, ref and directory entries
          lock,   \* owner of each inode's sleep lock
          op,     \* where each process is, and the locals of its call
          cwd,
          panic

vars == <<inode, lock, op, cwd, panic>>

Free == [type |-> "free", nlink |-> 0, ref |-> 0, dents |-> <<>>]
Root == [type |-> "T_DIR", nlink |-> 1, ref |-> Cardinality(Procs),
         dents |-> <<<<".", ROOTINO>>, <<"..", ROOTINO>>>>]
\* then and else: where namex() returns to with an inode and without one.
User == [pc |-> "user", path |-> <<>>, parent |-> FALSE, then |-> "user", else |-> "user",
         ip |-> 0, name |-> None, old |-> 0, new |-> <<>>, type |-> None]

Init == /\ inode = [i \in Inums |-> IF i = ROOTINO THEN Root ELSE Free]
        /\ lock = [i \in Inums |-> None]
        /\ op = [p \in Procs |-> User]
        /\ cwd = [p \in Procs |-> ROOTINO]
        /\ panic = FALSE

-----------------------------------------------------------------------------
(* fs.c                                                                     *)
iget(n, i) == [n EXCEPT ![i].ref = @ + 1]
\* The last reference to an inode without links frees it, entries and all.
iput(n, i) == [n EXCEPT ![i] = IF @.ref = 1 /\ @.nlink = 0 THEN Free ELSE [@ EXCEPT !.ref = @ - 1]]
Nlink(n, i, d) == [n EXCEPT ![i].nlink = @ + d]
CanLock(i) == lock[i] = None
NoType(i) == inode[i].type = "free"      \* "ilock: no type"

\* The offset of a name, or 0.
Offset(n, dp, name) ==
    LET found == {k \in DOMAIN n[dp].dents : n[dp].dents[k][2] # 0 /\ n[dp].dents[k][1] = name}
    IN  IF found = {} THEN 0 ELSE Min(found)
dirlookup(n, dp, name) == LET k == Offset(n, dp, name) IN IF k = 0 THEN 0 ELSE n[dp].dents[k][2]

\* The first empty entry, or one behind the last if there is room for it.
EmptyDirent(n, dp) == Min({k \in DOMAIN n[dp].dents : n[dp].dents[k][2] = 0} \cup {Len(n[dp].dents) + 1})
CanLink(n, dp, name) == dirlookup(n, dp, name) = 0 /\ EmptyDirent(n, dp) =< MaxEntries
AddDirent(dents, k, de) == IF k > Len(dents) THEN Append(dents, de) ELSE [dents EXCEPT ![k] = de]
dirlink(n, dp, name, i) == [n EXCEPT ![dp].dents = AddDirent(@, EmptyDirent(n, dp), <<name, i>>)]

Slashes(path) == CHOOSE k \in 0 .. Len(path) : /\ \A j \in 1 .. k : path[j] = "/"
                                               /\ k = Len(path) \/ path[k + 1] # "/"
Strip(path) == SubSeq(path, Slashes(path) + 1, Len(path))
\* The next name and the path behind it, without the slashes around it; the
\* path is empty when there is no name.
skipelem(path) ==
    LET s == Strip(path)
    IN  IF s = <<>> THEN [name |-> None, rest |-> <<>>] ELSE [name |-> Head(s), rest |-> Strip(Tail(s))]

\* namex() starts at the root or at the current directory.
Namex(p, o, path) ==
    LET start == IF path # <<>> /\ path[1] = "/" THEN ROOTINO ELSE cwd[p]
    IN  /\ inode' = iget(inode, start)
        /\ op' = [op EXCEPT ![p] = [o EXCEPT !.pc = "namex", !.path = path, !.ip = start]]

Found(p, name) == op' = [op EXCEPT ![p] = [@ EXCEPT !.pc = op[p].then, !.name = name]]
NotFound(p) == op' = [op EXCEPT ![p] = IF op[p].else = "user" THEN User ELSE [@ EXCEPT !.pc = op[p].else, !.ip = 0]]
Panic == panic' = TRUE /\ UNCHANGED <<inode, lock, op, cwd>>

\* No name is left.
NamexEnd(p) ==
    /\ op[p].pc = "namex" /\ skipelem(op[p].path).name = None
    /\ IF op[p].parent THEN NotFound(p) /\ inode' = iput(inode, op[p].ip)
       ELSE Found(p, None) /\ UNCHANGED inode
    /\ UNCHANGED <<lock, cwd, panic>>

NamexStep(p) ==
    LET ip == op[p].ip
        e == skipelem(op[p].path)
        next == dirlookup(inode, ip, e.name)
    IN  /\ op[p].pc = "namex" /\ e.name # None /\ CanLock(ip)
        /\ IF NoType(ip) THEN Panic
           ELSE /\ \/ /\ inode[ip].type # "T_DIR"
                      /\ inode' = iput(inode, ip) /\ NotFound(p)
                   \/ /\ inode[ip].type = "T_DIR" /\ op[p].parent /\ e.rest = <<>>
                      /\ Found(p, e.name) /\ UNCHANGED inode
                   \/ /\ inode[ip].type = "T_DIR" /\ ~(op[p].parent /\ e.rest = <<>>)
                      /\ IF next = 0 THEN inode' = iput(inode, ip) /\ NotFound(p)
                         ELSE /\ inode' = iput(iget(inode, next), ip)
                              /\ op' = [op EXCEPT ![p].ip = next, ![p].path = e.rest]
                /\ UNCHANGED <<lock, cwd, panic>>

-----------------------------------------------------------------------------
(* sysfile.c                                                                *)
Ready(p) == op[p].pc = "user"
Return(p, n) == op' = [op EXCEPT ![p] = User] /\ inode' = n
Holding(p, i) == lock' = [lock EXCEPT ![i] = p]
Releasing(dp) == lock' = [lock EXCEPT ![dp] = None]

\* create(), for sys_open() with O_CREATE, sys_mkdir() and sys_mknod().
CreateCall(p, path, type) ==
    /\ Ready(p)
    /\ Namex(p, [User EXCEPT !.parent = TRUE, !.then = "create", !.type = type], path)
    /\ UNCHANGED <<lock, cwd, panic>>

\* The name exists, or ialloc() finds no inode or marks one.
Create(p) ==
    LET dp == op[p].ip
        ip == dirlookup(inode, dp, op[p].name)
        unused == {i \in Inums : NoType(i)}
    IN  /\ op[p].pc = "create" /\ CanLock(dp)
        /\ \/ /\ ip # 0
              /\ inode' = iput(iget(inode, ip), dp)
              /\ op' = [op EXCEPT ![p].pc = "exists", ![p].ip = ip]
              /\ UNCHANGED lock
           \/ /\ ip = 0 /\ unused = {}
              /\ Return(p, iput(inode, dp)) /\ UNCHANGED lock
           \/ /\ ip = 0 /\ unused # {}
              /\ inode' = [inode EXCEPT ![Min(unused)] = [Free EXCEPT !.type = op[p].type, !.ref = 1]]
              /\ op' = [op EXCEPT ![p].pc = "fill", ![p].old = Min(unused)]
              /\ Holding(p, dp)
        /\ UNCHANGED <<cwd, panic>>

\* The caller closes the file or gives up: iunlockput(ip).
Exists(p) ==
    /\ op[p].pc = "exists" /\ CanLock(op[p].ip)
    /\ IF NoType(op[p].ip) THEN Panic
       ELSE Return(p, iput(inode, op[p].ip)) /\ UNCHANGED <<lock, cwd, panic>>

Made(n, dp, type) == IF type = "T_DIR" THEN Nlink(n, dp, 1) ELSE n

\* Both inodes are locked to the end.  dirlink() may fail, for want of a block.
CreateFill(p) ==
    LET dp == op[p].ip
        ip == op[p].old
        linked == Nlink(inode, ip, 1)
        dots == IF op[p].type = "T_DIR" THEN dirlink(dirlink(linked, ip, ".", ip), ip, "..", dp) ELSE linked
    IN  /\ op[p].pc = "fill" /\ CanLock(ip)
        /\ \/ CanLink(inode, dp, op[p].name) /\
              Return(p, iput(iput(Made(dirlink(dots, dp, op[p].name, ip), dp, op[p].type), dp), ip))
           \/ Return(p, iput(iput(Nlink(linked, ip, -1), ip), dp))
        /\ Releasing(dp)
        /\ UNCHANGED <<cwd, panic>>

LinkCall(p, old, new) ==
    /\ Ready(p)
    /\ Namex(p, [User EXCEPT !.then = "link", !.new = new], old)
    /\ UNCHANGED <<lock, cwd, panic>>

\* Counts the link, and goes on to nameiparent(new).
Link(p) ==
    LET ip == op[p].ip
        start == IF op[p].new # <<>> /\ op[p].new[1] = "/" THEN ROOTINO ELSE cwd[p]
    IN  /\ op[p].pc = "link" /\ CanLock(ip)
        /\ IF NoType(ip) THEN Panic
           ELSE /\ IF inode[ip].type = "T_DIR" THEN Return(p, iput(inode, ip))
                   ELSE /\ inode' = iget(Nlink(inode, ip, 1), start)
                        /\ op' = [op EXCEPT ![p] = [User EXCEPT
                                     !.pc = "namex", !.path = op[p].new, !.ip = start, !.parent = TRUE,
                                     !.then = "dirlink", !.else = "bad", !.old = ip]]
                /\ UNCHANGED <<lock, cwd, panic>>

LinkEntry(p) ==
    LET dp == op[p].ip
        ip == op[p].old
    IN  /\ op[p].pc = "dirlink" /\ CanLock(dp)
        /\ \/ CanLink(inode, dp, op[p].name) /\
              Return(p, iput(iput(dirlink(inode, dp, op[p].name, ip), dp), ip))
           \/ /\ inode' = iput(inode, dp)
              /\ op' = [op EXCEPT ![p].pc = "bad", ![p].ip = 0]
        /\ UNCHANGED <<lock, cwd, panic>>

LinkBad(p) ==
    LET ip == op[p].old
    IN  /\ op[p].pc = "bad" /\ CanLock(ip)
        /\ Return(p, iput(Nlink(inode, ip, -1), ip))
        /\ UNCHANGED <<lock, cwd, panic>>

UnlinkCall(p, path) ==
    /\ Ready(p)
    /\ Namex(p, [User EXCEPT !.parent = TRUE, !.then = "unlink"], path)
    /\ UNCHANGED <<lock, cwd, panic>>

\* The call that a careful program does not make.
InUse(i) == Careful /\ inode[i].type = "T_DIR" /\ inode[i].ref > 0

Unlink(p) ==
    LET dp == op[p].ip
        ip == dirlookup(inode, dp, op[p].name)
    IN  /\ op[p].pc = "unlink" /\ CanLock(dp)
        /\ IF op[p].name \in {".", ".."} \/ ip = 0 \/ InUse(ip) THEN Return(p, iput(inode, dp)) /\ UNCHANGED lock
           ELSE /\ inode' = iget(inode, ip)
                /\ op' = [op EXCEPT ![p].pc = "erase", ![p].old = ip]
                /\ Holding(p, dp)
        /\ UNCHANGED <<cwd, panic>>

\* Mutant: every directory counts as empty.
isdiremptyAlways(dents) == TRUE
isdirempty(dents) == \A k \in DOMAIN dents : k > 2 => dents[k][2] = 0

Erased(n, dp, name) == [n EXCEPT ![dp].dents[Offset(n, dp, name)] = <<None, 0>>]

UnlinkErase(p) ==
    LET dp == op[p].ip
        ip == op[p].old
        isDir == inode[ip].type = "T_DIR"
        erased == Nlink(Erased(inode, dp, op[p].name), dp, IF isDir THEN -1 ELSE 0)
    IN  /\ op[p].pc = "erase" /\ CanLock(ip)
        /\ IF NoType(ip) \/ inode[ip].nlink < 1 THEN Panic
           ELSE /\ IF isDir /\ ~isdirempty(inode[ip].dents) THEN Return(p, iput(iput(inode, ip), dp))
                   ELSE Return(p, iput(Nlink(iput(erased, dp), ip, -1), ip))
                /\ Releasing(dp)
                /\ UNCHANGED <<cwd, panic>>

ChdirCall(p, path) ==
    /\ Ready(p)
    /\ Namex(p, [User EXCEPT !.then = "chdir"], path)
    /\ UNCHANGED <<lock, cwd, panic>>

Chdir(p) ==
    LET ip == op[p].ip
    IN  /\ op[p].pc = "chdir" /\ CanLock(ip)
        /\ IF NoType(ip) THEN Panic
           ELSE /\ IF inode[ip].type # "T_DIR" THEN Return(p, iput(inode, ip)) /\ UNCHANGED cwd
                   ELSE /\ Return(p, iput(inode, cwd[p]))
                        /\ cwd' = [cwd EXCEPT ![p] = ip]
                /\ UNCHANGED <<lock, panic>>

-----------------------------------------------------------------------------
Call(p) == \E path \in Paths :
              \/ \E type \in {"T_FILE", "T_DIR"} : CreateCall(p, path, type)
              \/ \E new \in Paths : LinkCall(p, path, new)
              \/ UnlinkCall(p, path)
              \/ ChdirCall(p, path)

Step(p) == \/ NamexEnd(p) \/ NamexStep(p) \/ Create(p) \/ Exists(p) \/ CreateFill(p)
           \/ Link(p) \/ LinkEntry(p) \/ LinkBad(p) \/ Unlink(p) \/ UnlinkErase(p) \/ Chdir(p)

Next == \E p \in Procs : ~panic /\ (Call(p) \/ Step(p))

Spec == Init /\ [][Next]_vars

-----------------------------------------------------------------------------
\* No lookup reaches an inode that is free ("ilock: no type"), and no entry
\* names one without links ("unlink: nlink < 1").
NoPanic == ~panic

Entries == {<<dp, k>> \in Inums \X (1 .. MaxEntries + 1) : k \in DOMAIN inode[dp].dents /\ inode[dp].dents[k][2] # 0}
Name(x) == inode[x[1]].dents[x[2]][1]
Target(x) == inode[x[1]].dents[x[2]][2]
Proper == {x \in Entries : Name(x) \notin {".", ".."}}
Linking(i) == {p \in Procs : op[p].old = i /\ (op[p].else = "bad")}

\* The directories are a tree with exact link counts, whatever calls cross:
\* names are unique in a directory, every entry leads to an inode in use,
\* "." and ".." are the directory and its parent, no directory has two parents,
\* no call panics, and nlink counts the entries, the ".." of subdirectories and
\* the sys_link() calls under way.
TreeSound ==
    /\ NoPanic
    /\ \A x, y \in Entries : x # y /\ x[1] = y[1] => Name(x) # Name(y)
    /\ \A x \in Entries : inode[Target(x)].type # "free"
    /\ \A x \in Entries : Name(x) = "." => Target(x) = x[1]
    /\ \A x \in Entries : Name(x) = ".." /\ x[1] # ROOTINO =>
           {y[1] : y \in {y \in Proper : Target(y) = x[1]}} = {Target(x)}
    /\ \A i \in Inums \ {ROOTINO} :
           inode[i].nlink = Cardinality({x \in Proper : Target(x) = i})
                          + Cardinality({x \in Entries : Name(x) = ".." /\ Target(x) = i})
                          + Cardinality(Linking(i))
=============================================================================
