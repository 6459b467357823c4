----------------------------- MODULE FileTable -----------------------------
(***************************************************************************)
(* Open files (Assignment3/initial_code/kernel: file.c, pipealloc() of     *)
(* pipe.c, the system calls on descriptors of sysfile.c, and what fork()   *)
(* and exit() do with descriptors).                                        *)
(*                                                                         *)
(* Every acquisition of ftable.lock or of an inode is a step of its own.   *)
(* What the entries stand for is counted: the references to an inode and   *)
(* the open ends of a pipe, both given back by the last fileclose().       *)
(***************************************************************************)
EXTENDS Integers, FiniteSets, FiniteSetsExt

CONSTANTS Tasks, First,   \* processes; First is running at the start
          NFILE, NOFILE,  \* entries of ftable, descriptors of a process
          Inodes, Pipes,  \* files on disk; pages kalloc() has for pipes
          MaxOff,         \* bound on f->off
          MaxWrite        \* chunks of a read() or write()

Nil == "none"    \* a null pointer, no lock owner

FileTableAssumption ==
    /\ First \in Tasks /\ IsFiniteSet(Tasks) /\ Nil \notin Tasks \cup Inodes \cup Pipes
    /\ NFILE \in Nat \ {0} /\ NOFILE \in Nat \ {0}
    /\ MaxOff \in Nat /\ MaxWrite \in Nat /\ Inodes \cap Pipes = {}

Files == 1 .. NFILE
Fds == 0 .. NOFILE - 1
NoFd == -1

VARIABLES file,     \* ftable.file
          ofile,    \* p->ofile, 0 when closed
          live,     \* the processes there are
          iref,     \* references to each inode
          ends,     \* the open ends of each pipe; {} when its page is free
          locked,   \* owner of each inode's sleep lock
          op,       \* where each process is, and the locals of its call
          moved     \* per entry, how often each byte of the stream was transferred

fileVars == <<file, ofile, live, iref, ends, locked, op, moved>>

Closed == [ref |-> 0, type |-> "FD_NONE", obj |-> Nil, writable |-> FALSE, off |-> 0]
\* f0, f1: file references of the call that no descriptor holds; hold: its
\* inode reference; ff: the copy fileclose() works on; fd: a descriptor whose
\* entry is not counted yet, or no more; f, r: what read() or write() uses.
Idle == [pc |-> "user", f0 |-> 0, f1 |-> 0, hold |-> Nil, ff |-> Closed, fd |-> NoFd,
         n |-> 0, child |-> Nil, f |-> 0, r |-> 0]

FileInit == /\ file = [f \in Files |-> Closed]
            /\ ofile = [p \in Tasks |-> [fd \in Fds |-> 0]]
            /\ live = {First}
            /\ iref = [i \in Inodes |-> 0]
            /\ ends = [i \in Pipes |-> {}]
            /\ locked = [i \in Inodes |-> Nil]
            /\ op = [p \in Tasks |-> Idle]
            /\ moved = [f \in Files |-> [b \in 0 .. MaxOff - 1 |-> 0]]

Doing(p, pc) == op[p].pc = pc
Ready(p) == p \in live /\ Doing(p, "user")
Go(p, pc) == op' = [op EXCEPT ![p].pc = pc]
Argfd(p, fd) == ofile[p][fd] # 0
FreeFds(p) == {fd \in Fds : ofile[p][fd] = 0}
FreeFiles == {f \in Files : file[f].ref = 0}

Filealloc(f) == file' = [file EXCEPT ![f].ref = 1]
Filedup(f) == file' = [file EXCEPT ![f].ref = @ + 1]

-----------------------------------------------------------------------------
(* fileclose() of op[p].f0 and op[p].f1: the count under ftable.lock, then, *)
(* for the last reference, the pipe or inode from the copy ff.              *)

\* Mutant: the entry keeps its type when it is closed for the last time.
DecrementKeepsType(f) ==
    file' = [file EXCEPT ![f].ref = @ - 1]
Decrement(f) ==
    IF file[f].ref > 1 THEN file' = [file EXCEPT ![f].ref = @ - 1]
    ELSE file' = [file EXCEPT ![f] = [@ EXCEPT !.ref = 0, !.type = "FD_NONE"]]

InHand(p) == {op[p].f0, op[p].f1} \ {0}

Fileclose(p) ==
    /\ Doing(p, "closing") /\ InHand(p) # {}
    /\ LET f == IF op[p].f0 # 0 THEN op[p].f0 ELSE op[p].f1
           left == IF op[p].f0 # 0 THEN [op[p] EXCEPT !.f0 = 0] ELSE [op[p] EXCEPT !.f1 = 0]
       IN  /\ Decrement(f)
           /\ op' = [op EXCEPT ![p] =
                       IF file[f].ref > 1 THEN left
                       ELSE [left EXCEPT !.pc = "drop", !.ff = file[f]]]
    /\ UNCHANGED <<ofile, live, iref, ends, locked, moved>>

Drop(p) ==
    /\ Doing(p, "drop")
    /\ LET ff == op[p].ff IN
       /\ ends' = IF ff.type = "FD_PIPE"
                  THEN [ends EXCEPT ![ff.obj] = @ \ {IF ff.writable THEN "write" ELSE "read"}] ELSE ends
       /\ iref' = IF ff.type = "FD_INODE" THEN [iref EXCEPT ![ff.obj] = @ - 1] ELSE iref
    /\ op' = [op EXCEPT ![p] = [@ EXCEPT !.pc = "closing", !.ff = Closed]]
    /\ UNCHANGED <<file, ofile, live, locked, moved>>

\* The call is over: iunlockput() of an inode a failed open() still holds;
\* in exit(), the descriptor just closed is cleared.
Finish(p) ==
    /\ Doing(p, "closing") /\ InHand(p) = {}
    /\ iref' = [i \in Inodes |-> IF i = op[p].hold THEN iref[i] - 1 ELSE iref[i]]
    /\ locked' = [i \in Inodes |-> IF i = op[p].hold THEN Nil ELSE locked[i]]
    /\ ofile' = IF op[p].fd = NoFd THEN ofile ELSE [ofile EXCEPT ![p][op[p].fd] = 0]
    /\ op' = [op EXCEPT ![p] = IF op[p].fd = NoFd THEN Idle ELSE [Idle EXCEPT !.pc = "exit"]]
    /\ UNCHANGED <<file, live, ends, moved>>

SysClose(p, fd) ==
    /\ Ready(p) /\ Argfd(p, fd)
    /\ ofile' = [ofile EXCEPT ![p][fd] = 0]
    /\ op' = [op EXCEPT ![p] = [Idle EXCEPT !.pc = "closing", !.f0 = ofile[p][fd]]]
    /\ UNCHANGED <<file, live, iref, ends, locked, moved>>

-----------------------------------------------------------------------------
(* open(): the inode stays locked until the descriptor is ready.            *)

SysOpen(p, i) ==
    /\ Ready(p) /\ locked[i] = Nil
    /\ iref' = [iref EXCEPT ![i] = @ + 1] /\ locked' = [locked EXCEPT ![i] = p]
    /\ op' = [op EXCEPT ![p] = [Idle EXCEPT !.pc = "open", !.hold = i]]
    /\ UNCHANGED <<file, ofile, live, ends, moved>>

OpenFile(p) ==
    /\ Doing(p, "open")
    /\ IF FreeFiles = {} THEN Go(p, "closing") /\ UNCHANGED file
       ELSE /\ Filealloc(Min(FreeFiles))
            /\ op' = [op EXCEPT ![p] = [@ EXCEPT !.pc = "open_fd", !.f0 = Min(FreeFiles)]]
    /\ UNCHANGED <<ofile, live, iref, ends, locked, moved>>

OpenFd(p) ==
    /\ Doing(p, "open_fd") /\ FreeFds(p) # {}
    /\ LET f == op[p].f0 IN
       /\ ofile' = [ofile EXCEPT ![p][Min(FreeFds(p))] = f]
       /\ file' = [file EXCEPT ![f] = [@ EXCEPT !.type = "FD_INODE", !.obj = op[p].hold,
                                                !.off = 0, !.writable = TRUE]]
       /\ moved' = [moved EXCEPT ![f] = [b \in DOMAIN @ |-> 0]]
    /\ locked' = [locked EXCEPT ![op[p].hold] = Nil]
    /\ op' = [op EXCEPT ![p] = Idle]
    /\ UNCHANGED <<live, iref, ends>>

OpenNoFd(p) == /\ Doing(p, "open_fd") /\ FreeFds(p) = {}
               /\ Go(p, "closing")
               /\ UNCHANGED <<file, ofile, live, iref, ends, locked, moved>>

-----------------------------------------------------------------------------
(* pipe(): two entries, a page, two descriptors, and their numbers copied   *)
(* to the user; each step may fail and everything before it is undone.      *)

SysPipe(p) == /\ Ready(p) /\ Go(p, "pipe")
              /\ UNCHANGED <<file, ofile, live, iref, ends, locked, moved>>

PipeFile(p) ==
    /\ Doing(p, "pipe") /\ op[p].f1 = 0
    /\ IF FreeFiles = {} THEN Go(p, "closing") /\ UNCHANGED file
       ELSE /\ Filealloc(Min(FreeFiles))
            /\ op' = [op EXCEPT ![p] = IF @.f0 = 0 THEN [@ EXCEPT !.f0 = Min(FreeFiles)]
                                       ELSE [@ EXCEPT !.f1 = Min(FreeFiles)]]
    /\ UNCHANGED <<ofile, live, iref, ends, locked, moved>>

PipePage(p) ==
    /\ Doing(p, "pipe") /\ op[p].f1 # 0
    /\ \/ Go(p, "closing") /\ UNCHANGED <<file, ends>>      \* kalloc() fails
       \/ \E i \in Pipes :
             /\ ends[i] = {} /\ ends' = [ends EXCEPT ![i] = {"read", "write"}]
             /\ file' = [file EXCEPT
                   ![op[p].f0] = [@ EXCEPT !.type = "FD_PIPE", !.obj = i, !.writable = FALSE],
                   ![op[p].f1] = [@ EXCEPT !.type = "FD_PIPE", !.obj = i, !.writable = TRUE]]
             /\ Go(p, "pipe_fds")
    /\ UNCHANGED <<ofile, live, iref, locked, moved>>

\* fdalloc() twice, then copyout() of both numbers.
PipeFds(p) ==
    /\ Doing(p, "pipe_fds") /\ Cardinality(FreeFds(p)) >= 2
    /\ LET fd0 == Min(FreeFds(p))
           fd1 == Min(FreeFds(p) \ {fd0})
       IN  ofile' = [ofile EXCEPT ![p][fd0] = op[p].f0, ![p][fd1] = op[p].f1]
    /\ op' = [op EXCEPT ![p] = Idle]
    /\ UNCHANGED <<file, live, iref, ends, locked, moved>>
PipeFdsFail(p) ==
    /\ Doing(p, "pipe_fds") /\ Go(p, "closing")
    /\ UNCHANGED <<file, ofile, live, iref, ends, locked, moved>>

-----------------------------------------------------------------------------
(* dup(), fork() and exit().                                                *)

SysDup(p, fd) ==
    /\ Ready(p) /\ Argfd(p, fd) /\ FreeFds(p) # {}
    /\ ofile' = [ofile EXCEPT ![p][Min(FreeFds(p))] = ofile[p][fd]]
    /\ op' = [op EXCEPT ![p] = [Idle EXCEPT !.pc = "dup", !.fd = Min(FreeFds(p))]]
    /\ UNCHANGED <<file, live, iref, ends, locked, moved>>
DupFile(p) ==
    /\ Doing(p, "dup") /\ Filedup(ofile[p][op[p].fd])
    /\ op' = [op EXCEPT ![p] = Idle]
    /\ UNCHANGED <<ofile, live, iref, ends, locked, moved>>

Fork(p, c) ==
    /\ Ready(p) /\ c \notin live /\ Doing(c, "user")
    /\ op' = [op EXCEPT ![p] = [Idle EXCEPT !.pc = "fork", !.child = c], ![c].pc = "embryo"]
    /\ UNCHANGED <<file, ofile, live, iref, ends, locked, moved>>
ForkFile(p) ==
    /\ Doing(p, "fork")
    /\ LET c == op[p].child
           rest == {fd \in Fds : ofile[p][fd] # 0 /\ fd >= op[p].n}
       IN  IF rest # {}
           THEN /\ Filedup(ofile[p][Min(rest)])
                /\ ofile' = [ofile EXCEPT ![c][Min(rest)] = ofile[p][Min(rest)]]
                /\ op' = [op EXCEPT ![p].n = Min(rest) + 1] /\ UNCHANGED live
           ELSE /\ live' = live \cup {c} /\ op' = [op EXCEPT ![p] = Idle, ![c] = Idle]
                /\ UNCHANGED <<file, ofile>>
    /\ UNCHANGED <<iref, ends, locked, moved>>

Exit(p) == /\ Ready(p) /\ p # First /\ Go(p, "exit")
           /\ UNCHANGED <<file, ofile, live, iref, ends, locked, moved>>
\* exit() calls fileclose() first and clears the descriptor after it.
ExitFile(p) ==
    /\ Doing(p, "exit")
    /\ LET open == {fd \in Fds : ofile[p][fd] # 0} IN
       IF open = {} THEN live' = live \ {p} /\ op' = [op EXCEPT ![p] = Idle]
       ELSE /\ op' = [op EXCEPT ![p] = [@ EXCEPT !.pc = "closing", !.fd = Min(open),
                                                 !.f0 = ofile[p][Min(open)]]]
            /\ UNCHANGED live
    /\ UNCHANGED <<file, ofile, iref, ends, locked, moved>>

-----------------------------------------------------------------------------
(* read() and write() of an inode: n chunks, each with the inode locked     *)
(* from the use of f->off to its advance.                                   *)

SysReadWrite(p, fd, n) ==
    /\ Ready(p) /\ Argfd(p, fd) /\ file[ofile[p][fd]].type = "FD_INODE"
    /\ op' = [op EXCEPT ![p] = [Idle EXCEPT !.pc = "rw", !.n = n, !.f = ofile[p][fd]]]
    /\ UNCHANGED <<file, ofile, live, iref, ends, locked, moved>>

\* Mutant: the inode is not locked.
TransferLockUnlocked(p, i) == UNCHANGED locked
TransferLock(p, i) == locked[i] = Nil /\ locked' = [locked EXCEPT ![i] = p]

\* readi() or writei() of r bytes at f->off.
Transfer(p) ==
    /\ Doing(p, "rw") /\ op[p].n > 0
    /\ LET f == op[p].f IN
       /\ TransferLock(p, file[f].obj)
       /\ \E r \in 0 .. MaxOff - file[f].off :
             /\ op' = [op EXCEPT ![p] = [@ EXCEPT !.pc = "advance", !.r = r]]
             /\ moved' = [moved EXCEPT ![f] =
                            [b \in DOMAIN @ |-> IF b - file[f].off \in 0 .. r - 1 THEN @[b] + 1 ELSE @[b]]]
    /\ UNCHANGED <<file, ofile, live, iref, ends>>

Advance(p) ==
    /\ Doing(p, "advance")
    /\ LET f == op[p].f
           r == op[p].r
       IN  /\ file' = [file EXCEPT ![f].off = @ + r]
           /\ locked' = [locked EXCEPT ![file[f].obj] = Nil]
           \* a short transfer ends the call
           /\ op' = [op EXCEPT ![p] = [@ EXCEPT !.pc = "rw", !.n = IF r = 0 THEN 0 ELSE op[p].n - 1]]
    /\ UNCHANGED <<ofile, live, iref, ends, moved>>

ReturnCount(p) == /\ Doing(p, "rw") /\ op[p].n = 0
                  /\ op' = [op EXCEPT ![p] = Idle]
                  /\ UNCHANGED <<file, ofile, live, iref, ends, locked, moved>>

FileNext == \E p \in Tasks :
    \/ Fileclose(p) \/ Drop(p) \/ Finish(p)
    \/ OpenFile(p) \/ OpenFd(p) \/ OpenNoFd(p)
    \/ SysPipe(p) \/ PipeFile(p) \/ PipePage(p) \/ PipeFds(p) \/ PipeFdsFail(p)
    \/ DupFile(p) \/ ForkFile(p) \/ Exit(p) \/ ExitFile(p)
    \/ Transfer(p) \/ Advance(p) \/ ReturnCount(p)
    \/ \E i \in Inodes : SysOpen(p, i)
    \/ \E c \in Tasks : Fork(p, c)
    \/ \E fd \in Fds : \/ SysClose(p, fd) \/ SysDup(p, fd)
                       \/ SysReadWrite(p, fd, MaxWrite)

FileSpec == FileInit /\ [][FileNext]_fileVars

\* The state without fields that are set before they are read again.
FileView == <<[f \in Files |-> IF file[f].type = "FD_NONE" THEN <<file[f].ref>> ELSE <<file[f], moved[f]>>],
              ofile, live, iref, ends, locked, op>>

-----------------------------------------------------------------------------
\* The descriptors that are counted in f->ref.
Descriptors(f) == {x \in Tasks \X Fds : ofile[x[1]][x[2]] = f /\ op[x[1]].fd # x[2]}

\* f->ref counts the descriptors that hold the entry and the references of
\* calls in progress, through dup(), fork(), exit() and pipe() or open()
\* undone half-way: no entry is reused while a descriptor leads to it, and
\* none stays taken.
RefsExact == \A f \in Files :
    file[f].ref = Cardinality(Descriptors(f)) + Cardinality({p \in Tasks : op[p].f0 = f})
                                              + Cardinality({p \in Tasks : op[p].f1 = f})

Standing(ff, obj) == ff.obj = obj /\ ff.type # "FD_NONE"
\* The last close of an entry, and only that, gives back its inode reference
\* or its end of the pipe; an entry taken again brings nothing along.
ObjectsExact ==
    /\ \A i \in Inodes : iref[i] = Cardinality({f \in Files : Standing(file[f], i)})
                                   + Cardinality({p \in Tasks : op[p].hold = i})
                                   + Cardinality({p \in Tasks : Doing(p, "drop") /\ Standing(op[p].ff, i)})
    /\ \A i \in Pipes : \A w \in BOOLEAN :
          ((IF w THEN "write" ELSE "read") \in ends[i]) <=>
              \/ \E f \in Files : Standing(file[f], i) /\ file[f].writable = w
              \/ \E p \in Tasks : Doing(p, "drop") /\ Standing(op[p].ff, i) /\ op[p].ff.writable = w

\* The counts of the file table are exact, for the entries and for what they
\* stand for, at every step of every call.
CountsExact == RefsExact /\ ObjectsExact

\* Processes that share an open file share its offset: no byte of the stream
\* is read or written twice through it, however their calls interleave.
StreamOnce == \A f \in Files : \A b \in DOMAIN moved[f] : moved[f][b] <= 1
=============================================================================
