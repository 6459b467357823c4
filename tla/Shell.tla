------------------------------- MODULE Shell -------------------------------
(***************************************************************************)
(* Processes of a session (Assignment3/initial_code/user: main() and       *)
(* runcmd() of sh.c, init.c) and the two programs they mostly run, cat and *)
(* echo.  Every system call that another process can notice is a step.     *)
(*                                                                         *)
(* A process of the shell works on one command of its line; path says      *)
(* which, for the properties.  A pipe holds PIPESIZE pieces of data.  The  *)
(* console and the files are at their end for those who read them.         *)
(* chdir() is in module Names, and the kernel's side of the calls in Proc, *)
(* FileTable and Pipe.                                                     *)
(***************************************************************************)
EXTENDS CommandLine, FiniteSetsExt

CONSTANTS NPROC, NOFILE,
          Pipes, PIPESIZE,
          Lines      \* what the user may type

ShellAssumption == /\ CommandLineAssumption
                   /\ NPROC \in Nat /\ NPROC > 2 /\ NOFILE \in Nat /\ NOFILE > 4
                   /\ PIPESIZE \in Nat \ {0}

Procs == 1 .. NPROC
init == 1                     \* its process
Fds == 0 .. NOFILE - 1
Closed == <<"closed">>
Console == <<"console">>

VARIABLES proc,   \* the table of processes
          pipe    \* per pipe, the data in it and (history) the command it is for

vars == <<proc, pipe>>

None == [type |-> "NONE"]
Unused == [pc |-> "unused", parent |-> 0, line |-> <<>>, path |-> <<>>, cmd |-> None,
           fd |-> [i \in Fds |-> Closed], n |-> 0, p |-> <<0, 0>>]
Std == [i \in Fds |-> IF i =< 2 THEN Console ELSE Closed]

\* init.c has opened the console three times.
Init == /\ proc = [p \in Procs |-> IF p = init THEN [Unused EXCEPT !.pc = "start", !.fd = Std] ELSE Unused]
        /\ pipe = [q \in Pipes |-> [n |-> 0, for |-> <<>>]]

At0(p, pc) == proc[p].pc = pc
To(p, pc) == [proc[p] EXCEPT !.pc = pc]
Set(p, r) == proc' = [proc EXCEPT ![p] = r]
Slots == {p \in Procs : At0(p, "unused")}

cmd(p) == proc[p].cmd
\* runcmd() of a part of the command.
Down(r, d) == [r EXCEPT !.pc = "runcmd", !.cmd = @[d], !.path = Append(@, d)]
Parsed(l) == With(parsecmd(l), LAMBDA c : Strings(l, nulterminate(c), c))

-----------------------------------------------------------------------------
(* System calls                                                             *)
\* init must not exit: "init exiting".
exit(p) ==
    /\ proc' = [q \in Procs |->
          IF q = p THEN [Unused EXCEPT !.pc = IF p = init THEN "panic" ELSE "zombie", !.parent = proc[p].parent]
          ELSE IF proc[q].parent = p THEN [proc[q] EXCEPT !.parent = init] ELSE proc[q]]
    /\ UNCHANGED pipe

\* fork1(): child and mine are what the two processes become.
fork1(p, child, mine) ==
    IF Slots = {} THEN exit(p)
    ELSE /\ proc' = [proc EXCEPT ![p] = mine, ![Min(Slots)] = [child EXCEPT !.parent = p]]
         /\ UNCHANGED pipe

\* wait(0): a child that has exited, or an error because there is no child.
Kids(p) == {q \in Procs : proc[q].parent = p}
wait(p, r) ==
    /\ \/ \E q \in Kids(p) : At0(q, "zombie") /\ proc' = [proc EXCEPT ![p] = r, ![q] = Unused]
       \/ Kids(p) = {} /\ Set(p, r)
    /\ UNCHANGED pipe

Lowest(fd) == Min({i \in Fds : fd[i] = Closed})
close(fd, i) == [fd EXCEPT ![i] = Closed]
dup(fd, i) == [fd EXCEPT ![Lowest(fd)] = fd[i]]
Open(q, e) == \E p \in Procs, i \in Fds : proc[p].fd[i] = <<"pipe", q, e>>
FreePipes == {q \in Pipes : ~Open(q, "r") /\ ~Open(q, "w")}

-----------------------------------------------------------------------------
(* init.c                                                                   *)
InitFork ==
    /\ At0(init, "start")
    /\ IF Slots = {} THEN exit(init)
       ELSE fork1(init, To(init, "main"), [To(init, "reap") EXCEPT !.n = Min(Slots)])

InitWait ==
    /\ At0(init, "reap")
    /\ IF Kids(init) = {} THEN exit(init)
       ELSE \E q \in Kids(init) :
              /\ At0(q, "zombie")
              /\ proc' = [proc EXCEPT ![q] = Unused,
                                      ![init] = IF q = @.n THEN [@ EXCEPT !.pc = "start", !.n = 0] ELSE @]
              /\ UNCHANGED pipe

-----------------------------------------------------------------------------
(* main() of the shell                                                      *)
OpenConsole(p) ==
    /\ At0(p, "main")
    /\ Set(p, [To(p, "prompt") EXCEPT !.fd = [i \in Fds |-> IF i =< 2 /\ @[i] = Closed THEN Console ELSE @[i]],
                                      !.n = 0])
    /\ UNCHANGED pipe

IsCd(l) == IsPrefix(<<"c", "d", Blank>>, l)

\* chdir() is called by the shell itself.
Cd(p, l) == At0(p, "prompt") /\ IsCd(l) /\ UNCHANGED vars

RunLine(p, l) ==
    /\ At0(p, "prompt") /\ ~IsCd(l)
    /\ fork1(p, [To(p, "runcmd") EXCEPT !.line = l, !.cmd = Parsed(l)], To(p, "wait"))

EndOfInput(p) == At0(p, "prompt") /\ exit(p)

WaitLine(p) == At0(p, "wait") /\ wait(p, To(p, "prompt"))

-----------------------------------------------------------------------------
(* runcmd()                                                                 *)
At1(p, type) == At0(p, "runcmd") /\ cmd(p).type = type

\* A syntax error has ended the parser.
SyntaxError(p) == At1(p, "PANIC") /\ exit(p)

Programs == [cat |-> <<"c">>, echo |-> <<"e">>]

RunExec(p) ==
    /\ At1(p, "EXEC")
    /\ LET argv == cmd(p).argv
           name == {x \in DOMAIN Programs : argv # <<>> /\ argv[1] = Programs[x]}
       IN  IF name = {} THEN exit(p)
           ELSE /\ \E x \in name : Set(p, [To(p, x) EXCEPT !.cmd = None, !.n = 2 * (Len(argv) - 1)])
                /\ UNCHANGED pipe

\* Mutant: the file is opened while the old descriptor is still open.
RunRedirKeep(p) ==
    /\ At1(p, "REDIR")
    /\ \/ exit(p)
       \/ /\ Set(p, [Down(proc[p], "cmd") EXCEPT
                     !.fd = [@ EXCEPT ![Lowest(@)] = <<"file", cmd(p).file>>]])
          /\ UNCHANGED pipe

\* open() may fail.
RunRedir(p) ==
    /\ At1(p, "REDIR")
    /\ \/ exit(p)
       \/ /\ Set(p, [Down(proc[p], "cmd") EXCEPT
                     !.fd = LET fd == close(@, cmd(p).fd)
                            IN  [fd EXCEPT ![Lowest(fd)] = <<"file", cmd(p).file>>]])
          /\ UNCHANGED pipe

RunList(p) == At1(p, "LIST") /\ fork1(p, Down(proc[p], "left"), To(p, "list_wait"))
ListWait(p) == At0(p, "list_wait") /\ wait(p, Down(proc[p], "right"))

RunBack(p) == At1(p, "BACK") /\ fork1(p, Down(proc[p], "cmd"), To(p, "exit"))

\* pipe() gives the two lowest free descriptors, p[0] and p[1].
RunPipe(p) ==
    /\ At1(p, "PIPE")
    /\ IF FreePipes = {} THEN exit(p)
       ELSE \E q \in {CHOOSE q \in FreePipes : TRUE} :
              LET p0 == Lowest(proc[p].fd)
                  fd == [proc[p].fd EXCEPT ![p0] = <<"pipe", q, "r">>]
                  p1 == Lowest(fd)
              IN  /\ Set(p, [To(p, "left") EXCEPT !.fd = [fd EXCEPT ![p1] = <<"pipe", q, "w">>],
                                                  !.p = <<p0, p1>>])
                  /\ pipe' = [pipe EXCEPT ![q] = [n |-> 0, for |-> proc[p].path]]

CloseBoth(r) == [r EXCEPT !.fd = close(close(@, r.p[1]), r.p[2]), !.p = <<0, 0>>]

\* A child of a pipe: close(i), dup(p[i]), close(p[0]), close(p[1]), and on
\* with its side.
Wire(r, i, d) == CloseBoth([Down(r, d) EXCEPT !.fd = dup(close(@, i), r.p[i + 1])])

ForkLeft(p) ==
    /\ At0(p, "left")
    /\ fork1(p, Wire(proc[p], 1, "left"), To(p, "right"))

ForkRight(p) ==
    /\ At0(p, "right")
    /\ fork1(p, Wire(proc[p], 0, "right"), To(p, "close"))

\* Mutant: the parent waits with the pipe still open.
ClosePipeNot(p) ==
    /\ At0(p, "close")
    /\ Set(p, To(p, "pipe_wait"))
    /\ UNCHANGED pipe

ClosePipe(p) ==
    /\ At0(p, "close")
    /\ Set(p, CloseBoth(To(p, "pipe_wait")))
    /\ UNCHANGED pipe

PipeWait(p) == At0(p, "pipe_wait") /\ wait(p, To(p, "last_wait"))
LastWait(p) == At0(p, "last_wait") /\ wait(p, To(p, "exit"))
Exit(p) == At0(p, "exit") /\ exit(p)

-----------------------------------------------------------------------------
(* cat.c and echo.c                                                         *)
Input(p) == proc[p].fd[0]
Output(p) == proc[p].fd[1]
Piped(f) == f[1] = "pipe"
Broken(f) == Piped(f) /\ ~Open(f[2], "r")
CanWrite(f) == Piped(f) => pipe[f[2]].n < PIPESIZE \/ Broken(f)
Written(f) == pipe' = IF Piped(f) /\ ~Broken(f) THEN [pipe EXCEPT ![f[2]].n = @ + 1] ELSE pipe

CatRead(p) ==
    /\ At0(p, "cat") /\ Piped(Input(p)) /\ pipe[Input(p)[2]].n > 0
    /\ pipe' = [pipe EXCEPT ![Input(p)[2]].n = @ - 1]
    /\ Set(p, To(p, "cat_write"))

CatEnd(p) ==
    /\ At0(p, "cat")
    /\ Piped(Input(p)) => pipe[Input(p)[2]].n = 0 /\ ~Open(Input(p)[2], "w")
    /\ exit(p)

CatWrite(p) ==
    /\ At0(p, "cat_write") /\ CanWrite(Output(p))
    /\ IF Broken(Output(p)) THEN exit(p) ELSE Set(p, To(p, "cat")) /\ Written(Output(p))

\* echo does not look at what write() returns.
EchoWrite(p) ==
    /\ At0(p, "echo") /\ proc[p].n > 0 /\ CanWrite(Output(p))
    /\ Set(p, [proc[p] EXCEPT !.n = @ - 1]) /\ Written(Output(p))

EchoEnd(p) == At0(p, "echo") /\ proc[p].n = 0 /\ exit(p)

-----------------------------------------------------------------------------
RunStep(p) ==
    \/ SyntaxError(p) \/ RunExec(p) \/ RunRedir(p) \/ RunList(p) \/ ListWait(p) \/ RunBack(p)
    \/ RunPipe(p) \/ ForkLeft(p) \/ ForkRight(p) \/ ClosePipe(p) \/ PipeWait(p) \/ LastWait(p) \/ Exit(p)
ProgramStep(p) == CatRead(p) \/ CatEnd(p) \/ CatWrite(p) \/ EchoWrite(p) \/ EchoEnd(p)
Typed(p) == (\E l \in Lines : Cd(p, l) \/ RunLine(p, l)) \/ EndOfInput(p)

Up == ~At0(init, "panic")
InitStep == Up /\ (InitFork \/ InitWait)
Step(p) == Up /\ (OpenConsole(p) \/ WaitLine(p) \/ RunStep(p) \/ ProgramStep(p))

Next == InitStep \/ \E p \in Procs : Step(p) \/ (Up /\ Typed(p))

\* Processes are scheduled, and wait() returns a child that has exited.
Fairness == WF_vars(InitStep) /\ \A p \in Procs : WF_vars(Step(p))

Spec == Init /\ [][Next]_vars /\ Fairness

-----------------------------------------------------------------------------
\* What the descriptors 0 to 2 of the command at a path stand for: those of the
\* shell, changed by the redirections and pipes on the way, the innermost last.
Meaning(l, path) ==
    LET step(a, d) ==
          [cmd |-> a.cmd[d], at |-> Append(a.at, d),
           io |-> CASE a.cmd.type = "REDIR" -> [a.io EXCEPT ![a.cmd.fd] = <<"file", a.cmd.file>>]
                    [] a.cmd.type = "PIPE" -> [a.io EXCEPT ![IF d = "left" THEN 1 ELSE 0] =
                                                  <<"pipe", a.at, IF d = "left" THEN "w" ELSE "r">>]
                    [] OTHER -> a.io]
    IN  FoldLeft(step, [cmd |-> Parsed(l), at |-> <<>>, io |-> [i \in 0 .. 2 |-> Console]], path).io

Running(p) == proc[p].pc \in {"cat", "cat_write", "echo"}
Named(f) == IF Piped(f) THEN <<"pipe", pipe[f[2]].for, f[3]>> ELSE f

\* A program starts with the input and output that its line means, however the
\* lowest free descriptors fell, and with no other descriptor open: it holds no
\* end of a pipe whose other end waits for it to be closed.
Wired ==
    \A p \in Procs : Running(p) =>
        /\ [i \in 0 .. 2 |-> Named(proc[p].fd[i])] = Meaning(proc[p].line, proc[p].path)
        /\ \A i \in Fds : i > 2 => proc[p].fd[i] = Closed

\* The user always gets a prompt again: every line ends, pipelines with more
\* data than a pipe holds and forks that fail half-way included, and init
\* starts a new shell for one that has ended, unless the table of processes is
\* full at that moment: then init exits and the kernel panics.
PromptReturns == []<>((\E p \in Procs : At0(p, "prompt")) \/ ~Up)
=============================================================================
