----------------------------- MODULE MCPrograms -----------------------------
(***************************************************************************)
(* The user programs for TLC, side by side: the two POSIX-threads programs *)
(* of Assignment2, that is the HTTP server (module HttpServer), as a file  *)
(* server and as a proxy, and the frog game (FrogGame); the shell (Shell), *)
(* with room for its pipelines ("pipelines") and with a process table too  *)
(* small for a job in the background ("jobs"); and the shell's parser on   *)
(* every short line ("parser").  A behaviour is one of one program; the    *)
(* others rest, server and game in their initial states.                   *)
(***************************************************************************)
EXTENDS FrogGame, HttpServer

CONSTANTS NPROC, JobsNPROC, NOFILE, Pipes, PIPESIZE, MAXARGS,  \* Shell
          MaxLine                          \* length of the lines for the parser

VARIABLES program,
          proc, pipe,   \* Shell
          line          \* the line to parse

shellVars == <<proc, pipe>>
vars == <<program, httpVars, frogVars, shellVars, line>>

\* What the user of "pipelines" types: (e x;c)|c>f, cd x, e x|c|c, c<g|z, c|)
\* and c>>f<g;z.  z is no program.
Typed == {<<"(", "e", " ", "x", ";", "c", ")", "|", "c", ">", "f">>,
          <<"c", "d", " ", "x">>,
          <<"e", " ", "x", "|", "c", "|", "c">>,
          <<"c", "<", "g", "|", "z">>,
          <<"c", "|", ")">>,
          <<"c", ">", ">", "f", "<", "g", ";", "z">>}
Pipelines == INSTANCE Shell WITH Lines <- Typed
Jobs == INSTANCE Shell WITH NPROC <- JobsNPROC,
                            Lines <- {<<"e", "|", "c", "&">>}

ShortLines == UNION {[1 .. n -> Pipelines!Symbols \cup {" ", "c"}] : n \in 0 .. MaxLine}

ASSUME ProgramsAssumption ==
    /\ HttpAssumption /\ FrogAssumption
    /\ Pipelines!ShellAssumption /\ Jobs!ShellAssumption

Rest == <<>>
HttpRests == HttpInit /\ handler = "files"
FrogRests == FrogInit /\ head = [lane \in Lanes |-> 0]
ShellRests == proc = Rest /\ pipe = Rest

Init == /\ \/ program = "server" /\ HttpInit /\ FrogRests /\ ShellRests /\ line = Rest
           \/ program = "frog" /\ FrogInit /\ HttpRests /\ ShellRests /\ line = Rest
           \/ program = "pipelines" /\ Pipelines!Init /\ HttpRests /\ FrogRests /\ line = Rest
           \/ program = "jobs" /\ Jobs!Init /\ HttpRests /\ FrogRests /\ line = Rest
           \/ program = "parser" /\ line \in ShortLines /\ HttpRests /\ FrogRests /\ ShellRests

ServerNext == program = "server" /\ HttpNext /\ UNCHANGED <<program, frogVars, shellVars, line>>
GameNext == program = "frog" /\ FrogNext /\ UNCHANGED <<program, httpVars, shellVars, line>>
ShellNext == /\ \/ program = "pipelines" /\ Pipelines!Next
                \/ program = "jobs" /\ Jobs!Next
             /\ UNCHANGED <<program, httpVars, frogVars, line>>

Next == ServerNext \/ GameNext \/ ShellNext

\* The threads of the file server and of the game, and the processes of a
\* session, are scheduled; files are finite.
Fairness ==
    /\ \A w \in Workers : WF_httpVars(program = "server" /\ handler = "files" /\ WorkerStep(w))
    /\ WF_frogVars(program = "frog" /\ MainStep)
    /\ WF_frogVars(program = "frog" /\ FrogStep)
    /\ WF_frogVars(program = "frog" /\ LogStep)
    /\ WF_shellVars(program = "pipelines" /\ Pipelines!InitStep)
    /\ \A p \in Pipelines!Procs : WF_shellVars(program = "pipelines" /\ Pipelines!Step(p))
    /\ WF_shellVars(program = "jobs" /\ Jobs!InitStep)
    /\ \A p \in Jobs!Procs : WF_shellVars(program = "jobs" /\ Jobs!Step(p))

Spec == Init /\ [][Next]_vars /\ Fairness

-----------------------------------------------------------------------------
\* "For each accepted connection, calls request_handler": in the file server
\* no connection stays in the task queue.
FilesHandled ==
    \A fd \in Sockets : program = "server" /\ handler = "files" /\ InQueue(fd) ~> ~InQueue(fd)

\* No lost wakeup in the game: every round reaches its picture, or the player
\* quits.
GameGoesOn == program = "frog" /\ mpc = "set_frog" ~> mpc = "draw" \/ ~Playing

\* The shell's parser accepts exactly the lines of its grammar and builds their
\* only derivation, and nulterminate() cuts every word where it ends.
ParsesGrammar == program = "parser" => Pipelines!ParsesGrammar(line)

\* A program starts with the input and output that its line means, and with no
\* other descriptor open.
Wired == /\ program = "pipelines" => Pipelines!Wired
         /\ program = "jobs" => Jobs!Wired

\* The user always gets a prompt again, unless init found the process table
\* full and the kernel went down with it.
PromptReturns ==
    /\ []<>(program = "pipelines" =>
                (\E p \in Pipelines!Procs : Pipelines!At0(p, "prompt")) \/ ~Pipelines!Up)
    /\ []<>(program = "jobs" =>
                (\E p \in Jobs!Procs : Jobs!At0(p, "prompt")) \/ ~Jobs!Up)
=============================================================================
