----------------------------- MODULE HttpServer -----------------------------
(***************************************************************************)
(* The thread-pool HTTP server (Assignment2/3150-p2-bonus-main): the       *)
(* accept loop, the task queue and workers of async.c, the file handler    *)
(* and the proxy handler with its two relay threads.                       *)
(*                                                                         *)
(* Sections under the mutex "lock" of async.c are single actions.  The     *)
(* proxy handler's condition variable is used without its mutex, so its    *)
(* test, its wait, the flag and the signal are separate actions.  The      *)
(* frame of proxy_request_handler() lies at the same place of a worker's   *)
(* stack in every call: a relay thread that outlives its call shares       *)
(* "finished" and "cond" with the next call of that worker.                *)
(***************************************************************************)
EXTENDS Integers, Sequences, FiniteSets, SequencesExt

CONSTANTS Workers, Sockets,
          NoFd,           \* no socket
          TargetUp,       \* connect_to_host() always succeeds
          Spurious,       \* condition variables may wake without a signal
          MaxRequests,    \* bound on the connections accepted, as a file server
          ProxyRequests   \* and as a proxy

HttpAssumption == /\ TargetUp \in BOOLEAN /\ Spurious \in BOOLEAN
                  /\ MaxRequests \in Nat /\ ProxyRequests \in Nat
                  /\ NoFd \notin Sockets

VARIABLES handler,   \* request_handler: "files" or "proxy"
          up,        \* the server process runs
          accepted,  \* connections accepted so far
          open,      \* client sockets that are open
          queue,     \* task_queue
          wpc,       \* where each worker is
          task,      \* the client socket it handles
          call,      \* number of the proxy call whose frame is on its stack
          finished,  \* the flag in that frame
          relays     \* relay threads: [w, call, k, pc]

httpVars == <<handler, up, accepted, open, queue, wpc, task, call, finished, relays>>

\* main() is started with --files or with --proxy.
Handlers == {"files", "proxy"}

HttpInit == /\ handler \in Handlers
            /\ up = TRUE
            /\ accepted = 0
            /\ open = {}
            /\ queue = << >>
            /\ wpc = [w \in Workers |-> "ready"]
            /\ task = [w \in Workers |-> NoFd]
            /\ call = [w \in Workers |-> 0]
            /\ finished = [w \in Workers |-> FALSE]
            /\ relays = {}

Move(w, pc) == wpc' = [wpc EXCEPT ![w] = pc]

-----------------------------------------------------------------------------
(* serve_forever() and async_run() *)
Waiting == {w \in Workers : wpc[w] = "waiting"}

\* Mutant of Signalled: async_run() does not signal.
SignalledNone == {wpc}

\* pthread_cond_signal(&cond_var): one waiter, if there is any.
Signalled == IF Waiting = {} THEN {wpc}
             ELSE {[wpc EXCEPT ![w] = "ready"] : w \in Waiting}

Bound == IF handler = "files" THEN MaxRequests ELSE ProxyRequests

Accept(fd) ==
    /\ up /\ fd \notin open /\ accepted < Bound
    /\ accepted' = accepted + 1
    /\ open' = open \cup {fd}
    /\ queue' = Append(queue, fd)
    /\ wpc' \in Signalled
    /\ UNCHANGED <<handler, up, task, call, finished, relays>>

-----------------------------------------------------------------------------
(* worker() *)
WorkerWait(w) ==
    /\ up /\ wpc[w] = "ready" /\ queue = << >>
    /\ Move(w, "waiting")
    /\ UNCHANGED <<handler, up, accepted, open, queue, task, call, finished, relays>>

\* Mutant of WorkerPop: the queue keeps its head.
WorkerPeek(w) ==
    /\ up /\ wpc[w] = "ready" /\ queue # << >>
    /\ task' = [task EXCEPT ![w] = Head(queue)]
    /\ Move(w, "run")
    /\ UNCHANGED <<handler, up, accepted, open, queue, call, finished, relays>>

WorkerPop(w) ==
    /\ up /\ wpc[w] = "ready" /\ queue # << >>
    /\ task' = [task EXCEPT ![w] = Head(queue)]
    /\ queue' = Tail(queue)
    /\ Move(w, "run")
    /\ UNCHANGED <<handler, up, accepted, open, call, finished, relays>>

SpuriousWake(w) ==
    /\ up /\ Spurious /\ wpc[w] = "waiting"
    /\ Move(w, "ready")
    /\ UNCHANGED <<handler, up, accepted, open, queue, task, call, finished, relays>>

\* handle_files_request(): every path ends with close(fd).
FilesRequest(w) ==
    /\ up /\ handler = "files" /\ wpc[w] = "run"
    /\ open' = open \ {task[w]}
    /\ task' = [task EXCEPT ![w] = NoFd]
    /\ Move(w, "ready")
    /\ UNCHANGED <<handler, up, accepted, queue, call, finished, relays>>

-----------------------------------------------------------------------------
(* proxy_request_handler() *)
Connect(w) ==
    /\ up /\ handler = "proxy" /\ wpc[w] = "run"
    /\ Move(w, "spawn")
    /\ UNCHANGED <<handler, up, accepted, open, queue, task, call, finished, relays>>

\* connect_to_host() failed: exit(errno) ends the whole server.
ConnectFails(w) ==
    /\ up /\ handler = "proxy" /\ ~TargetUp /\ wpc[w] = "run"
    /\ up' = FALSE
    /\ UNCHANGED <<handler, accepted, open, queue, wpc, task, call, finished, relays>>

Spawn(w) ==
    /\ up /\ wpc[w] = "spawn"
    /\ finished' = [finished EXCEPT ![w] = FALSE]
    /\ call' = [call EXCEPT ![w] = @ + 1]
    /\ relays' = relays \cup {[w |-> w, call |-> call[w] + 1, k |-> k, pc |-> "relay"] :
                              k \in {"request", "response"}}
    /\ Move(w, "check")
    /\ UNCHANGED <<handler, up, accepted, open, queue, task>>

\* if(!finished) pthread_cond_wait(&cond, &mutex): the test ...
Check(w) ==
    /\ up /\ wpc[w] = "check"
    /\ Move(w, IF finished[w] THEN "close" ELSE "enter")
    /\ UNCHANGED <<handler, up, accepted, open, queue, task, call, finished, relays>>

\* ... and the wait.
EnterWait(w) ==
    /\ up /\ wpc[w] = "enter"
    /\ Move(w, "condwait")
    /\ UNCHANGED <<handler, up, accepted, open, queue, task, call, finished, relays>>

SpuriousReturn(w) ==
    /\ up /\ Spurious /\ wpc[w] = "condwait"
    /\ Move(w, "close")
    /\ UNCHANGED <<handler, up, accepted, open, queue, task, call, finished, relays>>

CloseBoth(w) ==
    /\ up /\ wpc[w] = "close"
    /\ open' = open \ {task[w]}
    /\ task' = [task EXCEPT ![w] = NoFd]
    /\ Move(w, "ready")
    /\ UNCHANGED <<handler, up, accepted, queue, call, finished, relays>>

(* relay_message(): the loop ends, the flag is set, the signal is sent. *)
RelayMove(r, pc) == relays' = (relays \ {r}) \cup {[r EXCEPT !.pc = pc]}

RelayEnds(r) ==
    /\ up /\ r.pc = "relay"
    /\ RelayMove(r, "flag")
    /\ UNCHANGED <<handler, up, accepted, open, queue, wpc, task, call, finished>>

RelayFlag(r) ==
    /\ up /\ r.pc = "flag"
    /\ finished' = [finished EXCEPT ![r.w] = TRUE]
    /\ RelayMove(r, "signal")
    /\ UNCHANGED <<handler, up, accepted, open, queue, wpc, task, call>>

RelaySignal(r) ==
    /\ up /\ r.pc = "signal"
    /\ IF wpc[r.w] = "condwait" THEN Move(r.w, "close") ELSE UNCHANGED wpc
    /\ relays' = relays \ {r}
    /\ UNCHANGED <<handler, up, accepted, open, queue, task, call, finished>>

-----------------------------------------------------------------------------
WorkerStep(w) == \/ WorkerWait(w) \/ WorkerPop(w) \/ FilesRequest(w)
                 \/ Connect(w) \/ Spawn(w) \/ Check(w) \/ EnterWait(w)
                 \/ CloseBoth(w)
RelayStep(r) == RelayEnds(r) \/ RelayFlag(r) \/ RelaySignal(r)

HttpNext == \/ \E fd \in Sockets : Accept(fd)
            \/ \E w \in Workers : WorkerStep(w) \/ SpuriousWake(w) \/ SpuriousReturn(w)
                                  \/ ConnectFails(w)
            \/ \E r \in relays : RelayStep(r)

\* Threads are scheduled, files are finite and peers close their connections.
HttpFairness == /\ \A w \in Workers : WF_httpVars(WorkerStep(w))
                /\ WF_httpVars(\E r \in relays : RelayStep(r))

HttpSpec == HttpInit /\ [][HttpNext]_httpVars /\ HttpFairness

-----------------------------------------------------------------------------
HttpType ==
    /\ up \in BOOLEAN /\ accepted \in 0 .. Bound
    /\ open \subseteq Sockets /\ queue \in Seq(Sockets)
    /\ task \in [Workers -> Sockets \cup {NoFd}]
    /\ \A w \in Workers : wpc[w] \in {"ready", "waiting"} <=> task[w] = NoFd

InQueue(fd) == fd \in ToSet(queue)
Handling(fd) == {w \in Workers : task[w] = fd}

\* Every open client socket has exactly one owner, the queue or a worker, and
\* neither keeps a socket that was closed, although socket numbers are reused.
OneOwner ==
    /\ IsInjective(queue)
    /\ \A fd \in Sockets :
         Cardinality(Handling(fd)) + (IF InQueue(fd) THEN 1 ELSE 0)
           = IF fd \in open THEN 1 ELSE 0

\* "For each accepted connection, calls request_handler": none stays in the queue.
EveryConnectionHandled == \A fd \in Sockets : InQueue(fd) ~> ~InQueue(fd)

\* The proxy handler closes the client only after one of the two relays of
\* its own request has ended.
NotCutShort ==
    \A w \in Workers : wpc[w] = "close" =>
        Cardinality({r \in relays : r.w = w /\ r.call = call[w] /\ r.pc = "relay"}) < 2
=============================================================================
