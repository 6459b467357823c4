------------------------------ MODULE FrogGame ------------------------------
(***************************************************************************)
(* The frog game (Assignment2/source/source.c): the main loop and the two  *)
(* threads that move the frog and the logs, synchronised by two flags and  *)
(* three condition variables.  main() sets the flags without the mutex.    *)
(***************************************************************************)
EXTENDS Integers, FiniteSets

CONSTANTS ROW, COLUMN, LOG_LENGTH,
          Keys      \* what the player may press; "none" for no key

FrogAssumption ==
    /\ ROW \in Nat /\ ROW >= 3 /\ COLUMN \in Nat \ {0} /\ LOG_LENGTH \in 1 .. COLUMN
    /\ Keys \subseteq {"w", "s", "a", "d", "q", "other", "none"}

SPEED == 1
Lanes == 1 .. ROW - 2      \* the row of log i is i + 1

VARIABLES mpc, fpc, lpc,   \* where main, the frog thread and the log thread are
          frogReady,       \* FROG_UPDATE_READY
          logReady,        \* LOG_UPDATE_READY
          frog,            \* [x, y]
          head,            \* heading_position of the log in each lane
          moves,           \* moves of frog and logs since the flags were set
          result,          \* how the game ended
          ride             \* place on its log of a frog that has not jumped
                           \* since the last picture, -1 for none

frogVars == <<mpc, fpc, lpc, frogReady, logReady, frog, head, moves, result, ride>>

FrogInit == /\ mpc = "set_frog" /\ fpc = "test" /\ lpc = "test"
            /\ frogReady = FALSE /\ logReady = FALSE
            /\ frog = [x |-> COLUMN \div 2, y |-> ROW - 1]
            /\ head \in [Lanes -> 0 .. COLUMN - 1]
            /\ moves = [frog |-> 0, log |-> 0]
            /\ result = "playing"
            /\ ride = -1

Playing == result = "playing"
direction(lane) == IF (lane - 1) % 2 = 0 THEN 1 ELSE -1

-----------------------------------------------------------------------------
(* main() *)
SetFrogReady == /\ Playing /\ mpc = "set_frog"
                /\ frogReady' = TRUE
                /\ moves' = [frog |-> 0, log |-> 0]
                /\ mpc' = "set_log"
                /\ UNCHANGED <<fpc, lpc, logReady, frog, head, result, ride>>

SetLogReady == /\ Playing /\ mpc = "set_log"
               /\ logReady' = TRUE
               /\ mpc' = "signal"
               /\ UNCHANGED <<fpc, lpc, frogReady, frog, head, moves, result, ride>>

Woken(pc) == IF pc = "wait" THEN "test" ELSE pc

\* Mutant of NotReady: main goes on when one of the two has moved.
NotReadyBoth == frogReady /\ logReady

NotReady == frogReady \/ logReady

\* Mutant of Signal: the log thread is not signalled.
SignalFrog == /\ Playing /\ mpc = "signal"
              /\ fpc' = Woken(fpc)
              /\ mpc' = IF NotReady THEN "wait" ELSE "draw"
              /\ UNCHANGED <<lpc, frogReady, logReady, frog, head, moves, result, ride>>

\* The section under the mutex: both signals, then the first test of the loop.
Signal == /\ Playing /\ mpc = "signal"
          /\ fpc' = Woken(fpc)
          /\ lpc' = Woken(lpc)
          /\ mpc' = IF NotReady THEN "wait" ELSE "draw"
          /\ UNCHANGED <<frogReady, logReady, frog, head, moves, result, ride>>

MainWoken == /\ Playing /\ mpc = "test"
             /\ mpc' = IF NotReady THEN "wait" ELSE "draw"
             /\ UNCHANGED <<fpc, lpc, frogReady, logReady, frog, head, moves, result, ride>>

\* update_map(): the cells of a log, and the fate of the frog.
Cells(lane) == {(head[lane] + j) % COLUMN : j \in 0 .. LOG_LENGTH - 1}

OutOfMap == frog.x >= COLUMN \/ frog.x < 0 \/ frog.y >= ROW \/ frog.y < 0

Fate == IF OutOfMap THEN "out"
        ELSE IF frog.y \in Lanes /\ frog.x \notin Cells(frog.y) THEN "river"
        ELSE IF frog.y = 0 THEN "win"
        ELSE "playing"

Place == (frog.x - head[frog.y]) % COLUMN

Draw == /\ Playing /\ mpc = "draw"
        /\ result' = Fate
        /\ ride' = IF frog.y \in Lanes THEN Place ELSE -1
        /\ mpc' = "set_frog"
        /\ UNCHANGED <<fpc, lpc, frogReady, logReady, frog, head, moves>>

-----------------------------------------------------------------------------
(* frog_thread_function() *)
FrogWait == /\ Playing /\ fpc = "test" /\ ~frogReady
            /\ fpc' = "wait"
            /\ UNCHANGED <<mpc, lpc, frogReady, logReady, frog, head, moves, result, ride>>

\* handle_keyboard_hit()
KeySpeed(key) == [x |-> CASE key = "a" -> -1 [] key = "d" -> 1 [] OTHER -> 0,
                  y |-> CASE key = "w" -> -1 [] key = "s" -> 1 [] OTHER -> 0]

\* adjust_frog_speed()
Drift == IF frog.y = 0 \/ frog.y = ROW - 1 THEN 0
         ELSE IF frog.y % 2 = 0 THEN -SPEED ELSE SPEED

FrogMove(key) ==
    /\ Playing /\ fpc = "test" /\ frogReady /\ key # "q"
    /\ frog' = [x |-> frog.x + KeySpeed(key).x + Drift, y |-> frog.y + KeySpeed(key).y]
    /\ frogReady' = FALSE
    /\ moves' = [moves EXCEPT !.frog = @ + 1]
    /\ mpc' = Woken(mpc)
    /\ ride' = IF KeySpeed(key) = KeySpeed("none") THEN ride ELSE -1
    /\ UNCHANGED <<fpc, lpc, logReady, head, result>>

Quit == /\ Playing /\ fpc = "test" /\ frogReady /\ "q" \in Keys
        /\ result' = "quit"
        /\ UNCHANGED <<mpc, fpc, lpc, frogReady, logReady, frog, head, moves, ride>>

-----------------------------------------------------------------------------
(* log_thread_function() *)
LogWait == /\ Playing /\ lpc = "test" /\ ~logReady
           /\ lpc' = "wait"
           /\ UNCHANGED <<mpc, fpc, frogReady, logReady, frog, head, moves, result, ride>>

\* handle_logs_movement(): the boundary conditions of the heading position.
Wrapped(h) == IF h >= COLUMN THEN h % COLUMN
              ELSE IF h < 0 THEN COLUMN - ((-h) % COLUMN) ELSE h

LogMove == /\ Playing /\ lpc = "test" /\ logReady
           /\ head' = [i \in Lanes |-> Wrapped(head[i] + direction(i) * SPEED)]
           /\ logReady' = FALSE
           /\ moves' = [moves EXCEPT !.log = @ + 1]
           /\ mpc' = Woken(mpc)
           /\ UNCHANGED <<fpc, lpc, frogReady, frog, result, ride>>

-----------------------------------------------------------------------------
MainStep == SetFrogReady \/ SetLogReady \/ Signal \/ MainWoken \/ Draw
FrogStep == FrogWait \/ Quit \/ \E key \in Keys : FrogMove(key)
LogStep == LogWait \/ LogMove

\* pthread_cond_wait() may return without a signal.
SpuriousWakeup == /\ Playing
                  /\ \/ mpc = "wait" /\ mpc' = "test" /\ UNCHANGED <<fpc, lpc>>
                     \/ fpc = "wait" /\ fpc' = "test" /\ UNCHANGED <<mpc, lpc>>
                     \/ lpc = "wait" /\ lpc' = "test" /\ UNCHANGED <<mpc, fpc>>
                  /\ UNCHANGED <<frogReady, logReady, frog, head, moves, result, ride>>

FrogNext == MainStep \/ FrogStep \/ LogStep \/ SpuriousWakeup

\* The three threads are scheduled.
FrogSpec == FrogInit /\ [][FrogNext]_frogVars
            /\ WF_frogVars(MainStep) /\ WF_frogVars(FrogStep) /\ WF_frogVars(LogStep)

-----------------------------------------------------------------------------
(* Properties *)
FrogType == /\ head \in [Lanes -> 0 .. COLUMN - 1]
            /\ frog.y \in -1 .. ROW /\ frog.x \in -2 .. COLUMN + 1
            /\ frogReady \in BOOLEAN /\ logReady \in BOOLEAN

\* Every picture shows one move of the frog and one of the logs, although the
\* flags are set outside the mutex and the threads see them at any moment.
Shows == mpc = "draw" => moves = [frog |-> 1, log |-> 1]

\* A frog that stays on a log rides it: at the next picture it is on the same
\* place of the log, unless the log has carried it out of the map.
Rides == mpc = "draw" /\ ride # -1 /\ ~OutOfMap
         => Place = ride /\ frog.x \in Cells(frog.y)

\* Pictures, frog and logs stay in step, although main() raises the flags
\* outside the mutex.
InStep == Shows /\ Rides

\* No lost wakeup: every round reaches its picture, or the player quits.
RoundsEnd == mpc = "set_frog" ~> mpc = "draw" \/ ~Playing
=============================================================================
