--------------------------- MODULE ProgramsProofs ---------------------------
(***************************************************************************)
(* Proofs about the programs with POSIX threads of Assignment2: the frog   *)
(* game, for every size of the map, every length of the logs and whatever  *)
(* the player presses, and the HTTP server, for any number of workers and  *)
(* sockets, as a file server and as a proxy.                               *)
(***************************************************************************)
EXTENDS FrogGame, HttpServer, NumberFacts, FiniteSetTheorems, TLAPS

(***************************************************************************)
(* The frog game.                                                          *)
(***************************************************************************)
FrogTypes ==
    /\ mpc \in {"set_frog", "set_log", "signal", "wait", "test", "draw"}
    /\ frogReady \in BOOLEAN /\ logReady \in BOOLEAN
    /\ frog \in [x : Int, y : Int]
    /\ head \in [Lanes -> Int]
    /\ moves \in [frog : Int, log : Int]
    /\ ride \in Int

\* The moves made since main() raised a flag: one as soon as it is lowered.
Done(ready) == IF ready THEN 0 ELSE 1
Rounds ==
    /\ mpc = "set_frog" => ~frogReady /\ ~logReady /\ moves.frog = moves.log
    /\ mpc = "set_log" => ~logReady /\ moves.log = 0
    /\ mpc # "set_frog" => moves.frog = Done(frogReady)
    /\ mpc \notin {"set_frog", "set_log"} => moves.log = Done(logReady)
    /\ mpc = "draw" => ~frogReady /\ ~logReady /\ Playing

\* How far the frog has been carried while its log has still to move.
Lead(lane) == IF direction(lane) = 1 THEN moves.frog - moves.log ELSE moves.log - moves.frog
OnLog == Playing /\ ride # -1 =>
             /\ ride \in 0 .. LOG_LENGTH - 1 /\ frog.y \in Lanes
             /\ (frog.x - head[frog.y] - Lead(frog.y)) % COLUMN = ride

FrogInv == FrogTypes /\ Rounds /\ OnLog

\* The cells of a log are those less than LOG_LENGTH behind its head.
LEMMA OnCells ==
    ASSUME NEW m \in Nat \ {0}, NEW len \in 1 .. m, NEW h \in Int, NEW x \in 0 .. m - 1
    PROVE  x \in {(h + j) % m : j \in 0 .. len - 1} <=> (x - h) % m \in 0 .. len - 1
<1>1. ASSUME NEW j \in 0 .. len - 1, x = (h + j) % m
      PROVE  (x - h) % m = j
  <2>1. PICK q \in Int : h + j = m * q + x
    BY <1>1, ModDef, h + j \in Int
  <2>2. x - h = m * (-q) + j /\ -q \in Int /\ j \in 0 .. m - 1 /\ x - h \in Int
    BY <2>1
  <2> QED
    BY <2>2, ModUnique
<1>2. ASSUME (x - h) % m \in 0 .. len - 1
      PROVE  x = (h + ((x - h) % m)) % m
  <2>1. PICK j \in 0 .. len - 1 : j = (x - h) % m
    BY <1>2
  <2>2. PICK q \in Int : x - h = m * q + j
    BY <2>1, ModDef, x - h \in Int
  <2>3. h + j = m * (-q) + x /\ -q \in Int /\ h + j \in Int
    BY <2>2
  <2> QED
    BY <2>1, <2>3, ModUnique
<1> QED
  BY <1>1, <1>2

\* The boundary conditions of handle_logs_movement() change the head by a
\* multiple of COLUMN.
LEMMA WrappedFacts ==
    ASSUME FrogAssumption, NEW h \in Int
    PROVE  /\ Wrapped(h) \in Int
           /\ \A x \in Int : (x - Wrapped(h)) % COLUMN = (x - h) % COLUMN
<1> COLUMN \in Nat \ {0}
  BY DEF FrogAssumption
<1>1. PICK q \in Int : Wrapped(h) = h + COLUMN * q
  <2>1. CASE h >= COLUMN
    <3>1. PICK p \in Int : h = COLUMN * p + (h % COLUMN)
      BY ModDef
    <3>2. h % COLUMN = h + COLUMN * (-p) /\ -p \in Int
      BY <3>1
    <3> QED
      BY <2>1, <3>2 DEF Wrapped
  <2>2. CASE h < 0
    <3>0. PICK r \in Int : r = (-h) % COLUMN
      BY -h \in Int
    <3>1. PICK p \in Int : -h = COLUMN * p + ((-h) % COLUMN)
      BY ModDef, -h \in Int
    <3>a. PICK c \in Int : c = COLUMN * p
      OBVIOUS
    <3>2. COLUMN * (p + 1) = c + COLUMN /\ p + 1 \in Int
      BY <3>a
    <3>b. -h = c + r
      BY <3>0, <3>1, <3>a
    <3>4. COLUMN - r = h + COLUMN * (p + 1)
      <4>1. COLUMN - r = h + (c + COLUMN)
        BY <3>b
      <4> QED
        BY <4>1, <3>2
    <3>3. ~(h >= COLUMN)
      BY <2>2
    <3> QED
      BY <2>2, <3>0, <3>2, <3>3, <3>4 DEF Wrapped
  <2>3. CASE ~(h >= COLUMN) /\ ~(h < 0)
    <3>1. Wrapped(h) = h /\ h = h + COLUMN * 0
      BY <2>3 DEF Wrapped
    <3> QED
      BY <3>1
  <2> QED
    BY <2>1, <2>2, <2>3
<1>2. COLUMN * q \in Int /\ (COLUMN * q) % COLUMN = 0
  <2>1. COLUMN * q \in Int /\ COLUMN * q = COLUMN * q + 0 /\ 0 \in 0 .. COLUMN - 1
    OBVIOUS
  <2> QED
    BY <2>1, ModUnique
<1>3. ASSUME NEW x \in Int
      PROVE  (x - Wrapped(h)) % COLUMN = (x - h) % COLUMN
  <2>1. PICK c \in Int : c = COLUMN * q
    BY <1>2
  <2>2. x - Wrapped(h) = (x - h) - c /\ x - h \in Int
    BY <1>1, <2>1
  <2>3. ((x - h) - c) % COLUMN = (x - h) % COLUMN
    BY <1>2, <2>1, <2>2, ModShift
  <2> QED
    BY <2>2, <2>3
<1> QED
  BY <1>1, <1>2, <1>3

\* A frog on a lane drifts the way the log of that lane goes.
LEMMA DriftFacts ==
    ASSUME FrogAssumption, NEW lane \in Lanes
    PROVE  /\ direction(lane) \in {1, -1}
           /\ frog.y = lane => Drift = direction(lane)
<1>1. lane \in Int /\ lane # 0 /\ lane # ROW - 1
  BY DEF Lanes, FrogAssumption
<1>2. (lane - 1) % 2 = 0 <=> lane % 2 # 0
  BY <1>1
<1> QED
  BY <1>1, <1>2 DEF direction, Drift, SPEED

\* The three threads in turn, apart from the moves of frog and logs.
LEMMA MainStepInv ==
    ASSUME FrogAssumption, FrogInv, MainStep \/ FrogWait \/ Quit \/ LogWait \/ SpuriousWakeup
    PROVE  FrogInv'
<1> USE DEF FrogInv
<1>1. CASE SetFrogReady
  <2>1. FrogTypes'
    BY <1>1 DEF SetFrogReady, FrogTypes
  <2>2. Rounds'
    BY <1>1 DEF SetFrogReady, FrogTypes, Rounds, Done
  <2>3. \A lane \in Lanes : Lead(lane)' = Lead(lane)
    <3>1. moves'.frog - moves'.log = 0 /\ moves'.log - moves'.frog = 0
      BY <1>1 DEF SetFrogReady
    <3>2. moves.frog - moves.log = 0 /\ moves.log - moves.frog = 0
      BY <1>1 DEF SetFrogReady, Rounds, FrogTypes
    <3> QED
      BY <3>1, <3>2 DEF Lead, direction
  <2>4. OnLog'
    BY <1>1, <2>3 DEF SetFrogReady, OnLog, Playing
  <2> QED
    BY <2>1, <2>2, <2>4
<1>2. CASE Draw
  <2>1. FrogTypes'
    <3>1. frog.y \in Lanes => Place \in Int
      BY DEF FrogTypes, FrogAssumption, Place
    <3> QED
      BY <1>2, <3>1 DEF Draw, FrogTypes
  <2>2. Rounds'
    BY <1>2 DEF Draw, FrogTypes, Rounds, Done
  <2>3. ASSUME Playing', ride' # -1
        PROVE  /\ ride' \in 0 .. LOG_LENGTH - 1 /\ frog'.y \in Lanes
               /\ (frog'.x - head'[frog'.y] - Lead(frog.y)') % COLUMN = ride'
    <3>1. frog.y \in Lanes /\ ride' = Place /\ frog' = frog /\ head' = head /\ moves' = moves
      BY <1>2, <2>3 DEF Draw
    <3>2. Fate = "playing"
      BY <1>2, <2>3 DEF Draw, Playing
    <3>3. ~OutOfMap /\ frog.x \in Cells(frog.y)
      BY <3>1, <3>2 DEF Fate
    <3>4. frog.x \in 0 .. COLUMN - 1
      BY <3>3 DEF OutOfMap, FrogTypes, FrogAssumption
    <3>5. head[frog.y] \in Int /\ COLUMN \in Nat \ {0} /\ LOG_LENGTH \in 1 .. COLUMN
      BY <3>1 DEF FrogTypes, FrogAssumption
    <3>6. (frog.x - head[frog.y]) % COLUMN \in 0 .. LOG_LENGTH - 1
      BY <3>3, <3>4, <3>5, OnCells DEF Cells
    <3>7. moves.frog - moves.log = 0 /\ moves.log - moves.frog = 0
      BY <1>2 DEF Draw, Rounds, Done, FrogTypes
    <3>8. Lead(frog.y)' = 0
      BY <3>1, <3>7 DEF Lead, direction
    <3>9. (frog.x - head[frog.y]) - 0 = frog.x - head[frog.y]
      BY <3>4, <3>5
    <3> QED
      BY <3>1, <3>6, <3>8, <3>9 DEF Place
  <2>4. OnLog'
    BY <1>2, <2>3 DEF Draw, OnLog, Lead
  <2> QED
    BY <2>1, <2>2, <2>4
<1>3. CASE SetLogReady \/ Signal \/ MainWoken \/ FrogWait \/ Quit \/ LogWait \/ SpuriousWakeup
  <2>1. /\ UNCHANGED <<frogReady, frog, head, moves, ride>> /\ Playing /\ (logReady' = logReady \/ SetLogReady)
        /\ UNCHANGED result \/ Quit
    BY <1>3 DEF SetLogReady, Signal, MainWoken, FrogWait, Quit, LogWait, SpuriousWakeup
  <2>2. FrogTypes'
    BY <1>3, <2>1
       DEF SetLogReady, Signal, MainWoken, FrogWait, Quit, LogWait, SpuriousWakeup, FrogTypes
  <2>3. Rounds'
    <3>1. CASE SetLogReady
      BY <3>1 DEF SetLogReady, FrogTypes, Rounds, Done
    <3>2. CASE Signal \/ MainWoken
      BY <3>2 DEF Signal, MainWoken, NotReady, FrogTypes, Rounds, Done, Playing
    <3>3. CASE FrogWait \/ LogWait
      BY <3>3 DEF FrogWait, LogWait, Rounds, Playing
    <3>4. CASE Quit
      BY <3>4 DEF Quit, Rounds, Done, FrogTypes, Playing
    <3>5. CASE SpuriousWakeup
      BY <3>5 DEF SpuriousWakeup, Rounds, Done, FrogTypes, Playing
    <3> QED
      BY <1>3, <3>1, <3>2, <3>3, <3>4, <3>5
  <2>4. OnLog'
    BY <2>1 DEF OnLog, Lead, direction, Playing
  <2> QED
    BY <2>2, <2>3, <2>4
<1> QED
  BY <1>1, <1>2, <1>3 DEF MainStep

\* A frog that stays on its log is carried one cell, and is ahead of the log
\* by one move more.
LEMMA FrogMoveInv ==
    ASSUME FrogAssumption, FrogInv, NEW key \in Keys, FrogMove(key)
    PROVE  FrogInv'
<1> USE DEF FrogInv
<1>1. PICK dx \in {-1, 0, 1}, dy \in {-1, 0, 1} : KeySpeed(key) = [x |-> dx, y |-> dy]
  BY DEF KeySpeed
<1>2. Drift \in Int
  BY DEF Drift, SPEED
<1>3. frog' = [x |-> frog.x + dx + Drift, y |-> frog.y + dy]
  BY <1>1 DEF FrogMove
<1>4. /\ frogReady /\ frogReady' = FALSE /\ UNCHANGED <<logReady, head, result>>
      /\ moves' = [moves EXCEPT !.frog = moves.frog + 1]
      /\ mpc' = Woken(mpc) /\ Playing
      /\ (ride' = ride /\ dx = 0 /\ dy = 0) \/ ride' = -1
  BY <1>1 DEF FrogMove, KeySpeed
<1>5. moves'.frog = moves.frog + 1 /\ moves'.log = moves.log
  BY <1>4 DEF FrogTypes
<1>6. FrogTypes'
  <2>1. frog' \in [x : Int, y : Int]
    <3>1. frog.x + dx + Drift \in Int /\ frog.y + dy \in Int
      BY <1>2 DEF FrogTypes
    <3> QED
      BY <1>3, <3>1
  <2>2. moves' \in [frog : Int, log : Int]
    <3>1. moves.frog + 1 \in Int
      BY DEF FrogTypes
    <3> QED
      BY <1>4, <3>1 DEF FrogTypes
  <2>3. mpc' \in {"set_frog", "set_log", "signal", "wait", "test", "draw"}
    BY <1>4 DEF FrogTypes, Woken
  <2>4. ride' \in Int
    BY <1>4 DEF FrogTypes
  <2>6. frogReady' \in BOOLEAN /\ logReady' \in BOOLEAN
    BY DEF FrogMove, FrogTypes
  <2>5. head' \in [Lanes -> Int]
    BY <1>4 DEF FrogTypes
  <2> QED
    BY <2>1, <2>2, <2>3, <2>4, <2>5, <2>6 DEF FrogTypes
<1>7. Rounds'
  BY <1>4, <1>5 DEF Rounds, Done, FrogTypes, Woken, Playing
<1>8. OnLog'
  <2>1. SUFFICES ASSUME ride' # -1
                 PROVE  /\ ride' \in 0 .. LOG_LENGTH - 1 /\ frog'.y \in Lanes
                        /\ (frog'.x - head'[frog'.y] - Lead(frog.y)') % COLUMN = ride'
    BY DEF OnLog
  <2>2. ride' = ride /\ dx = 0 /\ dy = 0
    BY <1>4, <2>1
  <2>3. /\ ride \in 0 .. LOG_LENGTH - 1 /\ frog.y \in Lanes
        /\ (frog.x - head[frog.y] - Lead(frog.y)) % COLUMN = ride
    BY <1>4, <2>1, <2>2 DEF OnLog
  <2>4. direction(frog.y) \in {1, -1} /\ Drift = direction(frog.y)
    BY <2>3, DriftFacts
  <2>5. frog'.x = frog.x + direction(frog.y) /\ frog'.y = frog.y
    BY <1>3, <2>2, <2>4 DEF FrogTypes
  <2>6. Lead(frog.y)' = Lead(frog.y) + direction(frog.y) /\ Lead(frog.y) \in Int
    <3>1. direction(frog.y)' = direction(frog.y)
      BY <2>5 DEF direction
    <3>2. Lead(frog.y)' = IF direction(frog.y)' = 1 THEN moves'.frog - moves'.log
                                                    ELSE moves'.log - moves'.frog
      BY DEF Lead
    <3>3. moves.frog \in Int /\ moves.log \in Int
      BY DEF FrogTypes
    <3> QED
      BY <2>4, <1>5, <3>1, <3>2, <3>3 DEF Lead
  <2>7. head[frog.y] \in Int /\ frog.x \in Int
    BY <2>3 DEF FrogTypes
  <2>8. (frog.x + direction(frog.y)) - head[frog.y] - (Lead(frog.y) + direction(frog.y))
          = frog.x - head[frog.y] - Lead(frog.y)
    BY <2>4, <2>6, <2>7
  <2> QED
    BY <1>4, <2>2, <2>3, <2>5, <2>6, <2>8
<1> QED
  BY <1>6, <1>7, <1>8

\* The log follows: the same cell of it is under the frog.
LEMMA LogMoveInv ==
    ASSUME FrogAssumption, FrogInv, LogMove
    PROVE  FrogInv'
<1> USE DEF FrogInv
<1>1. /\ logReady /\ logReady' = FALSE /\ UNCHANGED <<frogReady, frog, ride, result>>
      /\ moves' = [moves EXCEPT !.log = moves.log + 1]
      /\ mpc' = Woken(mpc) /\ Playing
      /\ head' = [i \in Lanes |-> Wrapped(head[i] + direction(i) * SPEED)]
  BY DEF LogMove
<1>2. moves'.log = moves.log + 1 /\ moves'.frog = moves.frog
  BY <1>1 DEF FrogTypes
<1>3. ASSUME NEW lane \in Lanes
      PROVE  /\ direction(lane) \in {1, -1} /\ head[lane] \in Int
             /\ head[lane] + direction(lane) \in Int
             /\ head'[lane] = Wrapped(head[lane] + direction(lane)) /\ head'[lane] \in Int
  <2>1. direction(lane) \in {1, -1} /\ head[lane] \in Int
    BY DriftFacts DEF FrogTypes
  <2>2. direction(lane) * SPEED = direction(lane) /\ head[lane] + direction(lane) \in Int
    BY <2>1 DEF SPEED
  <2>3. head'[lane] = Wrapped(head[lane] + direction(lane))
    BY <1>1, <2>2
  <2> QED
    BY <2>1, <2>2, <2>3, WrappedFacts
<1>4. FrogTypes'
  <2>1. moves' \in [frog : Int, log : Int]
    <3>1. moves.log + 1 \in Int
      BY DEF FrogTypes
    <3> QED
      BY <1>1, <3>1 DEF FrogTypes
  <2>2. head' \in [Lanes -> Int]
    <3>1. head' = [i \in Lanes |-> head'[i]]
      BY <1>1
    <3> QED
      BY <3>1, <1>3
  <2> QED
    BY <1>1, <2>1, <2>2 DEF FrogTypes, Woken
<1>5. Rounds'
  BY <1>1, <1>2 DEF Rounds, Done, FrogTypes, Woken, Playing
<1>6. OnLog'
  <2>1. SUFFICES ASSUME ride # -1
                 PROVE  /\ ride \in 0 .. LOG_LENGTH - 1 /\ frog.y \in Lanes
                        /\ (frog.x - head'[frog.y] - Lead(frog.y)') % COLUMN = ride
    BY <1>1 DEF OnLog
  <2>2. /\ ride \in 0 .. LOG_LENGTH - 1 /\ frog.y \in Lanes
        /\ (frog.x - head[frog.y] - Lead(frog.y)) % COLUMN = ride
    BY <1>1, <2>1 DEF OnLog
  <2> DEFINE d == direction(frog.y)
             h == head[frog.y]
             l == Lead(frog.y)
  <2>3. d \in {1, -1} /\ h \in Int /\ h + d \in Int
        /\ head'[frog.y] = Wrapped(h + d) /\ head'[frog.y] \in Int
    BY <1>3, <2>2
  <2>4. Lead(frog.y)' = l - d /\ l \in Int
    <3>0. direction(frog.y)' = d
      BY <1>1 DEF direction
    <3>1. Lead(frog.y)' = IF direction(frog.y)' = 1 THEN moves'.frog - moves'.log
                                                    ELSE moves'.log - moves'.frog
      BY DEF Lead
    <3>2. moves.frog \in Int /\ moves.log \in Int
      BY DEF FrogTypes
    <3> QED
      BY <1>2, <2>3, <3>0, <3>1, <3>2 DEF Lead
  <2> HIDE DEF d, h, l
  <2>5. frog.x \in Int
    BY DEF FrogTypes
  <2>6. (frog.x - (l - d) - Wrapped(h + d)) % COLUMN = (frog.x - (l - d) - (h + d)) % COLUMN
    BY <2>3, <2>4, <2>5, WrappedFacts, frog.x - (l - d) \in Int
  <2>7. frog.x - (l - d) - (h + d) = frog.x - h - l
    BY <2>3, <2>4, <2>5
  <2>8. frog.x - (l - d) - Wrapped(h + d) = frog.x - Wrapped(h + d) - (l - d)
    BY <2>3, <2>4, <2>5
  <2>9. (frog.x - h - l) % COLUMN = ride
    BY <2>2 DEF h, l
  <2> QED
    BY <2>2, <2>3, <2>4, <2>6, <2>7, <2>8, <2>9
<1> QED
  BY <1>4, <1>5, <1>6

LEMMA FrogInitInv == ASSUME FrogAssumption, FrogInit PROVE FrogInv
<1>1. frog \in [x : Int, y : Int]
  <2>1. COLUMN \div 2 \in Int /\ ROW - 1 \in Int
    BY DEF FrogAssumption
  <2> QED
    BY <2>1 DEF FrogInit
<1>2. head \in [Lanes -> Int]
  BY DEF FrogInit, FrogAssumption
<1>3. FrogTypes
  <2>1. moves \in [frog : Int, log : Int] /\ ride \in Int
    BY DEF FrogInit
  <2>2. /\ mpc \in {"set_frog", "set_log", "signal", "wait", "test", "draw"}
        /\ frogReady \in BOOLEAN /\ logReady \in BOOLEAN
    BY DEF FrogInit
  <2> QED
    BY <1>1, <1>2, <2>1, <2>2 DEF FrogTypes
<1>4. Rounds /\ OnLog
  BY DEF FrogInit, Rounds, OnLog
<1> QED
  BY <1>3, <1>4 DEF FrogInv

\* At a picture both have moved, and a frog that rides is in a cell of its log.
LEMMA FrogInvInStep == ASSUME FrogAssumption, FrogInv PROVE InStep
<1> SUFFICES ASSUME mpc = "draw" PROVE InStep
  BY DEF InStep, Shows, Rides
<1>1. moves = [frog |-> 1, log |-> 1] /\ Playing
  BY DEF FrogInv, FrogTypes, Rounds, Done
<1>2. ASSUME ride # -1, ~OutOfMap
      PROVE  Place = ride /\ frog.x \in Cells(frog.y)
  <2>1. /\ ride \in 0 .. LOG_LENGTH - 1 /\ frog.y \in Lanes
        /\ (frog.x - head[frog.y] - Lead(frog.y)) % COLUMN = ride
    BY <1>1, <1>2 DEF FrogInv, OnLog
  <2>2. frog.x \in 0 .. COLUMN - 1
    BY <1>2 DEF OutOfMap, FrogInv, FrogTypes, FrogAssumption
  <2>3. head[frog.y] \in Int /\ COLUMN \in Nat \ {0} /\ LOG_LENGTH \in 1 .. COLUMN
    BY <2>1 DEF FrogInv, FrogTypes, FrogAssumption
  <2>4. Lead(frog.y) = 0
    BY <1>1 DEF Lead
  <2>5. (frog.x - head[frog.y]) - 0 = frog.x - head[frog.y]
    BY <2>2, <2>3
  <2>6. Place = ride
    BY <2>1, <2>4, <2>5 DEF Place
  <2>7. frog.x \in Cells(frog.y)
    BY <2>1, <2>2, <2>3, <2>6, OnCells DEF Cells, Place
  <2> QED
    BY <2>6, <2>7
<1> QED
  BY <1>1, <1>2 DEF InStep, Shows, Rides

\* The game shows one move of each in every picture, and a frog that stays on
\* a log is at the next picture on the same place of it, for every size of the
\* map (main() raises the flags outside the mutex of the two threads).
THEOREM FrogInStep == FrogAssumption /\ FrogSpec => []InStep
<1> SUFFICES ASSUME FrogAssumption PROVE FrogSpec => []InStep
  OBVIOUS
<1>1. FrogInit => FrogInv
  BY FrogInitInv
<1>2. FrogInv /\ [FrogNext]_frogVars => FrogInv'
  <2> SUFFICES ASSUME FrogInv, [FrogNext]_frogVars PROVE FrogInv'
    OBVIOUS
  <2>1. CASE \E key \in Keys : FrogMove(key)
    BY <2>1, FrogMoveInv
  <2>2. CASE LogMove
    BY <2>2, LogMoveInv
  <2>3. CASE MainStep \/ FrogWait \/ Quit \/ LogWait \/ SpuriousWakeup
    BY <2>3, MainStepInv
  <2>4. CASE UNCHANGED frogVars
    BY <2>4 DEF frogVars, FrogInv, FrogTypes, Rounds, OnLog, Lead, Playing
  <2> QED
    BY <2>1, <2>2, <2>3, <2>4 DEF FrogNext, FrogStep, LogStep
<1>3. FrogInv => InStep
  BY FrogInvInStep
<1> QED
  BY <1>1, <1>2, <1>3, PTL DEF FrogSpec

-----------------------------------------------------------------------------
(***************************************************************************)
(* The HTTP server.                                                        *)
(***************************************************************************)
Idle == {"ready", "waiting"}
Busy == {"run", "spawn", "check", "enter", "condwait", "close"}

HttpTypes == /\ open \subseteq Sockets /\ queue \in Seq(Sockets)
             /\ task \in [Workers -> Sockets \cup {NoFd}]
             /\ wpc \in [Workers -> Idle \cup Busy]
             /\ \A w \in Workers : task[w] = NoFd <=> wpc[w] \in Idle

\* The open sockets are shared out between the queue and the workers.
Shared == /\ \A i, j \in 1 .. Len(queue) : queue[i] = queue[j] => i = j
          /\ \A i \in 1 .. Len(queue) : \A w \in Workers : queue[i] # task[w]
          /\ \A v, w \in Workers : task[v] = task[w] /\ v # w => task[v] = NoFd
          /\ \A fd \in Sockets : fd \in open <=> \/ \E i \in 1 .. Len(queue) : queue[i] = fd
                                             \/ \E w \in Workers : task[w] = fd

HttpInv == HttpTypes /\ Shared

LEMMA HttpInitInv == ASSUME HttpAssumption, HttpInit PROVE HttpInv
<1>1. HttpTypes
  BY DEF HttpInit, HttpTypes, Idle
<1>2. Shared
  BY DEF HttpInit, Shared, HttpAssumption
<1> QED
  BY <1>1, <1>2 DEF HttpInv

\* async_run() puts a socket behind the others, and wakes at most one worker.
LEMMA AcceptInv ==
    ASSUME HttpAssumption, HttpInv, NEW fd \in Sockets, Accept(fd)
    PROVE  HttpInv'
<1> USE DEF HttpInv
<1>1. /\ fd \notin open /\ open' = open \cup {fd} /\ queue' = Append(queue, fd) /\ task' = task
      /\ wpc' \in Signalled
  BY DEF Accept
<1>2. PICK n \in Nat : n = Len(queue)
  BY DEF HttpTypes
<1>3. /\ queue' \in Seq(Sockets) /\ Len(queue') = n + 1 /\ queue'[n + 1] = fd
      /\ \A i \in 1 .. n : queue'[i] = queue[i] /\ queue[i] \in Sockets
  BY <1>1, <1>2 DEF HttpTypes
<1>4. wpc' \in [Workers -> Idle \cup Busy] /\ \A w \in Workers : wpc'[w] \in Idle <=> wpc[w] \in Idle
  <2>1. CASE wpc' = wpc
    BY <2>1 DEF HttpTypes
  <2>2. CASE wpc' # wpc
    <3>1. PICK v \in Waiting : wpc' = [wpc EXCEPT ![v] = "ready"]
      BY <1>1, <2>2 DEF Signalled
    <3>2. v \in Workers /\ wpc[v] = "waiting"
      BY <3>1 DEF Waiting
    <3> QED
      BY <3>1, <3>2 DEF HttpTypes, Idle
  <2> QED
    BY <2>1, <2>2
<1>5. HttpTypes'
  BY <1>1, <1>3, <1>4 DEF HttpTypes
<1>6. \A i \in 1 .. n : queue[i] # fd
  BY <1>1, <1>2, <1>3 DEF Shared
<1>7. \A w \in Workers : task[w] # fd
  BY <1>1 DEF Shared
<1>8. \A i \in 1 .. n + 1 : i \in 1 .. n \/ i = n + 1
  OBVIOUS
<1>9. n + 1 \in 1 .. n + 1 /\ \A i \in 1 .. n : i \in 1 .. n + 1
  OBVIOUS
<1>10. Shared'
  <2>1. \A i, j \in 1 .. n + 1 : queue'[i] = queue'[j] => i = j
    BY <1>2, <1>3, <1>6, <1>8 DEF Shared
  <2>2. \A i \in 1 .. n + 1 : \A w \in Workers : queue'[i] # task'[w]
    BY <1>1, <1>2, <1>3, <1>7, <1>8 DEF Shared
  <2>3. \A v, w \in Workers : task'[v] = task'[w] /\ v # w => task'[v] = NoFd
    BY <1>1 DEF Shared
  <2>4. ASSUME NEW f \in Sockets
        PROVE  f \in open' <=> \/ \E i \in 1 .. n + 1 : queue'[i] = f
                               \/ \E w \in Workers : task'[w] = f
    <3>1. f \in open <=> \/ \E i \in 1 .. n : queue[i] = f
                         \/ \E w \in Workers : task[w] = f
      BY <1>2 DEF Shared
    <3>2. (\E i \in 1 .. n + 1 : queue'[i] = f) <=> (\E i \in 1 .. n : queue[i] = f) \/ f = fd
      BY <1>3, <1>8, <1>9
    <3> QED
      BY <1>1, <3>1, <3>2
  <2> QED
    BY <1>3, <2>1, <2>2, <2>3, <2>4 DEF Shared
<1> QED
  BY <1>5, <1>10

\* A worker takes the first socket of the queue.
LEMMA PopInv ==
    ASSUME HttpAssumption, HttpInv, NEW u \in Workers, WorkerPop(u)
    PROVE  HttpInv'
<1> USE DEF HttpInv
<1>1. /\ wpc[u] = "ready" /\ queue # <<>> /\ queue' = Tail(queue) /\ open' = open
      /\ task' = [task EXCEPT ![u] = Head(queue)] /\ wpc' = [wpc EXCEPT ![u] = "run"]
  BY DEF WorkerPop, Move
<1>2. PICK n \in Nat : n = Len(queue) /\ n >= 1
  BY <1>1 DEF HttpTypes
<1>3. PICK fd \in Sockets : fd = queue[1]
  BY <1>2 DEF HttpTypes
<1>4. /\ queue' \in Seq(Sockets) /\ Len(queue') = n - 1
      /\ \A i \in 1 .. n - 1 : queue'[i] = queue[i + 1]
      /\ Head(queue) = fd
  BY <1>1, <1>2, <1>3 DEF HttpTypes
<1>5. task[u] = NoFd /\ fd # NoFd
  BY <1>1 DEF HttpTypes, Idle, HttpAssumption
<1>6. \A w \in Workers : task'[w] = IF w = u THEN fd ELSE task[w]
  BY <1>1, <1>4 DEF HttpTypes
<1>7. HttpTypes'
  <2>1. task' \in [Workers -> Sockets \cup {NoFd}]
    BY <1>1, <1>4 DEF HttpTypes
  <2>2. wpc' \in [Workers -> Idle \cup Busy]
    BY <1>1 DEF HttpTypes, Busy
  <2>3. \A w \in Workers : task'[w] = NoFd <=> wpc'[w] \in Idle
    BY <1>1, <1>5, <1>6 DEF HttpTypes, Idle
  <2> QED
    BY <1>1, <1>4, <2>1, <2>2, <2>3 DEF HttpTypes
<1>8. /\ \A i \in 1 .. n - 1 : i + 1 \in 1 .. n /\ i + 1 # 1
      /\ \A i \in 1 .. n : i = 1 \/ (i - 1 \in 1 .. n - 1 /\ (i - 1) + 1 = i)
      /\ \A i, j \in 1 .. n - 1 : i + 1 = j + 1 => i = j
      /\ 1 \in 1 .. n
  BY <1>2
<1>9. \A i \in 1 .. n - 1 : queue'[i] # fd
  BY <1>2, <1>3, <1>4, <1>8 DEF Shared
<1>10. \A w \in Workers : task[w] # fd
  BY <1>2, <1>3, <1>8 DEF Shared
<1>11. Shared'
  <2>1. \A i, j \in 1 .. n - 1 : queue'[i] = queue'[j] => i = j
    BY <1>2, <1>4, <1>8 DEF Shared
  <2>2. \A i \in 1 .. n - 1 : \A w \in Workers : queue'[i] # task'[w]
    BY <1>2, <1>4, <1>6, <1>8, <1>9 DEF Shared
  <2>3. \A v, w \in Workers : task'[v] = task'[w] /\ v # w => task'[v] = NoFd
    BY <1>6, <1>10 DEF Shared
  <2>4. ASSUME NEW f \in Sockets
        PROVE  f \in open' <=> \/ \E i \in 1 .. n - 1 : queue'[i] = f
                               \/ \E w \in Workers : task'[w] = f
    <3>1. f \in open <=> \/ \E i \in 1 .. n : queue[i] = f
                         \/ \E w \in Workers : task[w] = f
      BY <1>2 DEF Shared
    <3>2. (\E i \in 1 .. n : queue[i] = f) <=> (\E i \in 1 .. n - 1 : queue'[i] = f) \/ f = fd
      <4>1. ASSUME NEW i \in 1 .. n, queue[i] = f, f # fd
            PROVE  i - 1 \in 1 .. n - 1 /\ queue'[i - 1] = f
        BY <1>3, <1>4, <1>8, <4>1
      <4>2. ASSUME NEW i \in 1 .. n - 1, queue'[i] = f
            PROVE  i + 1 \in 1 .. n /\ queue[i + 1] = f
        BY <1>4, <1>8, <4>2
      <4> QED
        BY <1>3, <1>8, <4>1, <4>2
    <3>3. f # NoFd
      BY DEF HttpAssumption
    <3>4. (\E w \in Workers : task'[w] = f) <=> (\E w \in Workers : task[w] = f) \/ f = fd
      BY <1>5, <1>6, <3>3
    <3> QED
      BY <1>1, <3>1, <3>2, <3>4
  <2> QED
    BY <1>4, <2>1, <2>2, <2>3, <2>4 DEF Shared
<1> QED
  BY <1>7, <1>11

\* close(fd) at the end of a handler.
LEMMA CloseInv ==
    ASSUME HttpAssumption, HttpInv, NEW u \in Workers, FilesRequest(u) \/ CloseBoth(u)
    PROVE  HttpInv'
<1> USE DEF HttpInv
<1>1. /\ wpc[u] \in Busy /\ wpc[u] \notin Idle
      /\ open' = open \ {task[u]} /\ queue' = queue
      /\ task' = [task EXCEPT ![u] = NoFd] /\ wpc' = [wpc EXCEPT ![u] = "ready"]
  BY DEF FilesRequest, CloseBoth, Move, Busy, Idle
<1>2. task[u] \in Sockets /\ task[u] # NoFd
  BY <1>1 DEF HttpTypes
<1>3. \A w \in Workers : task'[w] = IF w = u THEN NoFd ELSE task[w]
  BY <1>1 DEF HttpTypes
<1>4. HttpTypes'
  <2>1. task' \in [Workers -> Sockets \cup {NoFd}]
    BY <1>1 DEF HttpTypes
  <2>2. wpc' \in [Workers -> Idle \cup Busy]
    BY <1>1 DEF HttpTypes, Idle
  <2>3. \A w \in Workers : task'[w] = NoFd <=> wpc'[w] \in Idle
    BY <1>1, <1>3 DEF HttpTypes, Idle
  <2> QED
    BY <1>1, <2>1, <2>2, <2>3 DEF HttpTypes
<1>5. \A i \in 1 .. Len(queue) : queue[i] \in Sockets /\ queue[i] # NoFd
  BY DEF HttpTypes, HttpAssumption
<1>6. Shared'
  <2>1. \A i, j \in 1 .. Len(queue) : queue[i] = queue[j] => i = j
    BY DEF Shared
  <2>2. \A i \in 1 .. Len(queue) : \A w \in Workers : queue[i] # task'[w]
    BY <1>3, <1>5 DEF Shared
  <2>3. \A v, w \in Workers : task'[v] = task'[w] /\ v # w => task'[v] = NoFd
    BY <1>3 DEF Shared
  <2>4. ASSUME NEW f \in Sockets
        PROVE  f \in open' <=> \/ \E i \in 1 .. Len(queue) : queue[i] = f
                               \/ \E w \in Workers : task'[w] = f
    <3>1. f \in open <=> \/ \E i \in 1 .. Len(queue) : queue[i] = f
                         \/ \E w \in Workers : task[w] = f
      BY DEF Shared
    <3>2. \A i \in 1 .. Len(queue) : queue[i] # task[u]
      BY DEF Shared
    <3>3. \A w \in Workers : task[w] = task[u] => w = u
      BY <1>2 DEF Shared
    <3>4. f # NoFd
      BY DEF HttpAssumption
    <3> QED
      BY <1>1, <1>3, <3>1, <3>2, <3>3, <3>4
  <2> QED
    BY <1>1, <2>1, <2>2, <2>3, <2>4 DEF Shared
<1> QED
  BY <1>4, <1>6

\* A worker that goes on between taking a socket and closing it, or between
\* two looks at the queue.
GoesOn(u, pc) == /\ UNCHANGED <<open, queue, task>> /\ wpc' = [wpc EXCEPT ![u] = pc]
                 /\ (wpc[u] \in Idle /\ pc \in Idle) \/ (wpc[u] \in Busy /\ pc \in Busy)
LEMMA GoesOnInv ==
    ASSUME HttpInv, NEW u \in Workers, NEW pc, GoesOn(u, pc)
    PROVE  HttpInv'
<1>1. /\ open' = open /\ queue' = queue /\ task' = task /\ wpc' = [wpc EXCEPT ![u] = pc]
      /\ pc \in Idle \cup Busy /\ (wpc[u] \in Idle <=> pc \in Idle)
  BY DEF GoesOn, Idle, Busy
<1>2. wpc' \in [Workers -> Idle \cup Busy]
      /\ \A w \in Workers : wpc'[w] \in Idle <=> wpc[w] \in Idle
  BY <1>1 DEF HttpInv, HttpTypes
<1>3. HttpTypes'
  BY <1>1, <1>2 DEF HttpInv, HttpTypes
<1>4. Shared'
  BY <1>1 DEF HttpInv, Shared
<1> QED
  BY <1>3, <1>4 DEF HttpInv

LEMMA WorkerInv ==
    ASSUME HttpAssumption, HttpInv, NEW u \in Workers,
           WorkerStep(u) \/ SpuriousWake(u) \/ SpuriousReturn(u)
    PROVE  HttpInv'
<1>1. CASE WorkerPop(u)
  BY <1>1, PopInv
<1>2. CASE FilesRequest(u) \/ CloseBoth(u)
  BY <1>2, CloseInv
<1>3. CASE \/ WorkerWait(u) \/ Connect(u) \/ Spawn(u) \/ Check(u) \/ EnterWait(u)
           \/ SpuriousWake(u) \/ SpuriousReturn(u)
  <2>1. PICK pc \in Idle \cup Busy : GoesOn(u, pc)
    <3>1. CASE WorkerWait(u)
      BY <3>1 DEF WorkerWait, Move, GoesOn, Idle, Busy
    <3>2. CASE Connect(u)
      BY <3>2 DEF Connect, Move, GoesOn, Idle, Busy
    <3>3. CASE Spawn(u)
      BY <3>3 DEF Spawn, Move, GoesOn, Idle, Busy
    <3>4. CASE Check(u)
      BY <3>4 DEF Check, Move, GoesOn, Idle, Busy
    <3>5. CASE EnterWait(u)
      BY <3>5 DEF EnterWait, Move, GoesOn, Idle, Busy
    <3>6. CASE SpuriousWake(u)
      BY <3>6 DEF SpuriousWake, Move, GoesOn, Idle, Busy
    <3>7. CASE SpuriousReturn(u)
      BY <3>7 DEF SpuriousReturn, Move, GoesOn, Idle, Busy
    <3> QED
      BY <1>3, <3>1, <3>2, <3>3, <3>4, <3>5, <3>6, <3>7
  <2> QED
    BY <2>1, GoesOnInv
<1> QED
  BY <1>1, <1>2, <1>3 DEF WorkerStep

\* A relay thread wakes the worker whose handler waits in the frame it knows.
LEMMA RelayInv ==
    ASSUME HttpInv, NEW r \in relays, RelayStep(r)
    PROVE  HttpInv'
<1>1. CASE UNCHANGED <<open, queue, task, wpc>>
  <2>1. open' = open /\ queue' = queue /\ task' = task /\ wpc' = wpc
    BY <1>1
  <2> QED
    BY <2>1 DEF HttpInv, HttpTypes, Shared
<1>2. CASE RelaySignal(r) /\ wpc[r.w] = "condwait"
  <2>1. /\ open' = open /\ queue' = queue /\ task' = task
        /\ wpc' = [wpc EXCEPT ![r.w] = "close"]
    BY <1>2 DEF RelaySignal, Move
  <2>2. CASE r.w \in Workers
    <3>1. GoesOn(r.w, "close")
      BY <1>2, <2>1 DEF GoesOn, Busy
    <3> QED
      BY <2>2, <3>1, GoesOnInv
  <2>3. CASE r.w \notin Workers
    <3>1. wpc' = wpc
      BY <2>1, <2>3 DEF HttpInv, HttpTypes
    <3> QED
      BY <2>1, <3>1 DEF HttpInv, HttpTypes, Shared
  <2> QED
    BY <2>2, <2>3
<1> QED
  BY <1>1, <1>2 DEF RelayStep, RelayEnds, RelayFlag, RelaySignal

\* One owner for each open socket, none for a closed one.
LEMMA HttpInvOneOwner == ASSUME HttpAssumption, HttpInv PROVE OneOwner
<1> USE DEF HttpInv
<1>1. DOMAIN queue = 1 .. Len(queue)
  BY DEF HttpTypes
<1>2. IsInjective(queue)
  BY <1>1 DEF Shared, IsInjective
<1>3. ASSUME NEW fd \in Sockets
      PROVE  Cardinality(Handling(fd)) + (IF InQueue(fd) THEN 1 ELSE 0)
               = IF fd \in open THEN 1 ELSE 0
  <2>1. InQueue(fd) <=> \E i \in 1 .. Len(queue) : queue[i] = fd
    BY <1>1 DEF InQueue, ToSet
  <2>2. fd # NoFd
    BY DEF HttpAssumption
  <2>3. CASE Handling(fd) = {}
    <3>1. \A w \in Workers : task[w] # fd
      BY <2>3 DEF Handling
    <3>2. fd \in open <=> InQueue(fd)
      BY <2>1, <3>1 DEF Shared
    <3>3. Cardinality(Handling(fd)) = 0
      BY <2>3, FS_EmptySet
    <3> QED
      BY <3>2, <3>3
  <2>4. CASE Handling(fd) # {}
    <3>1. PICK w \in Workers : task[w] = fd
      BY <2>4 DEF Handling
    <3>2. Handling(fd) = {w}
      BY <2>2, <3>1 DEF Handling, Shared
    <3>3. Cardinality(Handling(fd)) = 1
      BY <3>2, FS_Singleton
    <3>4. fd \in open /\ ~InQueue(fd)
      BY <2>1, <3>1 DEF Shared
    <3> QED
      BY <3>3, <3>4
  <2> QED
    BY <2>3, <2>4
<1> QED
  BY <1>2, <1>3 DEF OneOwner

\* However many workers there are and however often socket numbers are used
\* again, an open client socket is in the task queue once or with one worker,
\* and a closed one nowhere (serve_forever(), async_run(), worker() and both
\* handlers, whose relay threads may outlive their request).
THEOREM SocketsHaveOneOwner == HttpAssumption /\ HttpSpec => []OneOwner
<1> SUFFICES ASSUME HttpAssumption PROVE HttpSpec => []OneOwner
  OBVIOUS
<1>1. HttpInit => HttpInv
  BY HttpInitInv
<1>2. HttpInv /\ [HttpNext]_httpVars => HttpInv'
  <2> SUFFICES ASSUME HttpInv, [HttpNext]_httpVars PROVE HttpInv'
    OBVIOUS
  <2>1. CASE \E fd \in Sockets : Accept(fd)
    BY <2>1, AcceptInv
  <2>2. CASE \E w \in Workers : WorkerStep(w) \/ SpuriousWake(w) \/ SpuriousReturn(w)
    BY <2>2, WorkerInv
  <2>3. CASE UNCHANGED httpVars \/ \E w \in Workers : ConnectFails(w)
    <3>1. open' = open /\ queue' = queue /\ task' = task /\ wpc' = wpc
      BY <2>3 DEF httpVars, ConnectFails
    <3> QED
      BY <3>1 DEF HttpInv, HttpTypes, Shared
  <2>4. CASE \E r \in relays : RelayStep(r)
    BY <2>4, RelayInv
  <2> QED
    BY <2>1, <2>2, <2>3, <2>4 DEF HttpNext
<1>3. HttpInv => OneOwner
  BY HttpInvOneOwner
<1> QED
  BY <1>1, <1>2, <1>3, PTL DEF HttpSpec
=============================================================================
