----------------------------- MODULE LineInput -----------------------------
(***************************************************************************)
(* What the console promises a reader: characters are typed into a line    *)
(* that can be edited, a finished line joins the input and can only be     *)
(* taken from its head.                                                    *)
(***************************************************************************)
EXTENDS Integers, Sequences

CONSTANTS Char, Ends,   \* the characters that finish a line
          Size          \* room for characters not yet taken

VARIABLES lines,        \* finished input, not yet read
          edit          \* the line being typed

vars == <<lines, edit>>

Init == lines = << >> /\ edit = << >>

Room == Size - Len(lines) - Len(edit)

\* A line is also finished when there is no room left.
Type(c) == /\ Room > 0
           /\ IF c \in Ends \/ Room = 1
              THEN lines' = lines \o Append(edit, c) /\ edit' = << >>
              ELSE edit' = Append(edit, c) /\ UNCHANGED lines

Erase == /\ edit # << >>
         /\ edit' = SubSeq(edit, 1, Len(edit) - 1)
         /\ UNCHANGED lines

KillLine == edit' = << >> /\ UNCHANGED lines

Take == /\ lines # << >>
        /\ lines' = Tail(lines)
        /\ UNCHANGED edit

Next == (\E c \in Char : Type(c)) \/ Erase \/ KillLine \/ Take

Spec == Init /\ [][Next]_vars
=============================================================================
