---------------------------- MODULE ByteChannel ----------------------------
(***************************************************************************)
(* What a pipe promises: a bounded first-in first-out channel of bytes     *)
(* whose ends are closed independently.                                    *)
(***************************************************************************)
EXTENDS Integers, Sequences

CONSTANTS Byte, PIPESIZE

VARIABLES q,         \* the bytes written and not yet read
          out,       \* the bytes taken out by the last read
          readable,  \* the read end is open
          writable   \* the write end is open

vars == <<q, out, readable, writable>>

Init == /\ q = << >> /\ out = << >>
        /\ readable = TRUE /\ writable = TRUE

\* A write appends at the tail what the channel has room for.
Write == /\ readable /\ writable
         /\ \E s \in UNION {[1 .. n -> Byte] : n \in 0 .. PIPESIZE - Len(q)} :
              q' = q \o s
         /\ UNCHANGED <<out, readable, writable>>

\* A read takes bytes from the head.
Read == /\ readable
        /\ \E n \in 0 .. Len(q) : /\ out' = SubSeq(q, 1, n)
                                  /\ q' = SubSeq(q, n + 1, Len(q))
        /\ UNCHANGED <<readable, writable>>

CloseRead == readable /\ readable' = FALSE /\ UNCHANGED <<q, out, writable>>
CloseWrite == writable /\ writable' = FALSE /\ UNCHANGED <<q, out, readable>>

Next == Write \/ Read \/ CloseRead \/ CloseWrite

Spec == Init /\ [][Next]_vars
=============================================================================
