----------------------------- MODULE BoundedFifo -----------------------------
(* What the circular buffers of the kernel promise: a queue of at most Cap     *)
(* bytes.  A write puts all of its bytes at the end or none, a read takes the  *)
(* oldest bytes that are there, at most as many as asked for.                 *)
EXTENDS Integers, Sequences

CONSTANTS
  Data,       \* the bytes
  Cap,
  MaxLen      \* the longest request

VARIABLES q, got   \* contents, and what the last read returned

vars == <<q, got>>

Init == q = << >> /\ got = << >>

Put ==
  \E n \in 1 .. MaxLen : \E s \in [1 .. n -> Data] :
    /\ Len(q) + n <= Cap
    /\ q' = q \o s
    /\ UNCHANGED got

Take ==
  \E len \in 1 .. MaxLen :
    LET n == IF len < Len(q) THEN len ELSE Len(q) IN
    /\ q # << >>
    /\ got' = SubSeq(q, 1, n)
    /\ q' = SubSeq(q, n + 1, Len(q))

Next == Put \/ Take

Spec == Init /\ [][Next]_vars
=============================================================================
