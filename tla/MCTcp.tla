-------------------------------- MODULE MCTcp -------------------------------
(* A TCP connection for TLC.  Sequence numbers start so that they wrap while   *)
(* bytes are sent.                                                             *)
EXTENDS Tcp

Both(x, y) == [e \in Ends |-> IF e = "a" THEN x ELSE y]

\* One end sends and shuts down while the other closes; one end sends with more
\* faults, once little and once more than the window; both send and one closes.
MCPlans ==
  {[bytes |-> Both(3, 0), ending |-> Both({"shut"}, {"close"}), cap |-> Both(1, 4), faults |-> 1],
   [bytes |-> Both(2, 0), ending |-> Both({"shut"}, {}), cap |-> Both(1, 4), faults |-> 2],
   [bytes |-> Both(4, 0), ending |-> Both({}, {}), cap |-> Both(1, 4), faults |-> 2],
   [bytes |-> Both(2, 2), ending |-> Both({}, {"close"}), cap |-> Both(1, 4), faults |-> 1]}

\* One end sends and shuts down, then so does the other.
MCShutPlans ==
  {[bytes |-> Both(3, 0), ending |-> Both({"shut"}, {"shut"}), cap |-> Both(1, 4), faults |-> 1]}

MCIss == Both(14, 5)
=============================================================================
