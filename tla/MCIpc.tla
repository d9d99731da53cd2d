-------------------------------- MODULE MCIpc --------------------------------
(* Pipes and futexes for TLC.  The two share nothing, so each is explored      *)
(* while the other rests; `scope` says which one is in use.  Futex threads    *)
(* are interchangeable; requeues go from the first futex to the second, as a  *)
(* condition variable's broadcast makes them.                                 *)
EXTENDS Pipe, Futex, TLC

CONSTANTS a1, a2

VARIABLE scope

MCAddrs == {a1, a2}
MCPairs == {<<a1, a2>>}

Symmetry == Permutations(Readers) \cup Permutations(Writers) \cup Permutations(Tasks)

MCInit == Init /\ FutexInit /\ scope \in {"pipe", "futex"}

MCNext ==
  \/ scope = "pipe" /\ Next /\ UNCHANGED <<futexVars, scope>>
  \/ scope = "futex" /\ FutexNext /\ UNCHANGED <<vars, scope>>

MCSpec == MCInit /\ [][MCNext]_<<vars, futexVars, scope>>
=============================================================================
