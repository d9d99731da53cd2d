------------------------------- MODULE MCFutex -------------------------------
(* Futex for TLC: requeues go from the first futex to the second, as a        *)
(* condition variable's broadcast makes them.                                 *)
EXTENDS Futex

CONSTANTS a1, a2

MCAddrs == {a1, a2}
MCPairs == {<<a1, a2>>}
=============================================================================
