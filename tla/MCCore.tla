-------------------------------- MODULE MCCore -------------------------------
(* The kernel's building blocks for TLC, one in scope per behaviour: physical  *)
(* memory in blocks of four bytes, with a usable run on either side of an      *)
(* unaligned firmware entry; ids of pseudo-terminals; network ports; the two   *)
(* circular buffers.                                                           *)
EXTENDS HandedOut, CircularInt, Circular, TLC

VARIABLE scope

Entry(b, l, u) == [base |-> b, length |-> l, usable |-> u]

MCMap == << Entry(0, 4, FALSE), Entry(4, 8, TRUE), Entry(13, 5, FALSE),
            Entry(20, 36, TRUE), Entry(58, 3, FALSE) >>

\* Descriptors are interchangeable.
Interchangeable == Permutations(Fds)

\* A part that is not in scope rests: in one of its initial states, since nothing
\* depends on the bytes of an unused buffer or on where an unused scan starts.
Rests ==
  /\ scope # "ports" => last_eph_port = NETPORTS_EPH_START
  /\ scope # "interrupt" => buff = [k \in Slots |-> CHOOSE d \in Data : TRUE]
  /\ scope # "locked" => lbuff = [k \in Slots |-> CHOOSE d \in Data : TRUE]

MCInit ==
  /\ scope \in {"memory", "terminals", "ports", "interrupt", "locked"}
  /\ Init /\ PtyInit /\ PortsInit /\ RingInit /\ LockedInit
  /\ Rests

MCNext ==
  /\ UNCHANGED scope
  /\ \/ scope = "memory" /\ Next /\ UNCHANGED <<ptyVars, portVars, ringVars, lockedVars>>
     \/ scope = "terminals" /\ PtyNext /\ UNCHANGED <<vars, portVars, ringVars, lockedVars>>
     \/ scope = "ports" /\ PortsNext /\ UNCHANGED <<vars, ptyVars, ringVars, lockedVars>>
     \/ scope = "interrupt" /\ RingNext /\ UNCHANGED <<vars, ptyVars, portVars, lockedVars>>
     \/ scope = "locked" /\ LockedNext /\ UNCHANGED <<vars, ptyVars, portVars, ringVars>>

MCSpec == MCInit /\ [][MCNext]_<<scope, vars, ptyVars, portVars, ringVars, lockedVars>>
=============================================================================
