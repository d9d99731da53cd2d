------------------------------ MODULE Circular ------------------------------
(* The locked byte buffer of                                                  *)
(* src/src/kernel/utilities/data_structures/circular.rs.  LOCK_CIRC covers    *)
(* each operation from its first access to its last, so an operation is one   *)
(* step.                                                                      *)
EXTENDS CircularArith

VARIABLES lbuff, lreadPtr, lwritePtr,
          lgot    \* what the last CircularRead copied to its caller

lockedVars == <<lbuff, lreadPtr, lwritePtr, lgot>>

LockedTypeOK ==
  /\ lbuff \in [Slots -> Data]
  /\ lreadPtr \in Slots
  /\ lwritePtr \in Slots

\* malloc leaves the bytes undefined, memset clears the indices.
CircularAllocate ==
  /\ lbuff \in [Slots -> Data]
  /\ lreadPtr = 0
  /\ lwritePtr = 0
  /\ lgot = << >>

LockedInit == CircularAllocate

\* The two memcpys: up to the end of the buffer, then from its start.
CopyIn(src) ==
  LET first == MIN(Len(src), Size - lwritePtr)
      second == Len(src) - first
  IN [i \in Slots |-> IF i \in lwritePtr .. lwritePtr + first - 1
                        THEN src[i - lwritePtr + 1]
                      ELSE IF i < second THEN src[first + i + 1]
                      ELSE lbuff[i]]

CopyOut(toCopy) ==
  LET first == MIN(toCopy, Size - lreadPtr)
  IN [i \in 1 .. toCopy |-> IF i <= first THEN lbuff[lreadPtr + i - 1]
                                          ELSE lbuff[i - first - 1]]

\* All or nothing: a request that does not fit changes nothing.
CircularWrite(src) ==
  /\ Len(src) <= CIRC_WRITABLE(lwritePtr, lreadPtr, Size)
  /\ lbuff' = CopyIn(src)
  /\ lwritePtr' = Advance(lwritePtr, Len(src), Size)
  /\ UNCHANGED <<lreadPtr, lgot>>

CircularRead(length) ==
  LET toCopy == MIN(CIRC_READABLE(lwritePtr, lreadPtr, Size), length) IN
  /\ lwritePtr # lreadPtr
  /\ lgot' = CopyOut(toCopy)
  /\ lreadPtr' = Advance(lreadPtr, toCopy, Size)
  /\ UNCHANGED <<lbuff, lwritePtr>>

LockedNext ==
  \/ \E src \in Requests : CircularWrite(src)
  \/ \E length \in 1 .. MaxLen : CircularRead(length)

LockedSpec == LockedInit /\ [][LockedNext]_lockedVars

-----------------------------------------------------------------------------
\* The buffer implements a queue of Size - 1 bytes: nothing is lost, repeated,
\* overwritten before it is read or read before it is written, also when a
\* request wraps around the end.
LockedFifo == INSTANCE BoundedFifo WITH
          q <- Contents(lbuff, lwritePtr, lreadPtr, Size), Cap <- Size - 1, got <- lgot

LockedImplementsFifo == LockedFifo!Spec
=============================================================================
