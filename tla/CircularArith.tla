---------------------------- MODULE CircularArith ----------------------------
(* What the two buffers of                                                    *)
(* src/src/kernel/utilities/data_structures/circular.rs share: the index      *)
(* arithmetic and the requests callers make.                                  *)
EXTENDS Integers, Sequences

CONSTANTS
  Data,     \* the values of a byte
  Size,     \* buffSize
  MaxLen    \* bound: bytes of one request

ASSUME CircularAssumption == Size \in Nat \ {0} /\ MaxLen \in Nat \ {0}

Slots == 0 .. Size - 1
Requests == UNION {[1 .. n -> Data] : n \in 1 .. MaxLen}

\* Slips one could make here, for checking that the properties notice them.
MutantCIRC_WRITABLE(write, read, size) ==
  size - (IF write >= read THEN write - read ELSE size - (read - write))

-----------------------------------------------------------------------------
MIN(a, b) == IF a < b THEN a ELSE b

CIRC_READABLE(write, read, size) ==
  IF write >= read THEN write - read ELSE size - (read - write)

\* One slot stays empty, so that a full buffer differs from an empty one.
CIRC_WRITABLE(write, read, size) == size - CIRC_READABLE(write, read, size) - 1

Advance(i, n, size) == (i + n) % size

\* The bytes between the two indices, oldest first.
Contents(buff, write, read, size) ==
  [i \in 1 .. CIRC_READABLE(write, read, size) |-> buff[Advance(read, i - 1, size)]]
=============================================================================
