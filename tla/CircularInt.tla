----------------------------- MODULE CircularInt -----------------------------
(* The interrupt-friendly byte buffer of                                      *)
(* src/src/kernel/utilities/data_structures/circular.rs.  The writer is an    *)
(* interrupt handler that takes no lock; LOCK_READ lets one reader in at a    *)
(* time.  Every load and store of an index and every byte copied is a step of *)
(* its own, so the handler may run at any point of a read, and on another CPU *)
(* also the other way round.                                                  *)
EXTENDS CircularArith

VARIABLES
  buff, readPtr, writePtr,
  rpc, rlen, rw, rr, out,   \* CircularIntRead: length, write, read, *buff
  wpc, src, ww, wr, wi,     \* CircularIntWrite: *buff, write, read, i
  got                       \* what the last completed read returned

rvars == <<rpc, rlen, rw, rr, out>>
wvars == <<wpc, src, ww, wr, wi>>
ringVars == <<buff, readPtr, writePtr, rvars, wvars, got>>

RingTypeOK ==
  /\ buff \in [Slots -> Data]
  /\ readPtr \in Slots /\ writePtr \in Slots
  /\ rpc \in {"idle", "loadWrite", "loadRead", "copy"}
  /\ rlen \in 0 .. MaxLen /\ rw \in Slots /\ rr \in Slots
  /\ out \in Seq(Data) /\ got \in Seq(Data)
  /\ wpc \in {"idle", "loadWrite", "loadRead", "copy"}
  /\ src \in Requests \cup {<< >>}
  /\ ww \in Slots /\ wr \in Slots /\ wi \in 0 .. MaxLen

RingInit ==
  /\ buff \in [Slots -> Data]
  /\ readPtr = 0 /\ writePtr = 0
  /\ rpc = "idle" /\ rlen = 0 /\ rw = 0 /\ rr = 0 /\ out = << >>
  /\ wpc = "idle" /\ src = << >> /\ ww = 0 /\ wr = 0 /\ wi = 0
  /\ got = << >>

\* Slips one could make in the actions below, for checking that the properties
\* notice them: the index published before the bytes are there, or the space
\* handed back before the bytes are read.
MutantWritePublish ==
  /\ wpc = "copy"
  /\ writePtr' = Advance(ww, Len(src) - wi, Size)
  /\ wpc' = IF wi = Len(src) THEN "idle" ELSE "copy"
  /\ UNCHANGED <<buff, readPtr, rvars, src, ww, wr, wi, got>>

MutantReadPublish ==
  /\ rpc = "copy"
  /\ readPtr' = Advance(rr, rlen - Len(out), Size)
  /\ rpc' = IF Len(out) = rlen THEN "idle" ELSE "copy"
  /\ got' = IF Len(out) = rlen THEN out ELSE got
  /\ UNCHANGED <<buff, writePtr, rlen, rw, rr, out, wvars>>
-----------------------------------------------------------------------------
ReadCall(length) ==
  /\ rpc = "idle"
  /\ rpc' = "loadWrite" /\ rlen' = length
  /\ UNCHANGED <<buff, readPtr, writePtr, rw, rr, out, wvars, got>>

ReadLoadWrite ==
  /\ rpc = "loadWrite"
  /\ rpc' = "loadRead" /\ rw' = writePtr
  /\ UNCHANGED <<buff, readPtr, writePtr, rlen, rr, out, wvars, got>>

\* The second load, then the early return on an empty buffer or toCopy.
ReadLoadRead ==
  /\ rpc = "loadRead"
  /\ rr' = readPtr
  /\ out' = << >>
  /\ \/ /\ rw = readPtr
        /\ rpc' = "idle"
        /\ UNCHANGED rlen
     \/ /\ rw # readPtr
        /\ rpc' = "copy"
        /\ rlen' = MIN(CIRC_READABLE(rw, readPtr, Size), rlen)
  /\ UNCHANGED <<buff, readPtr, writePtr, rw, wvars, got>>

ReadByte ==
  /\ rpc = "copy" /\ Len(out) < rlen
  /\ out' = Append(out, buff[rr])
  /\ rr' = Advance(rr, 1, Size)
  /\ UNCHANGED <<buff, readPtr, writePtr, rpc, rlen, rw, wvars, got>>

ReadPublish ==
  /\ rpc = "copy" /\ Len(out) = rlen
  /\ readPtr' = rr
  /\ got' = out
  /\ rpc' = "idle"
  /\ UNCHANGED <<buff, writePtr, rlen, rw, rr, out, wvars>>

WriteCall(bytes) ==
  /\ wpc = "idle"
  /\ wpc' = "loadWrite" /\ src' = bytes /\ wi' = 0
  /\ UNCHANGED <<buff, readPtr, writePtr, rvars, ww, wr, got>>

WriteLoadWrite ==
  /\ wpc = "loadWrite"
  /\ wpc' = "loadRead" /\ ww' = writePtr
  /\ UNCHANGED <<buff, readPtr, writePtr, rvars, src, wr, wi, got>>

\* The second load; a request that does not fit is dropped.
WriteLoadRead ==
  /\ wpc = "loadRead"
  /\ wr' = readPtr
  /\ wpc' = IF Len(src) > CIRC_WRITABLE(ww, readPtr, Size) THEN "idle" ELSE "copy"
  /\ UNCHANGED <<buff, readPtr, writePtr, rvars, src, ww, wi, got>>

WriteByte ==
  /\ wpc = "copy" /\ wi < Len(src)
  /\ buff' = [buff EXCEPT ![ww] = src[wi + 1]]
  /\ ww' = Advance(ww, 1, Size)
  /\ wi' = wi + 1
  /\ UNCHANGED <<readPtr, writePtr, rvars, wpc, src, wr, got>>

WritePublish ==
  /\ wpc = "copy" /\ wi = Len(src)
  /\ writePtr' = ww
  /\ wpc' = "idle"
  /\ UNCHANGED <<buff, readPtr, rvars, src, ww, wr, wi, got>>

ReadStep == ReadLoadWrite \/ ReadLoadRead \/ ReadByte \/ ReadPublish
WriteStep == WriteLoadWrite \/ WriteLoadRead \/ WriteByte \/ WritePublish

RingNext ==
  \/ \E length \in 1 .. MaxLen : ReadCall(length)
  \/ ReadStep
  \/ \E bytes \in Requests : WriteCall(bytes)
  \/ WriteStep

RingSpec == RingInit /\ [][RingNext]_ringVars

-----------------------------------------------------------------------------
\* Although neither side waits for the other, the buffer implements the same queue
\* as the locked one: a write happens when writePtr is stored, a read when
\* readPtr is stored, and stale copies of the other side's index do no harm.
Fifo == INSTANCE BoundedFifo WITH
          q <- Contents(buff, writePtr, readPtr, Size), Cap <- Size - 1

ImplementsFifo == Fifo!Spec

\* What a reader in its copy loop knows: everything it will copy is published, and
\* what it has copied is still in the buffer.
ReaderView ==
  /\ rpc \in {"loadWrite", "loadRead"} => rlen > 0
  /\ rpc = "loadRead" =>
       CIRC_READABLE(rw, readPtr, Size) <= CIRC_READABLE(writePtr, readPtr, Size)
  /\ rpc = "copy" =>
       /\ rlen \in 1 .. CIRC_READABLE(writePtr, readPtr, Size)
       /\ Len(out) <= rlen
       /\ rr = Advance(readPtr, Len(out), Size)
       /\ \A k \in 1 .. Len(out) : out[k] = buff[Advance(readPtr, k - 1, Size)]

\* What the handler in its copy loop knows: the slots it stores into are free, and
\* hold what it has stored.
WriterView ==
  /\ wpc # "idle" => Len(src) > 0
  /\ wpc \in {"loadWrite", "loadRead"} => wi = 0
  /\ wpc = "loadRead" => ww = writePtr
  /\ wpc = "copy" =>
       /\ Len(src) <= CIRC_WRITABLE(writePtr, readPtr, Size)
       /\ wi <= Len(src)
       /\ ww = Advance(writePtr, wi, Size)
       /\ \A k \in 1 .. wi : buff[Advance(writePtr, k - 1, Size)] = src[k]

\* The handler never stores into a byte that a reader is still to copy.
NoByteRace ==
  (rpc = "copy" /\ Len(out) < rlen /\ wpc = "copy" /\ wi < Len(src)) =>
    \A k \in 0 .. rlen - Len(out) - 1 : Advance(rr, k, Size) # ww
=============================================================================
