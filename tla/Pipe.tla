-------------------------------- MODULE Pipe --------------------------------
(* Anonymous pipes (src/src/kernel/syscalls/pipe.rs): a bounded byte queue     *)
(* under a Mutex with one condition variable per direction.                    *)
(*                                                                             *)
(* A step is one critical section, from taking the Mutex to returning or to    *)
(* waiting on a condition variable (which releases it).  The two ends are      *)
(* shared by the threads of each side and closed once, when no thread of that  *)
(* side is inside a call.                                                      *)
EXTENDS Naturals, Sequences

CONSTANTS
  Readers, Writers,   \* the threads that use each end
  PIPE_BUFF,
  MaxChunk,           \* bound: bytes of one call
  MaxBytes            \* bound: bytes a writer sends in all

ASSUME PipeAssumption ==
  /\ PIPE_BUFF \in Nat \ {0} /\ MaxChunk \in Nat \ {0} /\ MaxBytes \in Nat
  /\ Readers \cap Writers = {}

VARIABLES
  buf,        \* a byte is <<writer, its number among the writer's bytes>>
  read_fds, write_fds,
  pc,         \* per thread: idle, run (holds or wants the Mutex) or wait
  left,       \* per writer: bytes of its call that are not in the pipe yet
  sent,       \* per writer: bytes put into the pipe so far
  broken,     \* per writer: bytes given up by a BrokenPipe error
  received,   \* all bytes the readers took, in the order they took them
  eof         \* some read has returned 0

Users == Readers \cup Writers
vars == <<buf, read_fds, write_fds, pc, left, sent, broken, received, eof>>

Least(m, n) == IF m < n THEN m ELSE n

Init ==
  /\ buf = <<>>
  /\ read_fds = 1 /\ write_fds = 1
  /\ pc = [t \in Users |-> "idle"]
  /\ left = [w \in Writers |-> 0]
  /\ sent = [w \in Writers |-> 0]
  /\ broken = [w \in Writers |-> 0]
  /\ received = <<>>
  /\ eof = FALSE

-----------------------------------------------------------------------------
(* Slips one could make in this code.                                        *)

\* Wake one waiter instead of all.
MutantNotified(side, cond) == IF cond /\ \E t \in side : pc[t] = "wait"
  THEN [pc EXCEPT ![CHOOSE t \in side : pc[t] = "wait"] = "run"] ELSE pc
\* Close an end without waking those who wait for it.
MutantSideClosed(side) == pc
\* Copy the bytes of a chunk from the start of the caller's buffer again.
MutantChunk(w, n) == [k \in 1 .. n |-> <<w, k>>]
-----------------------------------------------------------------------------
\* notify_all on the condition variable the threads of one side wait on.
Notified(side, cond) == IF cond THEN [t \in Users |->
  IF t \in side /\ pc[t] = "wait" THEN "run" ELSE pc[t]] ELSE pc
SideClosed(side) == Notified(side, TRUE)
Space == PIPE_BUFF - Len(buf)
Chunk(w, n) == [k \in 1 .. n |-> <<w, sent[w] + k>>]
AtEof == buf = <<>> /\ write_fds = 0

\* A thread calls read on the read end.
BeginRead(r) ==
  /\ pc[r] = "idle" /\ read_fds > 0
  /\ pc' = [pc EXCEPT ![r] = "run"]
  /\ UNCHANGED <<buf, read_fds, write_fds, left, sent, broken, received, eof>>

\* read with the Mutex held: the end of the file, a wait, or some bytes.
Read(r) ==
  /\ pc[r] = "run"
  /\ \/ /\ AtEof
        /\ eof' = TRUE
        /\ pc' = [pc EXCEPT ![r] = "idle"]
        /\ UNCHANGED <<buf, received>>
     \/ /\ ~AtEof /\ buf = <<>>
        /\ pc' = [pc EXCEPT ![r] = "wait"]
        /\ UNCHANGED <<buf, received, eof>>
     \/ /\ ~AtEof /\ buf # <<>>
        /\ \E len \in 1 .. MaxChunk :
             LET to_copy == Least(len, Len(buf)) IN
             /\ received' = received \o SubSeq(buf, 1, to_copy)
             /\ buf' = SubSeq(buf, to_copy + 1, Len(buf))
        /\ pc' = [Notified(Writers, TRUE) EXCEPT ![r] = "idle"]
        /\ UNCHANGED eof
  /\ UNCHANGED <<read_fds, write_fds, left, sent, broken>>

\* A thread calls write on the write end.
BeginWrite(w) ==
  /\ pc[w] = "idle" /\ write_fds > 0
  /\ \E n \in 1 .. Least(MaxChunk, MaxBytes - sent[w] - broken[w]) :
       left' = [left EXCEPT ![w] = n]
  /\ pc' = [pc EXCEPT ![w] = "run"]
  /\ UNCHANGED <<buf, read_fds, write_fds, sent, broken, received, eof>>

\* write with the Mutex held: fill the queue and, when bytes are left over,
\* fail if nobody can read them and wait otherwise.
Write(w) ==
  LET to_write == Least(left[w], Space)
      rest == left[w] - to_write
  IN /\ pc[w] = "run"
     /\ buf' = buf \o Chunk(w, to_write)
     /\ sent' = [sent EXCEPT ![w] = @ + to_write]
     /\ left' = [left EXCEPT ![w] = IF read_fds = 0 THEN 0 ELSE rest]
     /\ broken' = [broken EXCEPT ![w] = IF read_fds = 0 THEN @ + rest ELSE @]
     /\ pc' = [Notified(Readers, to_write > 0) EXCEPT
                 ![w] = IF rest > 0 /\ read_fds > 0 THEN "wait" ELSE "idle"]
     /\ UNCHANGED <<read_fds, write_fds, received, eof>>

\* close: one end less, and the other side looks again.
CloseWrite ==
  /\ write_fds > 0 /\ \A w \in Writers : pc[w] = "idle"
  /\ write_fds' = write_fds - 1
  /\ pc' = SideClosed(Readers)
  /\ UNCHANGED <<buf, read_fds, left, sent, broken, received, eof>>

CloseRead ==
  /\ read_fds > 0 /\ \A r \in Readers : pc[r] = "idle"
  /\ read_fds' = read_fds - 1
  /\ pc' = SideClosed(Writers)
  /\ UNCHANGED <<buf, write_fds, left, sent, broken, received, eof>>

\* A condition variable may return without having been notified.
Spurious(t) ==
  /\ pc[t] = "wait"
  /\ pc' = [pc EXCEPT ![t] = "run"]
  /\ UNCHANGED <<buf, read_fds, write_fds, left, sent, broken, received, eof>>

Next ==
  \/ \E r \in Readers : BeginRead(r) \/ Read(r)
  \/ \E w \in Writers : BeginWrite(w) \/ Write(w)
  \/ CloseWrite \/ CloseRead
  \/ \E t \in Users : Spurious(t)

Spec == Init /\ [][Next]_vars

\* A runnable thread is scheduled; nobody has to make calls or close an end.
Fairness ==
  /\ \A r \in Readers : WF_vars(Read(r))
  /\ \A w \in Writers : WF_vars(Write(w))

-----------------------------------------------------------------------------
TypeOK ==
  /\ buf \in Seq(Writers \X Nat) /\ Len(buf) \in 0 .. PIPE_BUFF
  /\ received \in Seq(Writers \X Nat) /\ eof \in BOOLEAN
  /\ read_fds \in 0 .. 1 /\ write_fds \in 0 .. 1
  /\ pc \in [Users -> {"idle", "run", "wait"}]
  /\ left \in [Writers -> 0 .. MaxChunk]
  /\ sent \in [Writers -> 0 .. MaxBytes]
  /\ broken \in [Writers -> 0 .. MaxBytes]

\* Nobody waits without a reason: a waiting reader's pipe is empty and can still
\* be written, a waiting writer's is full and can still be read.  No notify_all of
\* read, write or close is missing, whatever their order.
SleepersHaveReason ==
  /\ \A r \in Readers : pc[r] = "wait" => buf = <<>> /\ write_fds > 0
  /\ \A w \in Writers : pc[w] = "wait" => Len(buf) = PIPE_BUFF /\ read_fds > 0

\* All bytes that have gone into the pipe, in the order they leave it.
Stream == received \o buf

\* The bytes of each writer come out in the order it wrote them, none lost, none
\* twice, also when its write was cut into chunks between other writers' bytes.
\* Once a read has returned 0 nothing is left and nothing will come.
StreamIntact ==
  /\ \A w \in Writers : \A k \in 1 .. sent[w] : \E i \in 1 .. Len(Stream) : Stream[i] = <<w, k>>
  /\ \A i \in 1 .. Len(Stream) : Stream[i][1] \in Writers /\ Stream[i][2] \in 1 .. sent[Stream[i][1]]
  /\ \A i, j \in 1 .. Len(Stream) :
       i < j /\ Stream[i][1] = Stream[j][1] => Stream[i][2] < Stream[j][2]
  /\ eof => buf = <<>> /\ write_fds = 0

\* A read that waits ends once the write end is closed, and a write that waits
\* ends once the read end is.
CloseReleases ==
  /\ \A r \in Readers : write_fds = 0 /\ pc[r] # "idle" ~> pc[r] = "idle"
  /\ \A w \in Writers : read_fds = 0 /\ pc[w] # "idle" ~> pc[w] = "idle"
=============================================================================
