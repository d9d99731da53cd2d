----------------------------- MODULE StreamProofs ----------------------------
(* Streams of bytes.  The interrupt-friendly buffer and the locked one are    *)
(* bounded queues for every buffer size, every set of byte values and every   *)
(* request length.  Pipes are correct for every number of readers and         *)
(* writers, every capacity and every length of calls: nobody sleeps without a *)
(* reason, and the bytes of each writer come out complete and in order.       *)
EXTENDS CircularInt, Circular, Pipe, SequenceTheorems, TLAPS

-----------------------------------------------------------------------------
(* Pipes                                                                     *)

\* What a write still has to send fits the bound, and only a running call has any.
Budget ==
  \A w \in Writers : /\ sent[w] + left[w] + broken[w] <= MaxBytes
                     /\ pc[w] = "idle" => left[w] = 0

\* A closed end has nobody inside a call, so that nothing follows the end of file.
ClosedQuiet ==
  /\ write_fds = 0 => \A w \in Writers : pc[w] = "idle"
  /\ read_fds = 0 => \A r \in Readers : pc[r] = "idle"

\* The inductive invariant.
PipeInv == TypeOK /\ Budget /\ ClosedQuiet /\ SleepersHaveReason /\ StreamIntact

-----------------------------------------------------------------------------
\* notify_all leaves nobody of the side waiting and everybody else where they are.
LEMMA NotifiedAll ==
  ASSUME TypeOK, NEW side \in SUBSET Users, NEW cond \in BOOLEAN
  PROVE  /\ Notified(side, cond) \in [Users -> {"idle", "run", "wait"}]
         /\ \A t \in Users : t \notin side => Notified(side, cond)[t] = pc[t]
         /\ \A t \in Users : (Notified(side, cond)[t] = "idle") = (pc[t] = "idle")
         /\ \A t \in Users : Notified(side, cond)[t] = "wait" => pc[t] = "wait"
         /\ cond => \A t \in side : Notified(side, cond)[t] # "wait"
BY Zenon DEF Notified, TypeOK

\* A read hands bytes over without changing the stream.
LEMMA ReadKeepsStream ==
  ASSUME TypeOK, NEW n \in 0 .. Len(buf)
  PROVE  /\ received \o SubSeq(buf, 1, n) \in Seq(Writers \X Nat)
         /\ SubSeq(buf, n + 1, Len(buf)) \in Seq(Writers \X Nat)
         /\ Len(SubSeq(buf, n + 1, Len(buf))) = Len(buf) - n
         /\ (received \o SubSeq(buf, 1, n)) \o SubSeq(buf, n + 1, Len(buf)) = Stream
<1> DEFINE Byte == Writers \X Nat
<1>1. buf \in Seq(Byte) /\ received \in Seq(Byte) /\ Len(buf) \in Nat
  BY DEF TypeOK
<1>2. \A i \in 1 .. Len(buf) : buf[i] \in Byte
  BY Zenon, <1>1, ElementOfSeq
<1> HIDE DEF Byte
<1>3. SubSeq(buf, 1, n) \in Seq(Byte)
  <2>1. \A i \in 1 .. n : buf[i] \in Byte
    BY <1>1, <1>2
  <2> QED BY <1>1, <2>1, SubSeqProperties
<1>4. SubSeq(buf, n + 1, Len(buf)) \in Seq(Byte) /\ Len(SubSeq(buf, n + 1, Len(buf))) = Len(buf) - n
  <2>1. \A i \in n + 1 .. Len(buf) : buf[i] \in Byte
    BY <1>1, <1>2
  <2>2. n + 1 \in Int /\ Len(buf) \in Int
    BY <1>1
  <2>3. /\ SubSeq(buf, n + 1, Len(buf)) \in Seq(Byte)
        /\ Len(SubSeq(buf, n + 1, Len(buf))) = IF n + 1 <= Len(buf) THEN Len(buf) - (n + 1) + 1 ELSE 0
    BY <2>1, <2>2, SubSeqProperties
  <2> QED BY <1>1, <2>3
<1>5. SubSeq(buf, 1, n) \o SubSeq(buf, n + 1, Len(buf)) = buf
  <2>1. 1 \in 1 .. Len(buf) + 1 /\ n \in 1 - 1 .. Len(buf) /\ Len(buf) \in n .. Len(buf)
    BY <1>1
  <2>2. SubSeq(buf, 1, n) \o SubSeq(buf, n + 1, Len(buf)) = SubSeq(buf, 1, Len(buf))
    BY Zenon, <1>1, <2>1, ConcatAdjacentSubSeq
  <2> QED BY Zenon, <1>1, <2>2, SubSeqFull
<1>6. received \o SubSeq(buf, 1, n) \in Seq(Byte)
  BY Zenon, <1>1, <1>3, ConcatProperties
<1>7. (received \o SubSeq(buf, 1, n)) \o SubSeq(buf, n + 1, Len(buf))
        = received \o (SubSeq(buf, 1, n) \o SubSeq(buf, n + 1, Len(buf)))
  <2> DEFINE A == SubSeq(buf, 1, n)
             B == SubSeq(buf, n + 1, Len(buf))
  <2>1. A \in Seq(Byte) /\ B \in Seq(Byte)
    BY Zenon, <1>3, <1>4
  <2> HIDE DEF A, B
  <2>2. (received \o A) \o B = received \o (A \o B)
    <3> HIDE DEF Byte
    <3> QED BY <1>1, <2>1, ConcatAssociative, SMTT(40)
  <2> QED BY Zenon, <2>2 DEF A, B
<1> QED BY Zenon, <1>4, <1>5, <1>6, <1>7 DEF Stream, Byte

\* A write appends its next bytes to the stream.
LEMMA WriteAppends ==
  ASSUME TypeOK, NEW w \in Writers, NEW n \in Nat
  PROVE  /\ buf \o Chunk(w, n) \in Seq(Writers \X Nat)
         /\ Len(buf \o Chunk(w, n)) = Len(buf) + n
         /\ n = 0 => buf \o Chunk(w, n) = buf
         /\ Stream \in Seq(Writers \X Nat)
         /\ received \o (buf \o Chunk(w, n)) = Stream \o Chunk(w, n)
         /\ Len(Stream \o Chunk(w, n)) = Len(Stream) + n
         /\ \A i \in 1 .. Len(Stream) : (Stream \o Chunk(w, n))[i] = Stream[i]
         /\ \A i \in Len(Stream) + 1 .. Len(Stream) + n :
              (Stream \o Chunk(w, n))[i] = <<w, sent[w] + (i - Len(Stream))>>
<1> DEFINE Byte == Writers \X Nat
<1>1. buf \in Seq(Byte) /\ received \in Seq(Byte)
  BY Zenon DEF TypeOK
<1>2. Chunk(w, n) \in Seq(Byte) /\ Len(Chunk(w, n)) = n
  BY IsASeq DEF TypeOK, Chunk
<1>3. \A k \in 1 .. n : Chunk(w, n)[k] = <<w, sent[w] + k>>
  BY Zenon DEF Chunk
<1> HIDE DEF Byte
<1>4. buf \o Chunk(w, n) \in Seq(Byte) /\ Len(buf \o Chunk(w, n)) = Len(buf) + n
  BY Zenon, <1>1, <1>2, ConcatProperties
<1>5. Stream \in Seq(Byte) /\ Len(Stream) \in Nat
  BY Zenon, <1>1, ConcatProperties, LenProperties DEF Stream
<1>6. received \o (buf \o Chunk(w, n)) = Stream \o Chunk(w, n)
  <2> DEFINE C == Chunk(w, n)
  <2>1. C \in Seq(Byte)
    BY Zenon, <1>2
  <2> HIDE DEF C
  <2>2. (received \o buf) \o C = received \o (buf \o C)
    BY <1>1, <2>1, ConcatAssociative, SMTT(40)
  <2> QED BY Zenon, <2>2 DEF Stream, C
<1>7. /\ Len(Stream \o Chunk(w, n)) = Len(Stream) + n
      /\ \A i \in 1 .. Len(Stream) + n : (Stream \o Chunk(w, n))[i] =
           IF i <= Len(Stream) THEN Stream[i] ELSE Chunk(w, n)[i - Len(Stream)]
  BY ZenonT(60), <1>2, <1>5, ConcatProperties
<1>8. \A i \in 1 .. Len(Stream) : (Stream \o Chunk(w, n))[i] = Stream[i]
  BY <1>5, <1>7
<1>9. ASSUME NEW i \in Len(Stream) + 1 .. Len(Stream) + n
      PROVE  (Stream \o Chunk(w, n))[i] = <<w, sent[w] + (i - Len(Stream))>>
  BY <1>3, <1>5, <1>7
<1>10. n = 0 => buf \o Chunk(w, n) = buf
  <2>1. SUFFICES ASSUME n = 0 PROVE buf \o Chunk(w, n) = buf
    BY Zenon
  <2>2. Chunk(w, n) = <<>>
    BY Zenon, <1>2, <2>1, EmptySeq
  <2> QED BY Zenon, <1>1, <2>2, ConcatEmptySeq
<1> QED BY Zenon, <1>4, <1>5, <1>6, <1>7, <1>8, <1>9, <1>10 DEF Byte

-----------------------------------------------------------------------------
\* Appending a writer's next n bytes keeps every writer's bytes complete and in order.
LEMMA WriteKeepsOrder ==
  ASSUME TypeOK, TypeOK', StreamIntact, NEW w \in Writers, NEW n \in Nat,
         buf' = buf \o Chunk(w, n), received' = received,
         sent' = [sent EXCEPT ![w] = @ + n], eof' = eof, write_fds' = write_fds,
         eof => n = 0
  PROVE  StreamIntact'
<1> DEFINE L == Len(Stream)
           T == Stream'
<1>1. /\ Len(T) = L + n
      /\ \A i \in 1 .. L : T[i] = Stream[i]
      /\ \A i \in L + 1 .. L + n : T[i] = <<w, sent[w] + (i - L)>>
      /\ L \in Nat
  <2>1. Stream' = Stream \o Chunk(w, n)
    BY Zenon, WriteAppends DEF Stream
  <2>2. Stream \in Seq(Writers \X Nat)
    BY Zenon, WriteAppends
  <2> QED BY Zenon, <2>1, <2>2, WriteAppends, LenProperties
<1>2. /\ \A v \in Writers : sent[v] \in Nat
      /\ \A v \in Writers : sent'[v] = IF v = w THEN sent[w] + n ELSE sent[v]
  BY DEF TypeOK
<1>a. /\ \A v \in Writers : \A k \in 1 .. sent[v] : \E i \in 1 .. L : Stream[i] = <<v, k>>
      /\ \A i \in 1 .. L : Stream[i][1] \in Writers /\ Stream[i][2] \in 1 .. sent[Stream[i][1]]
      /\ \A i, j \in 1 .. L : i < j /\ Stream[i][1] = Stream[j][1] => Stream[i][2] < Stream[j][2]
      /\ eof => buf = <<>> /\ write_fds = 0
  BY Zenon DEF StreamIntact
<1> HIDE DEF L, T
<1>3. ASSUME NEW v \in Writers, NEW k \in 1 .. sent'[v]
      PROVE  \E i \in 1 .. Len(T) : T[i] = <<v, k>>
  <2>1. CASE k <= sent[v]
    <3>1. k \in 1 .. sent[v]
      BY <1>2, <2>1
    <3>2. PICK i \in 1 .. L : Stream[i] = <<v, k>>
      BY <1>a, <3>1, Zenon
    <3>3. i \in 1 .. Len(T) /\ T[i] = Stream[i]
      BY <1>1
    <3> QED BY Zenon, <3>2, <3>3
  <2>2. CASE k > sent[v]
    <3>1. v = w /\ k - sent[w] \in 1 .. n
      BY <1>2, <2>2
    <3>2. L + (k - sent[w]) \in L + 1 .. L + n
      BY <1>1, <1>2, <3>1
    <3>3. T[L + (k - sent[w])] = <<w, sent[w] + ((L + (k - sent[w])) - L)>>
      BY Zenon, <1>1, <3>2
    <3>4. sent[w] + ((L + (k - sent[w])) - L) = k
      BY <1>1, <1>2, <3>1
    <3>5. L + (k - sent[w]) \in 1 .. Len(T)
      BY <1>1, <3>2
    <3>6. T[L + (k - sent[w])] = <<v, k>>
      BY Zenon, <3>1, <3>3, <3>4
    <3> QED BY Zenon, <3>5, <3>6
  <2> QED BY <1>2, <2>1, <2>2
<1>4. ASSUME NEW i \in 1 .. Len(T)
      PROVE  T[i][1] \in Writers /\ T[i][2] \in 1 .. sent'[T[i][1]]
  <2>1. CASE i <= L
    <3>1. T[i] = Stream[i] /\ Stream[i][1] \in Writers /\ Stream[i][2] \in 1 .. sent[Stream[i][1]]
      BY <1>1, <1>a, <2>1
    <3> QED BY <1>2, <3>1
  <2>2. CASE i > L
    <3>1. T[i] = <<w, sent[w] + (i - L)>> /\ i - L \in 1 .. n
      BY <1>1, <2>2
    <3> QED BY <1>2, <3>1
  <2> QED BY <1>1, <2>1, <2>2
<1>5. ASSUME NEW i \in 1 .. Len(T), NEW j \in 1 .. Len(T),
             i < j, T[i][1] = T[j][1]
      PROVE  T[i][2] < T[j][2]
  <2>1. CASE j <= L
    <3>1. /\ i \in 1 .. L /\ j \in 1 .. L
          /\ T[i] = Stream[i] /\ T[j] = Stream[j]
      BY <1>1, <1>5, <2>1
    <3> QED BY Zenon, <1>a, <1>5, <3>1
  <2>2. CASE i <= L /\ j > L
    <3>1. T[i] = Stream[i] /\ T[j] = <<w, sent[w] + (j - L)>> /\ j - L \in 1 .. n
      BY <1>1, <2>2
    <3>2. Stream[i][1] = w /\ Stream[i][2] \in 1 .. sent[w]
      BY <1>1, <1>a, <1>5, <2>2, <3>1
    <3> QED BY <1>2, <3>1, <3>2
  <2>3. CASE i > L
    <3>1. /\ T[i] = <<w, sent[w] + (i - L)>> /\ i - L \in 1 .. n
          /\ T[j] = <<w, sent[w] + (j - L)>> /\ j - L \in 1 .. n
      BY <1>1, <1>5, <2>3
    <3> QED BY <1>1, <1>2, <1>5, <3>1
  <2> QED BY <1>1, <2>1, <2>2, <2>3
<1>6. eof' => buf' = <<>> /\ write_fds' = 0
  BY Zenon, <1>a, WriteAppends
<1> QED BY Zenon, <1>3, <1>4, <1>5, <1>6 DEF StreamIntact, T

\* A step that leaves the stream, the counts and the end of file alone keeps it intact.
LEMMA SameStream ==
  ASSUME StreamIntact, Stream' = Stream, sent' = sent,
         eof' => buf' = <<>> /\ write_fds' = 0
  PROVE  StreamIntact'
BY Zenon DEF StreamIntact

-----------------------------------------------------------------------------
\* A new pipe satisfies the invariant.
LEMMA PipeInvInit == Init => PipeInv
<1> SUFFICES ASSUME Init PROVE PipeInv
  BY Zenon
<1> USE PipeAssumption DEF Init
<1>1. TypeOK
  <2>1. /\ buf \in Seq(Writers \X Nat) /\ Len(buf) = 0 /\ received \in Seq(Writers \X Nat)
    BY Zenon, EmptySeq
  <2>2. 0 \in 0 .. MaxChunk /\ 0 \in 0 .. MaxBytes /\ 0 \in 0 .. PIPE_BUFF
    OBVIOUS
  <2>3. /\ pc \in [Users -> {"idle", "run", "wait"}] /\ left \in [Writers -> 0 .. MaxChunk]
        /\ sent \in [Writers -> 0 .. MaxBytes] /\ broken \in [Writers -> 0 .. MaxBytes]
    BY Zenon, <2>2
  <2>4. Len(buf) \in 0 .. PIPE_BUFF
    BY <2>1
  <2>5. read_fds \in 0 .. 1 /\ write_fds \in 0 .. 1
    OBVIOUS
  <2>6. eof \in BOOLEAN
    BY Zenon
  <2> HIDE DEF Init
  <2> QED BY Zenon, <2>1, <2>3, <2>4, <2>5, <2>6 DEF TypeOK
<1>2. Budget /\ ClosedQuiet /\ SleepersHaveReason
  BY DEF Budget, ClosedQuiet, SleepersHaveReason, Users
<1>3. StreamIntact
  <2>1. Stream = <<>> /\ Len(Stream) = 0
    BY Zenon, EmptySeq, ConcatEmptySeq DEF Stream
  <2> QED BY <2>1 DEF StreamIntact
<1> QED BY Zenon, <1>1, <1>2, <1>3 DEF PipeInv

\* Reads, writes, closes, wake-ups and calls keep the invariant.
LEMMA PipeInvNext == PipeInv /\ [Next]_vars => PipeInv'
<1> SUFFICES ASSUME PipeInv, [Next]_vars PROVE PipeInv'
  BY Zenon
<1> USE PipeAssumption
<1>0. TypeOK /\ Budget /\ ClosedQuiet /\ SleepersHaveReason /\ StreamIntact
  BY Zenon DEF PipeInv
<1>t. /\ pc \in [Users -> {"idle", "run", "wait"}]
      /\ read_fds \in 0 .. 1 /\ write_fds \in 0 .. 1
      /\ left \in [Writers -> 0 .. MaxChunk]
      /\ sent \in [Writers -> 0 .. MaxBytes]
      /\ broken \in [Writers -> 0 .. MaxBytes]
  BY Zenon, <1>0 DEF TypeOK
<1>u. \A r \in Readers : r \in Users /\ r \notin Writers
  BY Zenon DEF Users
<1>v. \A w \in Writers : w \in Users
  BY Zenon DEF Users
<1>l. Len(buf) \in 0 .. PIPE_BUFF /\ buf \in Seq(Writers \X Nat) /\ received \in Seq(Writers \X Nat)
  BY Zenon, <1>0 DEF TypeOK
<1>1. ASSUME NEW r \in Readers, BeginRead(r) PROVE PipeInv'
  <2> USE <1>1 DEF BeginRead
  <2>1. TypeOK'
    BY Zenon, <1>0 DEF TypeOK, Users
  <2>2. Budget' /\ ClosedQuiet' /\ SleepersHaveReason'
    BY SMTT(40), <1>0, <1>t, <1>u, <1>v DEF Budget, ClosedQuiet, SleepersHaveReason
  <2>3. StreamIntact'
    BY Zenon, <1>0, SameStream DEF Stream, StreamIntact
  <2> QED BY Zenon, <2>1, <2>2, <2>3 DEF PipeInv
<1>2. ASSUME NEW r \in Readers, Read(r) PROVE PipeInv'
  <2> USE <1>2
  <2>1. CASE AtEof /\ eof' = TRUE /\ pc' = [pc EXCEPT ![r] = "idle"] /\ UNCHANGED <<buf, received>>
    <3>1. TypeOK'
      BY Zenon, <1>0, <2>1 DEF TypeOK, Users, Read
    <3>2. Budget' /\ ClosedQuiet' /\ SleepersHaveReason'
      BY Zenon, <1>0, <2>1 DEF TypeOK, Budget, ClosedQuiet, SleepersHaveReason, Users, Read
    <3>3. StreamIntact'
      BY Zenon, <1>0, <2>1, SameStream DEF Stream, Read, AtEof
    <3> QED BY Zenon, <3>1, <3>2, <3>3 DEF PipeInv
  <2>2. CASE ~AtEof /\ buf = <<>> /\ pc' = [pc EXCEPT ![r] = "wait"] /\ UNCHANGED <<buf, received, eof>>
    <3>1. TypeOK'
      BY Zenon, <1>0, <2>2 DEF TypeOK, Users, Read
    <3>2. Budget' /\ ClosedQuiet' /\ SleepersHaveReason'
      BY <1>0, <2>2 DEF TypeOK, Budget, ClosedQuiet, SleepersHaveReason, Users, Read, AtEof
    <3>3. StreamIntact'
      BY Zenon, <1>0, <2>2, SameStream DEF Stream, Read, StreamIntact
    <3> QED BY Zenon, <3>1, <3>2, <3>3 DEF PipeInv
  <2>3. CASE /\ ~AtEof /\ buf # <<>>
             /\ \E len \in 1 .. MaxChunk :
                  LET to_copy == Least(len, Len(buf)) IN
                  /\ received' = received \o SubSeq(buf, 1, to_copy)
                  /\ buf' = SubSeq(buf, to_copy + 1, Len(buf))
             /\ pc' = [Notified(Writers, TRUE) EXCEPT ![r] = "idle"]
             /\ UNCHANGED eof
    <3>1. PICK n \in 0 .. Len(buf) : /\ received' = received \o SubSeq(buf, 1, n)
                                     /\ buf' = SubSeq(buf, n + 1, Len(buf))
      <4>1. PICK len \in 1 .. MaxChunk : /\ received' = received \o SubSeq(buf, 1, Least(len, Len(buf)))
                                       /\ buf' = SubSeq(buf, Least(len, Len(buf)) + 1, Len(buf))
        BY Zenon, <2>3
      <4>2. Least(len, Len(buf)) \in 0 .. Len(buf)
        BY <1>l DEF Least
      <4> QED BY Zenon, <4>1, <4>2
    <3>2. /\ received' \in Seq(Writers \X Nat) /\ buf' \in Seq(Writers \X Nat)
          /\ Len(buf') = Len(buf) - n /\ Stream' = Stream
      BY Zenon, <1>0, <3>1, ReadKeepsStream DEF Stream
    <3>3. Writers \in SUBSET Users
      BY Zenon DEF Users
    <3>4. /\ pc' \in [Users -> {"idle", "run", "wait"}]
          /\ \A w \in Writers : (pc'[w] = "idle") = (pc[w] = "idle") /\ pc'[w] # "wait"
          /\ pc'[r] = "idle"
          /\ \A s \in Readers : s # r => pc'[s] = pc[s]
      <4> DEFINE N == Notified(Writers, TRUE)
      <4>1. /\ N \in [Users -> {"idle", "run", "wait"}]
            /\ \A t \in Users : t \notin Writers => N[t] = pc[t]
            /\ \A t \in Users : (N[t] = "idle") = (pc[t] = "idle")
            /\ \A t \in Writers : N[t] # "wait"
        BY Zenon, <1>0, <3>3, NotifiedAll
      <4>2. pc' = [N EXCEPT ![r] = "idle"]
        BY Zenon, <2>3
      <4> HIDE DEF N
      <4> QED BY Zenon, <1>u, <1>v, <4>1, <4>2
    <3>5. TypeOK'
      <4>1. Len(buf') \in 0 .. PIPE_BUFF
        BY <1>l, <3>2
      <4> QED BY Zenon, <1>0, <2>3, <3>2, <3>4, <4>1 DEF TypeOK, Read
    <3>6. Budget' /\ ClosedQuiet'
      BY Zenon, <1>0, <2>3, <3>4 DEF TypeOK, Budget, ClosedQuiet, Read
    <3>7. SleepersHaveReason'
      BY Zenon, <1>0, <2>3, <3>4 DEF SleepersHaveReason
    <3>8. StreamIntact'
      BY Zenon, <1>0, <2>3, <3>2, SameStream DEF Read, StreamIntact
    <3> QED BY Zenon, <3>5, <3>6, <3>7, <3>8 DEF PipeInv
  <2> QED BY Zenon, <2>1, <2>2, <2>3 DEF Read
<1>3. ASSUME NEW w \in Writers, BeginWrite(w) PROVE PipeInv'
  <2>1. PICK n \in 1 .. Least(MaxChunk, MaxBytes - sent[w] - broken[w]) : left' = [left EXCEPT ![w] = n]
    BY Zenon, <1>3 DEF BeginWrite
  <2>2. n \in 1 .. MaxChunk /\ sent[w] + n + broken[w] <= MaxBytes
    BY <1>0, <2>1 DEF Least, TypeOK
  <2>3. TypeOK'
    BY SMTT(40), <1>0, <1>3, <2>1, <2>2 DEF TypeOK, Users, BeginWrite
  <2>4. Budget'
    <3>1. ASSUME NEW v \in Writers
          PROVE  /\ sent'[v] + left'[v] + broken'[v] <= MaxBytes
                 /\ pc'[v] = "idle" => left'[v] = 0
      <4>1. sent' = sent /\ broken' = broken /\ pc' = [pc EXCEPT ![w] = "run"]
        BY Zenon, <1>3 DEF BeginWrite
      <4>2. left \in [Writers -> Nat] /\ pc \in [Users -> {"idle", "run", "wait"}] /\ w \in Users /\ v \in Users
        BY SMTT(40), <1>0 DEF TypeOK, Users
      <4>3. CASE v = w
        BY Zenon, <2>1, <2>2, <4>1, <4>2, <4>3
      <4>4. CASE v # w
        BY Zenon, <1>0, <2>1, <4>1, <4>2, <4>4 DEF Budget
      <4> QED BY Zenon, <4>3, <4>4
    <3> QED BY Zenon, <3>1 DEF Budget
  <2>5. ClosedQuiet' /\ SleepersHaveReason'
    <3>1. ClosedQuiet'
      BY <1>0, <1>3 DEF ClosedQuiet, TypeOK, Users, BeginWrite
    <3>2. SleepersHaveReason'
      BY Zenon, <1>0, <1>3 DEF SleepersHaveReason, TypeOK, Users, BeginWrite
    <3> QED BY Zenon, <3>1, <3>2
  <2>6. StreamIntact'
    BY Zenon, <1>0, <1>3, SameStream DEF Stream, StreamIntact, BeginWrite
  <2> QED BY Zenon, <2>3, <2>4, <2>5, <2>6 DEF PipeInv
<1>5. ASSUME CloseWrite PROVE PipeInv'
  <2>1. Readers \in SUBSET Users
    BY Zenon DEF Users
  <2>2. /\ pc' \in [Users -> {"idle", "run", "wait"}]
        /\ \A w \in Writers : pc'[w] = pc[w]
        /\ \A r \in Readers : pc'[r] # "wait" /\ (pc'[r] = "idle") = (pc[r] = "idle")
    <3> DEFINE N == Notified(Readers, TRUE)
    <3>1. /\ N \in [Users -> {"idle", "run", "wait"}]
          /\ \A t \in Users : t \notin Readers => N[t] = pc[t]
          /\ \A t \in Users : (N[t] = "idle") = (pc[t] = "idle")
          /\ \A t \in Readers : N[t] # "wait"
      BY Zenon, <1>0, <2>1, NotifiedAll
    <3>2. pc' = N
      BY Zenon, <1>5 DEF CloseWrite, SideClosed
    <3> HIDE DEF N
    <3> QED BY Zenon, <1>u, <1>v, <3>1, <3>2
  <2>3. TypeOK'
    BY <1>0, <1>5, <2>2 DEF TypeOK, CloseWrite
  <2>4. Budget' /\ ClosedQuiet' /\ SleepersHaveReason'
    BY Zenon, <1>0, <1>5, <2>2 DEF Budget, ClosedQuiet, SleepersHaveReason, CloseWrite
  <2>5. StreamIntact'
    <3>1. eof' => buf' = <<>> /\ write_fds' = 0
      BY <1>0, <1>5 DEF StreamIntact, CloseWrite
    <3> QED BY Zenon, <1>0, <1>5, <3>1, SameStream DEF Stream, CloseWrite
  <2> QED BY Zenon, <2>3, <2>4, <2>5 DEF PipeInv
<1>6. ASSUME CloseRead PROVE PipeInv'
  <2>1. Writers \in SUBSET Users
    BY Zenon DEF Users
  <2>2. /\ pc' \in [Users -> {"idle", "run", "wait"}]
        /\ \A r \in Readers : pc'[r] = pc[r]
        /\ \A w \in Writers : pc'[w] # "wait" /\ (pc'[w] = "idle") = (pc[w] = "idle")
    <3> DEFINE N == Notified(Writers, TRUE)
    <3>1. /\ N \in [Users -> {"idle", "run", "wait"}]
          /\ \A t \in Users : t \notin Writers => N[t] = pc[t]
          /\ \A t \in Users : (N[t] = "idle") = (pc[t] = "idle")
          /\ \A t \in Writers : N[t] # "wait"
      BY Zenon, <1>0, <2>1, NotifiedAll
    <3>2. pc' = N
      BY Zenon, <1>6 DEF CloseRead, SideClosed
    <3> HIDE DEF N
    <3> QED BY Zenon, <1>u, <1>v, <3>1, <3>2
  <2>3. TypeOK'
    BY <1>0, <1>6, <2>2 DEF TypeOK, CloseRead
  <2>4. Budget' /\ ClosedQuiet' /\ SleepersHaveReason'
    BY Zenon, <1>0, <1>6, <2>2 DEF Budget, ClosedQuiet, SleepersHaveReason, CloseRead
  <2>5. StreamIntact'
    BY Zenon, <1>0, <1>6, SameStream DEF Stream, StreamIntact, CloseRead
  <2> QED BY Zenon, <2>3, <2>4, <2>5 DEF PipeInv
<1>7. ASSUME NEW t \in Users, Spurious(t) PROVE PipeInv'
  <2>1. TypeOK'
    BY Zenon, <1>0, <1>7 DEF TypeOK, Spurious
  <2>2. Budget' /\ ClosedQuiet' /\ SleepersHaveReason'
    BY Zenon, <1>0, <1>7 DEF TypeOK, Budget, ClosedQuiet, SleepersHaveReason, Users, Spurious
  <2>3. StreamIntact'
    BY Zenon, <1>0, <1>7, SameStream DEF Stream, StreamIntact, Spurious
  <2> QED BY Zenon, <2>1, <2>2, <2>3 DEF PipeInv
<1>8. CASE UNCHANGED vars
  <2>1. TypeOK' /\ Budget' /\ ClosedQuiet' /\ SleepersHaveReason'
    BY Zenon, <1>0, <1>8 DEF TypeOK, Budget, ClosedQuiet, SleepersHaveReason, vars
  <2>2. StreamIntact'
    BY Zenon, <1>0, <1>8, SameStream DEF Stream, StreamIntact, vars
  <2> QED BY Zenon, <2>1, <2>2 DEF PipeInv
<1>4. ASSUME NEW w \in Writers, Write(w) PROVE PipeInv'
  <2> DEFINE n == Least(left[w], Space)
             rest == left[w] - n
  <2>1. /\ n \in 0 .. left[w] /\ rest \in 0 .. left[w] /\ n <= Space
        /\ rest > 0 => n = Space
        /\ Space = PIPE_BUFF - Len(buf) /\ left[w] \in 0 .. MaxChunk
    BY <1>0 DEF Least, Space, TypeOK
  <2>2. /\ pc[w] = "run" /\ write_fds # 0
        /\ buf' = buf \o Chunk(w, n)
        /\ sent' = [sent EXCEPT ![w] = @ + n]
        /\ left' = [left EXCEPT ![w] = IF read_fds = 0 THEN 0 ELSE rest]
        /\ broken' = [broken EXCEPT ![w] = IF read_fds = 0 THEN @ + rest ELSE @]
        /\ UNCHANGED <<read_fds, write_fds, received, eof>>
    BY Zenon, <1>0, <1>4 DEF Write, ClosedQuiet
  <2>3. /\ buf' \in Seq(Writers \X Nat) /\ Len(buf') = Len(buf) + n
        /\ n = 0 => buf' = buf
    <3>1. n \in Nat
      BY <2>1
    <3> HIDE DEF n
    <3>2. /\ buf \o Chunk(w, n) \in Seq(Writers \X Nat)
          /\ Len(buf \o Chunk(w, n)) = Len(buf) + n
          /\ n = 0 => buf \o Chunk(w, n) = buf
      BY Zenon, <1>0, <3>1, WriteAppends
    <3>3. buf' = buf \o Chunk(w, n)
      BY Zenon, <2>2
    <3> QED BY Zenon, <3>2, <3>3
  <2>4. /\ pc' \in [Users -> {"idle", "run", "wait"}]
        /\ pc'[w] = IF rest > 0 /\ read_fds > 0 THEN "wait" ELSE "idle"
        /\ \A v \in Writers : v # w => pc'[v] = pc[v]
        /\ \A r \in Readers : /\ (pc'[r] = "idle") = (pc[r] = "idle")
                              /\ pc'[r] = "wait" => pc[r] = "wait" /\ ~(n > 0)
    <3>1. Readers \in SUBSET Users /\ (n > 0) \in BOOLEAN /\ w \in Users
      BY DEF Users
    <3>2. pc' = [Notified(Readers, n > 0) EXCEPT ![w] = IF rest > 0 /\ read_fds > 0 THEN "wait" ELSE "idle"]
      BY Zenon, <1>4 DEF Write
    <3> DEFINE N == Notified(Readers, n > 0)
    <3> HIDE DEF n, rest
    <3>3. /\ N \in [Users -> {"idle", "run", "wait"}]
          /\ \A t \in Users : t \notin Readers => N[t] = pc[t]
          /\ \A t \in Users : (N[t] = "idle") = (pc[t] = "idle")
          /\ \A t \in Users : N[t] = "wait" => pc[t] = "wait"
          /\ n > 0 => \A t \in Readers : N[t] # "wait"
      BY Zenon, <1>0, <3>1, NotifiedAll
    <3> HIDE DEF N
    <3>4. pc' = [N EXCEPT ![w] = IF rest > 0 /\ read_fds > 0 THEN "wait" ELSE "idle"]
      BY Zenon, <3>2 DEF N
    <3> QED BY Zenon, <1>u, <1>v, <3>3, <3>4
  <2> HIDE DEF n, rest
  <2>5. TypeOK'
    <3>1. sent[w] + n <= MaxBytes /\ broken[w] + rest <= MaxBytes
      BY SMTT(40), <1>0, <2>1 DEF Budget, TypeOK
    <3>2. /\ sent' \in [Writers -> 0 .. MaxBytes] /\ broken' \in [Writers -> 0 .. MaxBytes]
          /\ left' \in [Writers -> 0 .. MaxChunk]
      BY SMTT(40), <1>t, <2>1, <2>2, <3>1
    <3>3. Len(buf') \in 0 .. PIPE_BUFF
      BY <1>l, <2>1, <2>3
    <3> QED BY Zenon, <1>0, <2>2, <2>3, <2>4, <3>2, <3>3 DEF TypeOK
  <2>6. Budget'
    <3>1. n + rest = left[w]
      BY <2>1 DEF rest
    <3>2. ASSUME NEW v \in Writers
          PROVE  /\ sent'[v] + left'[v] + broken'[v] <= MaxBytes
                 /\ pc'[v] = "idle" => left'[v] = 0
      <4>1. CASE v # w
        BY SMTT(40), <1>0, <1>t, <2>2, <2>4, <4>1 DEF Budget
      <4>2. CASE v = w
        <5>1. /\ sent'[w] = sent[w] + n
              /\ left'[w] = IF read_fds = 0 THEN 0 ELSE rest
              /\ broken'[w] = IF read_fds = 0 THEN broken[w] + rest ELSE broken[w]
          BY Zenon, <1>t, <2>2
        <5>2. sent[w] + left[w] + broken[w] <= MaxBytes
          BY Zenon, <1>0 DEF Budget
        <5> QED BY SMTT(40), <1>t, <2>1, <2>4, <3>1, <4>2, <5>1, <5>2
      <4> QED BY SMTT(40), <4>1, <4>2
    <3> QED BY Zenon, <3>2 DEF Budget
  <2>7. ClosedQuiet'
    BY Zenon, <1>0, <2>2, <2>4 DEF ClosedQuiet
  <2>8. SleepersHaveReason'
    <3>1. \A r \in Readers : pc'[r] = "wait" => buf' = <<>> /\ write_fds' > 0
      BY SMTT(40), <1>0, <2>1, <2>2, <2>3, <2>4 DEF SleepersHaveReason
    <3>2. ASSUME NEW v \in Writers, pc'[v] = "wait" PROVE Len(buf') = PIPE_BUFF /\ read_fds' > 0
      <4>1. CASE v = w
        BY SMTT(40), <1>t, <1>l, <2>1, <2>2, <2>3, <2>4, <3>2, <4>1
      <4>2. CASE v # w
        <5>1. Len(buf) = PIPE_BUFF /\ read_fds > 0
          BY Zenon, <1>0, <2>4, <3>2, <4>2 DEF SleepersHaveReason
        <5> QED BY <1>l, <2>1, <2>2, <2>3, <5>1
      <4> QED BY Zenon, <4>1, <4>2
    <3> QED BY SMTT(40), <3>1, <3>2 DEF SleepersHaveReason
  <2>9. StreamIntact'
    <3>1. ~eof
      BY Zenon, <1>0, <2>2 DEF StreamIntact
    <3>2. n \in Nat
      BY <2>1
    <3>3. /\ buf' = buf \o Chunk(w, n) /\ received' = received
          /\ sent' = [sent EXCEPT ![w] = @ + n] /\ eof' = eof /\ write_fds' = write_fds
          /\ eof => n = 0
      BY Zenon, <2>2, <3>1
    <3> QED BY Zenon, <1>0, <2>5, <3>2, <3>3, WriteKeepsOrder
  <2> QED BY Zenon, <2>5, <2>6, <2>7, <2>8, <2>9 DEF PipeInv
<1> QED BY Zenon, <1>1, <1>2, <1>3, <1>4, <1>5, <1>6, <1>7, <1>8 DEF Next

\* No wake-up of read, write or close is missing: a sleeping reader's pipe is empty
\* and can still be written, a sleeping writer's is full and can still be read.
THEOREM PipeSleepersHaveReason == Spec => []SleepersHaveReason
<1>1. PipeInv => SleepersHaveReason
  BY Zenon DEF PipeInv
<1> QED BY <1>1, PipeInvInit, PipeInvNext, PTL DEF Spec

\* Every byte a write put into the pipe is taken by the reads or still queued,
\* exactly once, in its writer's order, and nothing follows the end of file.
THEOREM PipeStreamIntact == Spec => [](TypeOK /\ StreamIntact)
<1>1. PipeInv => TypeOK /\ StreamIntact
  BY Zenon DEF PipeInv
<1> QED BY <1>1, PipeInvInit, PipeInvNext, PTL DEF Spec

-----------------------------------------------------------------------------
(* The ring buffers                                                          *)

\* Advancing an index by at most one turn needs no division.
LEMMA AdvanceValue ==
  \A i \in Slots : \A n \in 0 .. Size :
    Advance(i, n, Size) = IF i + n < Size THEN i + n ELSE i + n - Size
<1> SUFFICES ASSUME NEW i \in Slots, NEW n \in 0 .. Size
             PROVE  Advance(i, n, Size) = IF i + n < Size THEN i + n ELSE i + n - Size
  BY Zenon
<1> USE CircularAssumption DEF Slots
<1>1. CASE i + n < Size
  <2>1. (i + n) % Size = i + n
    BY <1>1
  <2> QED BY Zenon, <1>1, <2>1 DEF Advance
<1>2. CASE ~(i + n < Size)
  <2>1. (i + n) % Size = i + n - Size
    BY <1>2
  <2> QED BY Zenon, <1>2, <2>1 DEF Advance
<1> QED BY Zenon, <1>1, <1>2

\* What the two counting macros return for indices inside the buffer.
LEMMA ReadableValue ==
  \A w, r \in Slots :
    /\ CIRC_READABLE(w, r, Size) \in 0 .. Size - 1
    /\ CIRC_WRITABLE(w, r, Size) = Size - 1 - CIRC_READABLE(w, r, Size)
    /\ w = Advance(r, CIRC_READABLE(w, r, Size), Size)
    /\ CIRC_READABLE(w, r, Size) = 0 <=> w = r
<1> SUFFICES ASSUME NEW w \in Slots, NEW r \in Slots
             PROVE  /\ CIRC_READABLE(w, r, Size) \in 0 .. Size - 1
                    /\ CIRC_WRITABLE(w, r, Size) = Size - 1 - CIRC_READABLE(w, r, Size)
                    /\ w = Advance(r, CIRC_READABLE(w, r, Size), Size)
                    /\ CIRC_READABLE(w, r, Size) = 0 <=> w = r
  BY Zenon
<1>1. CIRC_READABLE(w, r, Size) \in 0 .. Size - 1
  BY CircularAssumption DEF CIRC_READABLE, Slots
<1>2. w = Advance(r, CIRC_READABLE(w, r, Size), Size)
  BY <1>1, AdvanceValue, CircularAssumption DEF CIRC_READABLE, Slots
<1> QED BY <1>1, <1>2, CircularAssumption DEF CIRC_READABLE, CIRC_WRITABLE, Slots

\* Moving the write index forward over free slots adds to what is readable, moving
\* the read index forward over readable slots takes away from it.
LEMMA ReadableMoves ==
  \A w, r \in Slots : \A n \in 0 .. Size :
    /\ n <= CIRC_WRITABLE(w, r, Size) =>
         CIRC_READABLE(Advance(w, n, Size), r, Size) = CIRC_READABLE(w, r, Size) + n
    /\ n <= CIRC_READABLE(w, r, Size) =>
         CIRC_READABLE(w, Advance(r, n, Size), Size) = CIRC_READABLE(w, r, Size) - n
<1> SUFFICES ASSUME NEW w \in Slots, NEW r \in Slots, NEW n \in 0 .. Size
             PROVE  /\ n <= CIRC_WRITABLE(w, r, Size) =>
                         CIRC_READABLE(Advance(w, n, Size), r, Size) = CIRC_READABLE(w, r, Size) + n
                    /\ n <= CIRC_READABLE(w, r, Size) =>
                         CIRC_READABLE(w, Advance(r, n, Size), Size) = CIRC_READABLE(w, r, Size) - n
  BY Zenon
<1>1. Advance(w, n, Size) = IF w + n < Size THEN w + n ELSE w + n - Size
  BY Zenon, AdvanceValue
<1>2. Advance(r, n, Size) = IF r + n < Size THEN r + n ELSE r + n - Size
  BY Zenon, AdvanceValue
<1> QED BY <1>1, <1>2, CircularAssumption DEF CIRC_READABLE, CIRC_WRITABLE, Slots

\* Two steps along the ring add up, and stay inside it.
LEMMA AdvanceMoves ==
  \A i \in Slots : \A m, n \in 0 .. Size :
    /\ Advance(i, n, Size) \in Slots
    /\ Advance(i, 0, Size) = i
    /\ m + n <= Size => Advance(Advance(i, m, Size), n, Size) = Advance(i, m + n, Size)
    /\ m < Size /\ n < Size /\ Advance(i, m, Size) = Advance(i, n, Size) => m = n
<1> SUFFICES ASSUME NEW i \in Slots, NEW m \in 0 .. Size, NEW n \in 0 .. Size
             PROVE  /\ Advance(i, n, Size) \in Slots
                    /\ Advance(i, 0, Size) = i
                    /\ m + n <= Size => Advance(Advance(i, m, Size), n, Size) = Advance(i, m + n, Size)
                    /\ m < Size /\ n < Size /\ Advance(i, m, Size) = Advance(i, n, Size) => m = n
  BY Zenon
<1>1. \A k \in 0 .. Size : Advance(i, k, Size) = IF i + k < Size THEN i + k ELSE i + k - Size
  BY Zenon, AdvanceValue
<1>2. \A k \in 0 .. Size : Advance(i, k, Size) \in Slots
  BY <1>1, CircularAssumption DEF Slots
<1>3. m + n <= Size => Advance(Advance(i, m, Size), n, Size) = Advance(i, m + n, Size)
  <2> SUFFICES ASSUME m + n <= Size
               PROVE  Advance(Advance(i, m, Size), n, Size) = Advance(i, m + n, Size)
    BY Zenon
  <2> DEFINE j == Advance(i, m, Size)
  <2>1. j \in Slots /\ j = IF i + m < Size THEN i + m ELSE i + m - Size
    BY Zenon, <1>1, <1>2
  <2>2. Advance(j, n, Size) = IF j + n < Size THEN j + n ELSE j + n - Size
    BY Zenon, <2>1, AdvanceValue
  <2>3. m + n \in 0 .. Size
    BY CircularAssumption
  <2>4. Advance(i, m + n, Size) = IF i + (m + n) < Size THEN i + (m + n) ELSE i + (m + n) - Size
    BY Zenon, <2>3, <1>1
  <2> HIDE DEF j
  <2>5. Advance(j, n, Size) = Advance(i, m + n, Size)
    BY <2>1, <2>2, <2>4, CircularAssumption DEF Slots
  <2> QED BY Zenon, <2>5 DEF j
<1>4. Advance(i, 0, Size) = i
  BY <1>1, CircularAssumption DEF Slots
<1>5. m < Size /\ n < Size /\ Advance(i, m, Size) = Advance(i, n, Size) => m = n
  BY <1>1, CircularAssumption DEF Slots
<1> QED BY Zenon, <1>2, <1>3, <1>4, <1>5

-----------------------------------------------------------------------------
\* NoByteRace and the refinement are not inductive: they need to know what each
\* side has established before it entered its copy loop.
IInv == RingTypeOK /\ ReaderView /\ WriterView

\* How much can be read now; the provers see it only through the lemmas above.
Readable == CIRC_READABLE(writePtr, readPtr, Size)

\* A request is a sequence of bytes.
LEMMA RequestType ==
  ASSUME NEW s \in Requests
  PROVE  s \in Seq(Data) /\ Len(s) \in 1 .. MaxLen /\ s \in [1 .. Len(s) -> Data]
<1>1. PICK n \in 1 .. MaxLen : s \in [1 .. n -> Data]
  BY Zenon DEF Requests
<1>2. n \in Nat
  BY <1>1, CircularAssumption
<1>3. s \in Seq(Data) /\ Len(s) = n
  BY <1>1, <1>2
<1> QED BY Zenon, <1>1, <1>3

\* The handler's request is a sequence of at most MaxLen bytes.
LEMMA SrcType ==
  ASSUME RingTypeOK
  PROVE  src \in Seq(Data) /\ Len(src) \in 0 .. MaxLen
<1>1. CASE src \in Requests
  BY <1>1, RequestType, CircularAssumption
<1>2. CASE src = << >>
  <2>1. << >> \in Seq(Data) /\ Len(<< >>) = 0
    OBVIOUS
  <2> QED BY <1>2, <2>1, CircularAssumption
<1> QED BY Zenon, <1>1, <1>2 DEF RingTypeOK

\* An empty buffer with both sides idle satisfies the invariant.
LEMMA InitIInv == RingInit => IInv
<1> SUFFICES ASSUME RingInit PROVE IInv
  BY Zenon
<1>1. 0 \in Slots /\ << >> \in Seq(Data)
  BY CircularAssumption DEF Slots
<1>2. RingTypeOK
  BY <1>1, CircularAssumption DEF RingInit, RingTypeOK
<1> QED BY Zenon, <1>2 DEF RingInit, IInv, ReaderView, WriterView

\* The reader's steps.
LEMMA ReadSteps ==
  ASSUME IInv,
         ReadStep \/ \E length \in 1 .. MaxLen : ReadCall(length)
  PROVE  IInv'
<1> USE DEF IInv
<1>0. /\ readPtr \in Slots /\ writePtr \in Slots /\ rr \in Slots /\ rw \in Slots
      /\ Readable \in 0 .. Size - 1 /\ Size \in Nat \ {0} /\ MaxLen \in Nat
  BY Zenon, ReadableValue, CircularAssumption DEF RingTypeOK, Readable
<1>1. ASSUME NEW length \in 1 .. MaxLen, ReadCall(length) PROVE IInv'
  <2>1. RingTypeOK'
    BY <1>1, CircularAssumption DEF ReadCall, RingTypeOK, wvars
  <2> QED BY <1>1, <2>1 DEF ReadCall, ReaderView, WriterView, wvars
<1>2. CASE ReadLoadWrite
  <2>1. RingTypeOK'
    BY Zenon, <1>2 DEF ReadLoadWrite, RingTypeOK, wvars
  <2> QED BY <1>0, <1>2, <2>1 DEF ReadLoadWrite, ReaderView, WriterView, wvars, Readable
<1>3. CASE ReadLoadRead
  <2>1. CASE rw = readPtr
    <3>1. RingTypeOK'
      BY <1>3, <2>1 DEF ReadLoadRead, RingTypeOK, wvars
    <3> QED BY Zenon, <1>3, <2>1, <3>1 DEF ReadLoadRead, ReaderView, WriterView, wvars
  <2>2. CASE rw # readPtr
    <3> DEFINE n == CIRC_READABLE(rw, readPtr, Size)
    <3>1. n \in 0 .. Size - 1 /\ n # 0 /\ n <= Readable
      BY Zenon, <1>0, <1>3, <2>2, ReadableValue DEF ReadLoadRead, ReaderView, Readable
    <3>2. rlen' = MIN(n, rlen) /\ rr' = readPtr /\ out' = << >> /\ rpc' = "copy"
      BY Zenon, <1>3, <2>2 DEF ReadLoadRead
    <3> HIDE DEF n
    <3>3. rlen \in 1 .. MaxLen
      BY <1>0, <1>3 DEF RingTypeOK, ReaderView, ReadLoadRead
    <3>4. rlen' \in 1 .. MaxLen /\ rlen' \in 1 .. Readable
      BY <1>0, <3>1, <3>2, <3>3 DEF MIN
    <3>5. UNCHANGED <<buff, readPtr, writePtr, rw, wvars, got>> /\ Readable' = Readable
      BY Zenon, <1>3, <2>2 DEF ReadLoadRead, Readable
    <3>6. RingTypeOK'
      BY <1>0, <3>2, <3>4, <3>5 DEF RingTypeOK, wvars
    <3>7. rr' = Advance(readPtr', Len(out'), Size)
      BY <1>0, <3>2, <3>5, AdvanceMoves
    <3>8. ReaderView'
      BY <1>0, <3>2, <3>4, <3>5, <3>7 DEF ReaderView, Readable
    <3>9. WriterView'
      BY Zenon, <3>5 DEF WriterView, wvars
    <3> QED BY Zenon, <3>6, <3>8, <3>9
  <2> QED BY Zenon, <1>3, <2>1, <2>2
<1>4. CASE ReadByte
  <2>1. /\ rpc = "copy" /\ Len(out) < rlen /\ rlen \in 1 .. Readable
        /\ rr = Advance(readPtr, Len(out), Size) /\ Len(out) \in Nat
        /\ out \in Seq(Data) /\ buff[rr] \in Data
    BY <1>0, <1>4 DEF ReadByte, RingTypeOK, ReaderView, Readable
  <2>2. /\ out' = Append(out, buff[rr]) /\ rr' = Advance(rr, 1, Size)
        /\ UNCHANGED <<buff, readPtr, writePtr, rpc, rlen, rw, wvars, got>>
        /\ Readable' = Readable
    BY Zenon, <1>4 DEF ReadByte, Readable
  <2>3. out' \in Seq(Data) /\ Len(out') = Len(out) + 1
    BY <2>1, <2>2
  <2>4. rr' = Advance(readPtr, Len(out'), Size) /\ rr' \in Slots
    BY <1>0, <2>1, <2>2, <2>3, AdvanceMoves
  <2>5. RingTypeOK'
    BY Zenon, <2>2, <2>3, <2>4 DEF RingTypeOK, wvars
  <2>6. \A k \in 1 .. Len(out') : out'[k] = buff[Advance(readPtr, k - 1, Size)]
    BY <2>1, <2>2, <2>3 DEF ReaderView
  <2>7. ReaderView'
    BY <2>1, <2>2, <2>3, <2>4, <2>6, <1>0 DEF ReaderView, Readable
  <2>8. WriterView'
    BY Zenon, <2>2 DEF WriterView, wvars
  <2> QED BY Zenon, <2>5, <2>7, <2>8
<1>5. CASE ReadPublish
  <2>1. /\ rpc = "copy" /\ Len(out) = rlen /\ rlen \in 1 .. Readable
        /\ rr = Advance(readPtr, rlen, Size)
    BY Zenon, <1>5 DEF ReadPublish, ReaderView, Readable
  <2>2. /\ readPtr' = rr /\ got' = out /\ rpc' = "idle"
        /\ UNCHANGED <<buff, writePtr, rlen, rw, rr, out, wvars>>
    BY Zenon, <1>5 DEF ReadPublish
  <2>3. Readable' = Readable - rlen
    BY <1>0, <2>1, <2>2, ReadableMoves DEF Readable
  <2>4. RingTypeOK'
    BY Zenon, <1>0, <2>2 DEF RingTypeOK, wvars
  <2>5. ReaderView'
    BY Zenon, <2>2 DEF ReaderView
  <2>a. CIRC_WRITABLE(writePtr, readPtr, Size) = Size - 1 - Readable
    BY Zenon, <1>0, ReadableValue DEF Readable
  <2>b. readPtr' \in Slots /\ writePtr' \in Slots
    BY Zenon, <1>0, <2>2
  <2>c. CIRC_WRITABLE(writePtr', readPtr', Size) = Size - 1 - Readable'
    BY Zenon, <2>b, ReadableValue DEF Readable
  <2>d. rlen \in 1 .. Size
    BY <1>0, <2>1
  <2> HIDE DEF Readable
  <2>6. CIRC_WRITABLE(writePtr, readPtr, Size) <= CIRC_WRITABLE(writePtr', readPtr', Size)
    BY <1>0, <2>3, <2>a, <2>c, <2>d
  <2>7. /\ CIRC_WRITABLE(writePtr, readPtr, Size) \in Int
        /\ CIRC_WRITABLE(writePtr', readPtr', Size) \in Int
    BY <1>0, <2>3, <2>a, <2>c, <2>d
  <2>8. src \in Seq(Data)
    BY Zenon, SrcType
  <2>9. WriterView'
    BY <2>2, <2>6, <2>7, <2>8 DEF WriterView, wvars
  <2> QED BY Zenon, <2>4, <2>5, <2>9
<1> QED BY Zenon, <1>1, <1>2, <1>3, <1>4, <1>5 DEF ReadStep

\* The handler's steps.
LEMMA WriteSteps ==
  ASSUME IInv,
         WriteStep \/ \E bytes \in Requests : WriteCall(bytes)
  PROVE  IInv'
<1> USE DEF IInv
<1>0. /\ readPtr \in Slots /\ writePtr \in Slots /\ ww \in Slots /\ wr \in Slots
      /\ Readable \in 0 .. Size - 1 /\ Size \in Nat \ {0} /\ MaxLen \in Nat
      /\ CIRC_WRITABLE(writePtr, readPtr, Size) = Size - 1 - Readable
      /\ wi \in Nat /\ out \in Seq(Data) /\ rlen \in Nat
  BY ReadableValue, CircularAssumption DEF RingTypeOK, Readable
<1>s. src \in Seq(Data) /\ Len(src) \in 0 .. MaxLen
  BY Zenon, SrcType
<1>1. ASSUME NEW bytes \in Requests, WriteCall(bytes) PROVE IInv'
  <2>0. Len(bytes) > 0
    BY RequestType
  <2>1. RingTypeOK'
    BY <1>0, <1>1 DEF WriteCall, RingTypeOK, rvars
  <2> QED BY Zenon, <1>1, <2>0, <2>1 DEF WriteCall, ReaderView, WriterView, rvars
<1>2. CASE WriteLoadWrite
  <2>1. RingTypeOK'
    BY Zenon, <1>2 DEF WriteLoadWrite, RingTypeOK, rvars
  <2> QED BY Zenon, <1>2, <2>1 DEF WriteLoadWrite, ReaderView, WriterView, rvars
<1>3. CASE WriteLoadRead
  <2>1. RingTypeOK'
    BY Zenon, <1>3 DEF WriteLoadRead, RingTypeOK, rvars
  <2>2. ReaderView'
    BY Zenon, <1>3 DEF WriteLoadRead, ReaderView, rvars
  <2>3. ww = writePtr /\ wi = 0 /\ ww' = ww /\ wi' = wi /\ src' = src
    BY Zenon, <1>3 DEF WriteLoadRead, WriterView
  <2>4. ww' = Advance(writePtr', wi', Size)
    BY <1>0, <1>3, <2>3, AdvanceMoves DEF WriteLoadRead
  <2>5. wpc' = "copy" => Len(src) <= CIRC_WRITABLE(writePtr, readPtr, Size)
    BY <1>0, <1>s, <1>3, <2>3 DEF WriteLoadRead
  <2>6. WriterView'
    BY <1>0, <1>s, <1>3, <2>3, <2>4, <2>5 DEF WriteLoadRead, WriterView
  <2> QED BY Zenon, <2>1, <2>2, <2>6
<1>4. CASE WriteByte
  <2>1. /\ wpc = "copy" /\ wi < Len(src)
        /\ Len(src) <= Size - 1 - Readable
        /\ ww = Advance(writePtr, wi, Size)
        /\ \A k \in 1 .. wi : buff[Advance(writePtr, k - 1, Size)] = src[k]
    BY Zenon, <1>0, <1>4 DEF WriteByte, WriterView
  <2>2. /\ buff' = [buff EXCEPT ![ww] = src[wi + 1]]
        /\ ww' = Advance(ww, 1, Size) /\ wi' = wi + 1
        /\ UNCHANGED <<readPtr, writePtr, rvars, wpc, src, wr, got>>
        /\ Readable' = Readable
    BY Zenon, <1>4 DEF WriteByte, Readable
  <2>3. src[wi + 1] \in Data /\ wi + 1 \in 0 .. MaxLen
    BY <1>0, <1>s, <2>1
  <2>4. ww' = Advance(writePtr, wi', Size) /\ ww' \in Slots
    BY <1>0, <1>s, <2>1, <2>2, AdvanceMoves
  <2>5. RingTypeOK'
    BY Zenon, <2>2, <2>3, <2>4 DEF RingTypeOK, rvars
  <2>6. ww = Advance(readPtr, Readable + wi, Size) /\ Readable + wi < Size
    <3>1. Readable + wi < Size /\ Readable \in 0 .. Size /\ wi \in 0 .. Size
      BY <1>0, <1>s, <2>1
    <3>2. writePtr = Advance(readPtr, Readable, Size)
      BY Zenon, <1>0, ReadableValue DEF Readable
    <3>3. Advance(Advance(readPtr, Readable, Size), wi, Size)
            = Advance(readPtr, Readable + wi, Size)
      BY <1>0, <3>1, AdvanceMoves
    <3> QED BY Zenon, <2>1, <3>1, <3>2, <3>3
  <2>7. \A k \in 0 .. Readable - 1 : Advance(readPtr, k, Size) # ww
                                    /\ Advance(readPtr, k, Size) \in Slots
    BY <1>0, <2>6, AdvanceMoves
  <2>8. \A k \in 0 .. wi - 1 : Advance(writePtr, k, Size) # ww
                              /\ Advance(writePtr, k, Size) \in Slots
    <3>1. wi \in 0 .. Size - 1
      BY <1>0, <1>s, <2>1
    <3>2. TAKE k \in 0 .. wi - 1
    <3>3. k \in 0 .. Size /\ wi \in 0 .. Size /\ k < Size /\ wi < Size /\ k # wi
      BY <1>0, <3>1
    <3> QED BY Zenon, <1>0, <2>1, <3>3, AdvanceMoves
  <2>9. ReaderView'
    <3>1. CASE rpc = "copy"
      <4>1. /\ rlen \in 1 .. Readable /\ Len(out) <= rlen /\ Len(out) \in Nat
            /\ rr = Advance(readPtr, Len(out), Size)
            /\ \A k \in 1 .. Len(out) : out[k] = buff[Advance(readPtr, k - 1, Size)]
        BY <1>0, <3>1 DEF ReaderView, Readable
      <4>2. \A k \in 1 .. Len(out) : out[k] = buff'[Advance(readPtr, k - 1, Size)]
        BY SMTT(40), <1>0, <2>2, <2>7, <4>1 DEF RingTypeOK
      <4> QED BY Zenon, <2>2, <3>1, <4>1, <4>2 DEF ReaderView, rvars, Readable
    <3>2. CASE rpc # "copy"
      BY Zenon, <2>2, <3>2 DEF ReaderView, rvars
    <3> QED BY Zenon, <3>1, <3>2
  <2>10. \A k \in 1 .. wi' : buff'[Advance(writePtr, k - 1, Size)] = src[k]
    BY <1>0, <2>1, <2>2, <2>8 DEF RingTypeOK
  <2>11. WriterView'
    BY <1>0, <1>s, <2>1, <2>2, <2>4, <2>10 DEF WriterView
  <2> QED BY Zenon, <2>5, <2>9, <2>11
<1>5. CASE WritePublish
  <2>1. /\ wpc = "copy" /\ wi = Len(src) /\ Len(src) <= Size - 1 - Readable
        /\ ww = Advance(writePtr, Len(src), Size)
    BY Zenon, <1>0, <1>5 DEF WritePublish, WriterView
  <2>2. /\ writePtr' = ww /\ wpc' = "idle"
        /\ UNCHANGED <<buff, readPtr, rvars, src, ww, wr, wi, got>>
    BY Zenon, <1>5 DEF WritePublish
  <2>3. Readable' = Readable + Len(src)
    BY <1>0, <1>s, <2>1, <2>2, ReadableMoves DEF Readable
  <2>4. RingTypeOK'
    BY Zenon, <1>0, <2>2 DEF RingTypeOK, rvars
  <2>5. rw \in Slots
    BY Zenon DEF RingTypeOK
  <2>6. CIRC_READABLE(rw, readPtr, Size) \in Int
    BY <1>0, <2>5, ReadableValue
  <2>7. ReaderView'
    BY <1>0, <1>s, <2>2, <2>3, <2>6 DEF ReaderView, rvars, Readable
  <2> QED BY Zenon, <2>2, <2>4, <2>7 DEF WriterView
<1> QED BY Zenon, <1>1, <1>2, <1>3, <1>4, <1>5 DEF WriteStep

\* Every step keeps the invariant.
LEMMA NextIInv == IInv /\ [RingNext]_ringVars => IInv'
<1> SUFFICES ASSUME IInv, [RingNext]_ringVars PROVE IInv'
  BY Zenon
<1>1. CASE UNCHANGED ringVars
  BY Zenon, <1>1 DEF IInv, ringVars, rvars, wvars, RingTypeOK, ReaderView, WriterView
<1>2. CASE RingNext
  BY Zenon, <1>2, ReadSteps, WriteSteps DEF RingNext
<1> QED BY Zenon, <1>1, <1>2

\* The handler never stores into a byte the reader is still to copy, for every
\* buffer size: what is readable and what is writable never overlap.
THEOREM HandlerNeverRaces == RingSpec => []NoByteRace
<1>1. IInv => NoByteRace
  <2> SUFFICES ASSUME IInv, rpc = "copy", Len(out) < rlen, wpc = "copy", wi < Len(src),
                      NEW k \in 0 .. rlen - Len(out) - 1
               PROVE  Advance(rr, k, Size) # ww
    BY Zenon DEF NoByteRace
  <2> USE DEF IInv
  <2>1. /\ readPtr \in Slots /\ writePtr \in Slots /\ Size \in Nat \ {0}
        /\ Readable \in 0 .. Size - 1
        /\ CIRC_WRITABLE(writePtr, readPtr, Size) = Size - 1 - Readable
        /\ writePtr = Advance(readPtr, Readable, Size)
        /\ out \in Seq(Data) /\ wi \in Nat
    BY ReadableValue, CircularAssumption DEF RingTypeOK, Readable
  <2>2. Len(src) \in Nat /\ Len(out) \in Nat
    BY <2>1, SrcType
  <2>3. /\ rlen \in 1 .. Readable /\ rr = Advance(readPtr, Len(out), Size)
        /\ Len(src) <= Size - 1 - Readable /\ ww = Advance(writePtr, wi, Size)
    BY Zenon, <2>1 DEF ReaderView, WriterView, Readable
  <2>4. /\ Len(out) + k \in 0 .. Size /\ Readable + wi \in 0 .. Size
        /\ Len(out) \in 0 .. Size /\ k \in 0 .. Size /\ wi \in 0 .. Size
        /\ Readable \in 0 .. Size
        /\ Len(out) + k < Readable /\ Readable + wi < Size
    BY <2>1, <2>2, <2>3
  <2>5. Advance(rr, k, Size) = Advance(readPtr, Len(out) + k, Size)
    BY <2>1, <2>3, <2>4, AdvanceMoves
  <2>6. ww = Advance(readPtr, Readable + wi, Size)
    BY <2>1, <2>3, <2>4, AdvanceMoves
  <2>7. Len(out) + k < Size /\ Len(out) + k # Readable + wi
    BY <2>1, <2>2, <2>4
  <2> QED BY Zenon, <2>1, <2>4, <2>5, <2>6, <2>7, AdvanceMoves
<1> QED BY <1>1, InitIInv, NextIInv, PTL DEF RingSpec

\* The queue a state stands for.
Queue == Contents(buff, writePtr, readPtr, Size)

\* The queue is a sequence of Readable bytes starting at readPtr.
LEMMA QueueValue ==
  ASSUME RingTypeOK
  PROVE  /\ Queue \in Seq(Data) /\ Len(Queue) = Readable /\ Readable \in 0 .. Size - 1
         /\ \A i \in 1 .. Readable : Queue[i] = buff[Advance(readPtr, i - 1, Size)]
<1>1. /\ readPtr \in Slots /\ writePtr \in Slots /\ Size \in Nat \ {0}
      /\ Readable \in 0 .. Size - 1
  BY Zenon, ReadableValue, CircularAssumption DEF RingTypeOK, Readable
<1>2. \A i \in 1 .. Readable : Advance(readPtr, i - 1, Size) \in Slots
  BY <1>1, AdvanceMoves
<1>3. Queue = [i \in 1 .. Readable |-> buff[Advance(readPtr, i - 1, Size)]]
  BY Zenon DEF Queue, Contents, Readable
<1>4. Queue \in [1 .. Readable -> Data] /\ Readable \in Nat
  BY <1>1, <1>2, <1>3 DEF RingTypeOK
<1>5. Queue \in Seq(Data) /\ Len(Queue) = Readable
  BY <1>4
<1> QED BY Zenon, <1>1, <1>3, <1>5

\* Only the two stores of an index change the queue: everything else, the copying
\* included, happens outside the readable part.
LEMMA QuietSteps ==
  ASSUME IInv, RingNext, ~WritePublish, ~ReadPublish
  PROVE  UNCHANGED <<Queue, got>>
<1>1. CASE WriteByte
  <2> USE DEF IInv
  <2>1. /\ readPtr \in Slots /\ writePtr \in Slots /\ Size \in Nat \ {0}
        /\ Readable \in 0 .. Size - 1 /\ ww \in Slots /\ wi \in Nat
        /\ CIRC_WRITABLE(writePtr, readPtr, Size) = Size - 1 - Readable
        /\ writePtr = Advance(readPtr, Readable, Size)
    BY ReadableValue, CircularAssumption DEF RingTypeOK, Readable
  <2>2. /\ wi < Len(src) /\ Len(src) \in Nat /\ Len(src) <= Size - 1 - Readable
        /\ ww = Advance(writePtr, wi, Size)
    BY <1>1, <2>1, SrcType DEF WriteByte, WriterView
  <2>3. /\ Readable + wi \in 0 .. Size /\ Readable + wi < Size
        /\ wi \in 0 .. Size /\ Readable \in 0 .. Size
    BY <2>1, <2>2
  <2>4. ww = Advance(readPtr, Readable + wi, Size)
    BY <2>1, <2>2, <2>3, AdvanceMoves
  <2>5. \A i \in 1 .. Readable : /\ Advance(readPtr, i - 1, Size) # ww
                                 /\ Advance(readPtr, i - 1, Size) \in Slots
    <3>1. TAKE i \in 1 .. Readable
    <3>2. i - 1 \in 0 .. Size /\ i - 1 < Size /\ i - 1 # Readable + wi
      BY <2>1
    <3> QED BY Zenon, <2>1, <2>3, <2>4, <3>2, AdvanceMoves
  <2>6. \A i \in 1 .. Readable : buff'[Advance(readPtr, i - 1, Size)]
                                   = buff[Advance(readPtr, i - 1, Size)]
    BY Zenon, <1>1, <2>5 DEF WriteByte, RingTypeOK
  <2>7. Queue' = [i \in 1 .. Readable |-> buff'[Advance(readPtr, i - 1, Size)]]
    BY <1>1 DEF WriteByte, Queue, Contents, Readable
  <2>8. Queue = [i \in 1 .. Readable |-> buff[Advance(readPtr, i - 1, Size)]]
    BY Zenon DEF Queue, Contents, Readable
  <2>9. Queue' = Queue
    BY Zenon, <2>6, <2>7, <2>8
  <2> QED BY Zenon, <1>1, <2>9 DEF WriteByte
<1>2. CASE ~WriteByte
  <2>1. UNCHANGED <<buff, readPtr, writePtr, got>>
    BY Zenon, <1>2 DEF RingNext, ReadStep, WriteStep, ReadCall, ReadLoadWrite, ReadLoadRead,
                ReadByte, WriteCall, WriteLoadWrite, WriteLoadRead
  <2> QED BY Zenon, <2>1 DEF Queue
<1> QED BY Zenon, <1>1, <1>2

\* Storing writePtr appends the whole request.
LEMMA PutStep ==
  ASSUME IInv, IInv', WritePublish
  PROVE  Fifo!Put
<1> USE DEF IInv
<1>1. /\ Len(src) > 0 /\ src \in Requests /\ src \in [1 .. Len(src) -> Data]
      /\ Len(src) \in 1 .. MaxLen /\ src \in Seq(Data)
  <2>1. Len(src) > 0
    BY Zenon DEF WritePublish, WriterView
  <2>2. src # << >>
    BY <2>1
  <2>3. src \in Requests
    BY Zenon, <2>2 DEF RingTypeOK
  <2> QED BY Zenon, <2>1, <2>3, RequestType
<1>2. /\ readPtr \in Slots /\ writePtr \in Slots /\ Size \in Nat \ {0}
      /\ CIRC_WRITABLE(writePtr, readPtr, Size) = Size - 1 - Readable
      /\ writePtr = Advance(readPtr, Readable, Size)
      /\ Readable \in 0 .. Size - 1
  BY Zenon, ReadableValue, CircularAssumption DEF RingTypeOK, Readable
<1>3. /\ Len(src) <= Size - 1 - Readable
      /\ writePtr' = Advance(writePtr, Len(src), Size)
      /\ \A k \in 1 .. Len(src) : buff[Advance(writePtr, k - 1, Size)] = src[k]
      /\ UNCHANGED <<buff, readPtr, got>>
  BY Zenon, <1>2 DEF WritePublish, WriterView
<1>4. Readable' = Readable + Len(src)
  BY <1>1, <1>2, <1>3, ReadableMoves DEF Readable
<1>5. /\ Queue \in Seq(Data) /\ Len(Queue) = Readable
      /\ \A i \in 1 .. Readable : Queue[i] = buff[Advance(readPtr, i - 1, Size)]
  BY Zenon, QueueValue
<1>6. Queue' = [i \in 1 .. Readable' |-> buff[Advance(readPtr, i - 1, Size)]]
  BY Zenon, <1>3 DEF Queue, Contents, Readable
<1>7. \A i \in Readable + 1 .. Readable + Len(src) :
         buff[Advance(readPtr, i - 1, Size)] = src[i - Readable]
  <2>1. TAKE i \in Readable + 1 .. Readable + Len(src)
  <2> DEFINE k == i - Readable
  <2>2. k \in 1 .. Len(src) /\ k - 1 \in 0 .. Size /\ Readable \in 0 .. Size
        /\ Readable + (k - 1) <= Size /\ Readable + (k - 1) = i - 1
    BY <1>1, <1>2, <1>3
  <2> HIDE DEF k
  <2>3. Advance(Advance(readPtr, Readable, Size), k - 1, Size)
          = Advance(readPtr, Readable + (k - 1), Size)
    BY <1>2, <2>2, AdvanceMoves
  <2>4. buff[Advance(readPtr, i - 1, Size)] = src[k]
    BY Zenon, <1>2, <1>3, <2>2, <2>3
  <2> QED BY Zenon, <2>4 DEF k
<1>8. /\ Queue \o src \in Seq(Data) /\ Len(Queue \o src) = Readable + Len(src)
      /\ \A i \in 1 .. Readable + Len(src) :
           (Queue \o src)[i] = IF i <= Readable THEN Queue[i] ELSE src[i - Readable]
  BY Zenon, <1>1, <1>5, ConcatProperties
<1>9. Queue' = Queue \o src
  <2>1. /\ Queue' \in Seq(Data) /\ Len(Queue') = Readable + Len(src)
        /\ \A i \in 1 .. Readable' : Queue'[i] = buff[Advance(readPtr, i - 1, Size)]
    <3>1. Readable' \in 0 .. Size - 1
      BY <1>1, <1>2, <1>3, <1>4
    <3>2. \A i \in 1 .. Readable' : Advance(readPtr, i - 1, Size) \in Slots
      BY <1>2, <3>1, AdvanceMoves
    <3>3. Queue' \in [1 .. Readable' -> Data] /\ Readable' \in Nat
      BY <1>2, <1>6, <3>1, <3>2 DEF RingTypeOK
    <3>4. Queue' \in Seq(Data) /\ Len(Queue') = Readable'
      BY <3>3
    <3> QED BY Zenon, <1>4, <1>6, <3>4
  <2>2. \A i \in 1 .. Readable + Len(src) : Queue'[i] = (Queue \o src)[i]
    <3>1. TAKE i \in 1 .. Readable + Len(src)
    <3>2. CASE i <= Readable
      <4>1. i \in 1 .. Readable /\ i \in 1 .. Readable'
        BY <1>1, <1>2, <1>4, <3>2
      <4> QED BY Zenon, <1>5, <1>8, <2>1, <3>2, <4>1
    <3>3. CASE ~(i <= Readable)
      <4>1. i \in Readable + 1 .. Readable + Len(src) /\ i \in 1 .. Readable'
        BY <1>1, <1>2, <1>4, <3>3
      <4> QED BY Zenon, <1>7, <1>8, <2>1, <3>3, <4>1
    <3> QED BY Zenon, <3>2, <3>3
  <2> QED BY Zenon, <1>8, <2>1, <2>2, SeqEqual
<1>10. Len(Queue) + Len(src) <= Size - 1
  BY <1>1, <1>2, <1>3, <1>5
<1> QED BY Zenon, <1>1, <1>3, <1>9, <1>10 DEF Fifo!Put, Queue

\* Storing readPtr takes the oldest bytes, and they are what the caller got.
LEMMA TakeStep ==
  ASSUME IInv, IInv', ReadPublish
  PROVE  Fifo!Take
<1> USE DEF IInv
<1>1. /\ readPtr \in Slots /\ writePtr \in Slots /\ Size \in Nat \ {0}
      /\ Readable \in 0 .. Size - 1 /\ out \in Seq(Data) /\ MaxLen \in Nat
  BY Zenon, ReadableValue, CircularAssumption DEF RingTypeOK, Readable
<1>2. /\ Len(out) = rlen /\ rlen \in 1 .. Readable /\ rlen \in 1 .. MaxLen
      /\ readPtr' = Advance(readPtr, rlen, Size)
      /\ \A k \in 1 .. rlen : out[k] = buff[Advance(readPtr, k - 1, Size)]
      /\ got' = out /\ UNCHANGED <<buff, writePtr>>
  BY <1>1 DEF ReadPublish, ReaderView, Readable, RingTypeOK
<1>3. Readable' = Readable - rlen
  BY <1>1, <1>2, ReadableMoves DEF Readable
<1>4. /\ Queue \in Seq(Data) /\ Len(Queue) = Readable
      /\ \A i \in 1 .. Readable : Queue[i] = buff[Advance(readPtr, i - 1, Size)]
  BY Zenon, QueueValue
<1>5. Queue # << >>
  BY <1>1, <1>2, <1>4
<1>6. got' = SubSeq(Queue, 1, rlen)
  <2>1. SubSeq(Queue, 1, rlen) = [i \in 1 .. rlen |-> Queue[i]]
    BY <1>1, <1>2, <1>4
  <2>2. out = [i \in 1 .. rlen |-> out[i]]
    BY <1>1, <1>2
  <2> QED BY <1>1, <1>2, <1>4, <2>1, <2>2
<1>7. Queue' = SubSeq(Queue, rlen + 1, Len(Queue))
  <2>1. Queue' = [i \in 1 .. Readable' |-> buff[Advance(readPtr', i - 1, Size)]]
    BY Zenon, <1>2 DEF Queue, Contents, Readable
  <2>2. SubSeq(Queue, rlen + 1, Len(Queue))
          = [i \in 1 .. Readable - rlen |-> Queue[i + rlen]]
    BY <1>1, <1>2, <1>4
  <2>3. \A i \in 1 .. Readable - rlen :
           Advance(readPtr', i - 1, Size) = Advance(readPtr, (i + rlen) - 1, Size)
    <3>1. TAKE i \in 1 .. Readable - rlen
    <3>2. /\ rlen \in 0 .. Size /\ i - 1 \in 0 .. Size /\ rlen + (i - 1) <= Size
          /\ rlen + (i - 1) = (i + rlen) - 1
      BY <1>1, <1>2
    <3> QED BY <1>1, <1>2, <3>2, AdvanceMoves
  <2>4. \A i \in 1 .. Readable - rlen : i + rlen \in 1 .. Readable
    BY <1>1, <1>2
  <2>5. \A i \in 1 .. Readable - rlen : Queue[i + rlen] = buff[Advance(readPtr', i - 1, Size)]
    BY Zenon, <1>4, <2>3, <2>4
  <2> QED BY Zenon, <1>3, <2>1, <2>2, <2>5
<1>8. rlen = IF rlen < Len(Queue) THEN rlen ELSE Len(Queue)
  BY <1>1, <1>2, <1>4
<1> QED BY Zenon, <1>2, <1>5, <1>6, <1>7, <1>8 DEF Fifo!Take, Queue

\* The interrupt-friendly buffer implements the bounded queue of Size - 1 bytes, for
\* every size, alphabet and request length.
THEOREM CircularIntImplementsFifo == RingSpec => ImplementsFifo
<1>1. RingInit => Fifo!Init
  <2> SUFFICES ASSUME RingInit PROVE Fifo!Init
    BY Zenon
  <2>1. Readable = 0
    BY DEF RingInit, Readable, CIRC_READABLE
  <2>2. Queue = << >>
    <3>1. RingTypeOK
      BY Zenon, InitIInv DEF IInv
    <3>2. Queue \in Seq(Data) /\ Len(Queue) = 0
      BY Zenon, <2>1, <3>1, QueueValue
    <3> QED BY <3>2
  <2> QED BY Zenon, <2>2 DEF RingInit, Fifo!Init, Queue
<1>2. IInv /\ IInv' /\ [RingNext]_ringVars => [Fifo!Next]_(Fifo!vars)
  <2> SUFFICES ASSUME IInv, IInv', [RingNext]_ringVars PROVE [Fifo!Next]_(Fifo!vars)
    BY Zenon
  <2>1. CASE UNCHANGED ringVars
    BY Zenon, <2>1 DEF ringVars, Fifo!vars, Contents
  <2>2. CASE WritePublish
    BY Zenon, <2>2, PutStep DEF Fifo!Next
  <2>3. CASE ReadPublish
    BY Zenon, <2>3, TakeStep DEF Fifo!Next
  <2>4. CASE RingNext /\ ~WritePublish /\ ~ReadPublish
    BY Zenon, <2>4, QuietSteps DEF Fifo!vars, Queue
  <2> QED BY Zenon, <2>1, <2>2, <2>3, <2>4
<1> QED BY <1>1, <1>2, InitIInv, NextIInv, PTL DEF RingSpec, ImplementsFifo, Fifo!Spec

-----------------------------------------------------------------------------
(* The locked buffer, with the same arithmetic.                                *)
LReadable == CIRC_READABLE(lwritePtr, lreadPtr, Size)
LQueue == Contents(lbuff, lwritePtr, lreadPtr, Size)

\* What two indices into a buffer and the queue they delimit are.
LEMMA QueueOf ==
  ASSUME NEW b \in [Slots -> Data], NEW w \in Slots, NEW r \in Slots
  PROVE  LET n == CIRC_READABLE(w, r, Size)
             q == Contents(b, w, r, Size)
         IN  /\ n \in 0 .. Size - 1
             /\ CIRC_WRITABLE(w, r, Size) = Size - 1 - n
             /\ w = Advance(r, n, Size)
             /\ n = 0 <=> w = r
             /\ q \in Seq(Data) /\ Len(q) = n
             /\ \A k \in 1 .. n : q[k] = b[Advance(r, k - 1, Size)]
<1> DEFINE n == CIRC_READABLE(w, r, Size)
           q == Contents(b, w, r, Size)
<1>1. /\ n \in 0 .. Size - 1
      /\ CIRC_WRITABLE(w, r, Size) = Size - 1 - n
      /\ w = Advance(r, n, Size)
      /\ n = 0 <=> w = r
  BY Zenon, ReadableValue
<1>2. q = [k \in 1 .. n |-> b[Advance(r, k - 1, Size)]]
  BY Zenon DEF Contents
<1> HIDE DEF n, q
<1>3. \A k \in 1 .. n : Advance(r, k - 1, Size) \in Slots
  BY <1>1, AdvanceMoves, CircularAssumption
<1>4. q \in [1 .. n -> Data] /\ n \in Nat
  BY <1>1, <1>2, <1>3, CircularAssumption
<1>5. q \in Seq(Data) /\ Len(q) = n
  BY <1>4
<1> QED BY Zenon, <1>1, <1>2, <1>5 DEF n, q

\* The same for the buffer's variables.
LEMMA LockedFacts ==
  ASSUME LockedTypeOK
  PROVE  /\ Size \in Nat \ {0} /\ MaxLen \in Nat
         /\ LReadable \in 0 .. Size - 1
         /\ CIRC_WRITABLE(lwritePtr, lreadPtr, Size) = Size - 1 - LReadable
         /\ lwritePtr = Advance(lreadPtr, LReadable, Size)
         /\ LReadable = 0 <=> lwritePtr = lreadPtr
         /\ LQueue \in Seq(Data) /\ Len(LQueue) = LReadable
         /\ \A k \in 1 .. LReadable : LQueue[k] = lbuff[Advance(lreadPtr, k - 1, Size)]
BY QueueOf, CircularAssumption DEF LockedTypeOK, LReadable, LQueue

\* The two memcpys of CircularWrite: byte k of the request goes k slots behind
\* writePtr, around the end if need be, and every other slot keeps its byte.
LEMMA CopyInValue ==
  ASSUME LockedTypeOK, NEW bytes \in Requests, Len(bytes) <= Size - 1 - LReadable
  PROVE  /\ CopyIn(bytes) \in [Slots -> Data]
         /\ \A k \in 1 .. Len(bytes) :
              CopyIn(bytes)[Advance(lwritePtr, k - 1, Size)] = bytes[k]
         /\ \A k \in 0 .. LReadable - 1 :
              CopyIn(bytes)[Advance(lreadPtr, k, Size)] = lbuff[Advance(lreadPtr, k, Size)]
<1> DEFINE n == Len(bytes)
           first == IF n < Size - lwritePtr THEN n ELSE Size - lwritePtr
           copied == CopyIn(bytes)
<1>1. /\ Size \in Nat \ {0} /\ LReadable \in 0 .. Size - 1
      /\ lwritePtr = Advance(lreadPtr, LReadable, Size)
  BY Zenon, LockedFacts
<1>2. bytes \in [1 .. n -> Data] /\ n \in Nat /\ n <= Size - 1 - LReadable
  BY RequestType, CircularAssumption
<1>3. copied = [k \in Slots |-> IF k \in lwritePtr .. lwritePtr + first - 1
                                  THEN bytes[k - lwritePtr + 1]
                                ELSE IF k < n - first THEN bytes[first + k + 1]
                                ELSE lbuff[k]]
  BY Zenon DEF CopyIn, MIN
<1>4. /\ lwritePtr \in 0 .. Size - 1 /\ lreadPtr \in 0 .. Size - 1 /\ Slots = 0 .. Size - 1
      /\ lbuff \in [Slots -> Data]
  BY Zenon DEF LockedTypeOK, Slots
<1> HIDE DEF n, copied
<1>5. first \in 0 .. n /\ first <= Size - lwritePtr
  BY <1>1, <1>2, <1>4
<1>5i. n \in Int /\ first \in Int /\ Size \in Int /\ lwritePtr \in Int /\ 0 <= lwritePtr /\ n < Size
  BY <1>1, <1>2, <1>4, <1>5
<1>5w. n > Size - lwritePtr => first = Size - lwritePtr
  BY <1>5i
<1>6. copied \in [Slots -> Data]
  <2> HIDE DEF first
  <2>1. \A k \in lwritePtr .. lwritePtr + first - 1 : k - lwritePtr + 1 \in 1 .. n
    BY <1>5, <1>5i
  <2>2. \A k \in Slots : k < n - first => first + k + 1 \in 1 .. n
    <3> SUFFICES ASSUME NEW k \in Slots, k < n - first PROVE first + k + 1 \in 1 .. n
      BY Zenon
    <3>1. k \in Int /\ 0 <= k
      BY <1>4
    <3> QED BY <1>5, <1>5i, <3>1
  <2> QED BY Zenon, <1>2, <1>3, <1>4, <2>1, <2>2
<1>7. ASSUME NEW k \in 1 .. n PROVE copied[Advance(lwritePtr, k - 1, Size)] = bytes[k]
  <2> DEFINE at == Advance(lwritePtr, k - 1, Size)
  <2>1. at = IF lwritePtr + (k - 1) < Size THEN lwritePtr + (k - 1) ELSE lwritePtr + (k - 1) - Size
    <3>1. k - 1 \in 0 .. Size /\ lwritePtr \in Slots
      BY <1>1, <1>2, <1>4
    <3> QED BY Zenon, <3>1, AdvanceValue
  <2>2. at \in Slots
    BY <1>1, <1>2, <1>4, <2>1
  <2> HIDE DEF at
  <2>3. CASE lwritePtr + (k - 1) < Size
    <3>1. at \in lwritePtr .. lwritePtr + first - 1 /\ at - lwritePtr + 1 = k
      BY SMTT(40), <1>1, <1>2, <1>4, <2>1, <2>3
    <3> QED BY Zenon, <1>3, <2>2, <3>1 DEF at
  <2>4. CASE ~(lwritePtr + (k - 1) < Size)
    <3>0. at = lwritePtr + (k - 1) - Size /\ k \in Int /\ 1 <= k /\ k <= n /\ at \in Int
      BY <1>5i, <2>1, <2>2, <2>4, <1>4
    <3>0n. n > Size - lwritePtr
      BY <1>5i, <2>4, <3>0
    <3>0w. first = Size - lwritePtr
      BY Zenon, <1>5w, <3>0n
    <3> HIDE DEF first
    <3>1. /\ at \notin lwritePtr .. lwritePtr + first - 1
          /\ at < n - first /\ first + at + 1 = k
      BY <1>5i, <3>0, <3>0w
    <3> QED BY Zenon, <1>3, <2>2, <3>1 DEF at
  <2> QED BY Zenon, <2>3, <2>4
<1>8. ASSUME NEW k \in 0 .. LReadable - 1
      PROVE  copied[Advance(lreadPtr, k, Size)] = lbuff[Advance(lreadPtr, k, Size)]
  <2> DEFINE at == Advance(lreadPtr, k, Size)
  <2>1. /\ at = IF lreadPtr + k < Size THEN lreadPtr + k ELSE lreadPtr + k - Size
        /\ lwritePtr = IF lreadPtr + LReadable < Size THEN lreadPtr + LReadable
                       ELSE lreadPtr + LReadable - Size
    <3>1. k \in 0 .. Size /\ LReadable \in 0 .. Size /\ lreadPtr \in Slots
      BY <1>1, <1>4
    <3> QED BY Zenon, <1>1, <3>1, AdvanceValue
  <2>2. at \in Slots
    BY <1>1, <1>4, <2>1
  <2> HIDE DEF at
  <2>3. at \notin lwritePtr .. lwritePtr + first - 1 /\ ~(at < n - first)
    BY <1>1, <1>2, <1>4, <2>1
  <2> QED BY Zenon, <1>3, <2>2, <2>3 DEF at
<1> QED BY Zenon, <1>6, <1>7, <1>8 DEF n, copied

\* The two memcpys of CircularRead: the oldest bytes, in their order.
LEMMA CopyOutValue ==
  ASSUME LockedTypeOK, NEW n \in 1 .. LReadable
  PROVE  CopyOut(n) = [k \in 1 .. n |-> lbuff[Advance(lreadPtr, k - 1, Size)]]
<1> DEFINE first == IF n < Size - lreadPtr THEN n ELSE Size - lreadPtr
<1>1. Size \in Nat \ {0} /\ LReadable \in 0 .. Size - 1
  BY Zenon, LockedFacts
<1>2. lreadPtr \in 0 .. Size - 1 /\ lreadPtr \in Slots
  BY Zenon DEF LockedTypeOK, Slots
<1>3. CopyOut(n) = [k \in 1 .. n |-> IF k <= first THEN lbuff[lreadPtr + k - 1]
                                                          ELSE lbuff[k - first - 1]]
  BY Zenon DEF CopyOut, MIN
<1>4. ASSUME NEW k \in 1 .. n
      PROVE  (IF k <= first THEN lbuff[lreadPtr + k - 1] ELSE lbuff[k - first - 1])
               = lbuff[Advance(lreadPtr, k - 1, Size)]
  <2>1. k - 1 \in 0 .. Size
    BY <1>1
  <2>2. Advance(lreadPtr, k - 1, Size)
          = IF lreadPtr + (k - 1) < Size THEN lreadPtr + (k - 1) ELSE lreadPtr + (k - 1) - Size
    BY Zenon, <1>2, <2>1, AdvanceValue
  <2>3. CASE lreadPtr + (k - 1) < Size
    <3>1. k <= first /\ lreadPtr + k - 1 = lreadPtr + (k - 1)
      BY <1>1, <1>2, <2>3
    <3> QED BY Zenon, <2>2, <2>3, <3>1
  <2>4. CASE ~(lreadPtr + (k - 1) < Size)
    <3>1. ~(k <= first) /\ k - first - 1 = lreadPtr + (k - 1) - Size
      BY <1>1, <1>2, <2>4
    <3> QED BY Zenon, <2>2, <2>4, <3>1
  <2> QED BY Zenon, <2>3, <2>4
<1> HIDE DEF first
<1> QED BY Zenon, <1>3, <1>4

\* CircularWrite appends the whole request.
LEMMA LockedPut ==
  ASSUME LockedTypeOK, NEW bytes \in Requests, CircularWrite(bytes)
  PROVE  LockedTypeOK' /\ LockedFifo!Put
<1> DEFINE n == Len(bytes)
<1>0. /\ Size \in Nat \ {0} /\ MaxLen \in Nat /\ LReadable \in 0 .. Size - 1
      /\ CIRC_WRITABLE(lwritePtr, lreadPtr, Size) = Size - 1 - LReadable
      /\ lwritePtr = Advance(lreadPtr, LReadable, Size)
      /\ LQueue \in Seq(Data) /\ Len(LQueue) = LReadable
      /\ \A k \in 1 .. LReadable : LQueue[k] = lbuff[Advance(lreadPtr, k - 1, Size)]
  BY Zenon, LockedFacts
<1>1. bytes \in Seq(Data) /\ n \in 1 .. MaxLen /\ bytes \in [1 .. n -> Data]
  BY Zenon, RequestType
<1>2. /\ n <= Size - 1 - LReadable /\ lbuff' = CopyIn(bytes)
      /\ lwritePtr' = Advance(lwritePtr, n, Size) /\ lreadPtr' = lreadPtr /\ lgot' = lgot
  BY SMTT(40), <1>0 DEF CircularWrite
<1>3. /\ lbuff' \in [Slots -> Data]
      /\ \A k \in 1 .. n : lbuff'[Advance(lwritePtr, k - 1, Size)] = bytes[k]
      /\ \A k \in 0 .. LReadable - 1 :
           lbuff'[Advance(lreadPtr, k, Size)] = lbuff[Advance(lreadPtr, k, Size)]
  BY Zenon, <1>2, CopyInValue
<1> HIDE DEF n
<1>p. lreadPtr \in Slots /\ lwritePtr \in Slots
  BY Zenon DEF LockedTypeOK
<1>4. n \in 0 .. Size
  BY <1>0, <1>1, <1>2
<1>5. LockedTypeOK'
  BY Zenon, <1>2, <1>3, <1>4, <1>p, AdvanceMoves DEF LockedTypeOK
<1>6. LReadable' = LReadable + n
  <2>1. n \in 0 .. Size - 1 - LReadable
    BY <1>0, <1>2, <1>4
  <2> QED BY SMTT(40), <1>0, <1>2, <2>1, <1>p, ReadableMoves DEF LReadable
<1>7. /\ LQueue' \in Seq(Data) /\ Len(LQueue') = LReadable + n
      /\ \A k \in 1 .. LReadable + n : LQueue'[k] = lbuff'[Advance(lreadPtr, k - 1, Size)]
  <2>1. /\ LQueue' \in Seq(Data) /\ Len(LQueue') = LReadable'
        /\ \A k \in 1 .. LReadable' : LQueue'[k] = lbuff'[Advance(lreadPtr', k - 1, Size)]
    <3>1. lbuff' \in [Slots -> Data] /\ lwritePtr' \in Slots /\ lreadPtr' \in Slots
      BY Zenon, <1>5 DEF LockedTypeOK
    <3>2. LQueue' = Contents(lbuff', lwritePtr', lreadPtr', Size)
      BY Zenon DEF LQueue
    <3>3. LReadable' = CIRC_READABLE(lwritePtr', lreadPtr', Size)
      BY Zenon DEF LReadable
    <3>4. /\ Contents(lbuff', lwritePtr', lreadPtr', Size) \in Seq(Data)
          /\ Len(Contents(lbuff', lwritePtr', lreadPtr', Size)) = CIRC_READABLE(lwritePtr', lreadPtr', Size)
          /\ \A k \in 1 .. CIRC_READABLE(lwritePtr', lreadPtr', Size) :
               Contents(lbuff', lwritePtr', lreadPtr', Size)[k] = lbuff'[Advance(lreadPtr', k - 1, Size)]
      BY <3>1, QueueOf
    <3> QED BY Zenon, <3>2, <3>3, <3>4
  <2> QED BY SMTT(40), <1>2, <1>6, <2>1
<1>8. ASSUME NEW k \in 1 .. LReadable + n
      PROVE  LQueue'[k] = IF k <= LReadable THEN LQueue[k] ELSE bytes[k - LReadable]
  <2>1. CASE k <= LReadable
    <3>1. k \in 1 .. LReadable /\ k - 1 \in 0 .. LReadable - 1
      BY <1>0, <2>1
    <3> QED BY Zenon, <1>0, <1>3, <1>7, <2>1, <3>1
  <2>2. CASE ~(k <= LReadable)
    <3> DEFINE j == k - LReadable
    <3>1. /\ j \in 1 .. n /\ j - 1 \in 0 .. Size /\ LReadable \in 0 .. Size
          /\ LReadable + (j - 1) <= Size /\ LReadable + (j - 1) = k - 1
      BY <1>0, <1>1, <1>2, <2>2
    <3> HIDE DEF j
    <3>2. Advance(Advance(lreadPtr, LReadable, Size), j - 1, Size)
            = Advance(lreadPtr, LReadable + (j - 1), Size)
      BY <1>p, <3>1, AdvanceMoves
    <3>3. LQueue'[k] = bytes[j]
      <4>1. LQueue'[k] = lbuff'[Advance(lreadPtr, k - 1, Size)]
        BY Zenon, <1>7
      <4>2. Advance(lreadPtr, k - 1, Size) = Advance(lwritePtr, j - 1, Size)
        BY Zenon, <1>0, <3>1, <3>2
      <4> QED BY Zenon, <1>3, <3>1, <4>1, <4>2
    <3> QED BY Zenon, <2>2, <3>3 DEF j
  <2> QED BY Zenon, <2>1, <2>2
<1>9. LQueue' = LQueue \o bytes
  <2>1. /\ LQueue \o bytes \in Seq(Data) /\ Len(LQueue \o bytes) = LReadable + n
        /\ \A k \in 1 .. LReadable + n :
             (LQueue \o bytes)[k] = IF k <= LReadable THEN LQueue[k] ELSE bytes[k - LReadable]
    BY ZenonT(60), <1>0, <1>1, ConcatProperties DEF n
  <2> QED BY Zenon, <1>7, <1>8, <2>1, SeqEqual
<1>10. Len(LQueue) + n <= Size - 1
  BY <1>0, <1>1, <1>2
<1>11. Contents(lbuff, lwritePtr, lreadPtr, Size) = LQueue
  BY Zenon DEF LQueue
<1>12. Contents(lbuff', lwritePtr', lreadPtr', Size) = LQueue'
  BY Zenon DEF LQueue
<1> QED BY Zenon, <1>1, <1>2, <1>5, <1>9, <1>10, <1>11, <1>12 DEF LockedFifo!Put, n

\* CircularRead takes the oldest bytes, and they are what the caller gets.
LEMMA LockedTake ==
  ASSUME LockedTypeOK, NEW length \in 1 .. MaxLen, CircularRead(length)
  PROVE  LockedTypeOK' /\ LockedFifo!Take
<1> DEFINE n == IF LReadable < length THEN LReadable ELSE length
<1>0. /\ Size \in Nat \ {0} /\ MaxLen \in Nat /\ LReadable \in 0 .. Size - 1
      /\ LReadable = 0 <=> lwritePtr = lreadPtr
      /\ LQueue \in Seq(Data) /\ Len(LQueue) = LReadable
      /\ \A k \in 1 .. LReadable : LQueue[k] = lbuff[Advance(lreadPtr, k - 1, Size)]
  BY Zenon, LockedFacts
<1>1. /\ lwritePtr # lreadPtr /\ lgot' = CopyOut(n)
      /\ lreadPtr' = Advance(lreadPtr, n, Size) /\ lbuff' = lbuff /\ lwritePtr' = lwritePtr
  BY Zenon DEF CircularRead, LReadable, MIN
<1>2. n \in 1 .. LReadable /\ n \in 0 .. Size /\ n = IF length < LReadable THEN length ELSE LReadable
  BY <1>0, <1>1
<1>3. lgot' = [k \in 1 .. n |-> lbuff[Advance(lreadPtr, k - 1, Size)]]
  BY Zenon, <1>1, <1>2, CopyOutValue
<1> HIDE DEF n
<1>p. lreadPtr \in Slots /\ lwritePtr \in Slots /\ lbuff \in [Slots -> Data]
  BY Zenon DEF LockedTypeOK
<1>4. LockedTypeOK'
  BY Zenon, <1>1, <1>2, <1>p, AdvanceMoves DEF LockedTypeOK
<1>5. LReadable' = LReadable - n
  BY <1>0, <1>1, <1>2, <1>p, ReadableMoves DEF LReadable
<1>6. lgot' = SubSeq(LQueue, 1, n)
  <2>1. SubSeq(LQueue, 1, n) = [k \in 1 .. n |-> LQueue[k]]
    BY <1>0, <1>2
  <2>2. \A k \in 1 .. n : LQueue[k] = lbuff[Advance(lreadPtr, k - 1, Size)]
    BY <1>0, <1>2
  <2> QED BY Zenon, <1>3, <2>1, <2>2
<1>7. LQueue' = SubSeq(LQueue, n + 1, Len(LQueue))
  <2>1. LQueue' = [k \in 1 .. LReadable - n |-> lbuff[Advance(lreadPtr', k - 1, Size)]]
    BY Zenon, <1>1, <1>5 DEF LQueue, Contents, LReadable
  <2>2. SubSeq(LQueue, n + 1, Len(LQueue)) = [k \in 1 .. LReadable - n |-> LQueue[k + n]]
    BY <1>0, <1>2
  <2>3. ASSUME NEW k \in 1 .. LReadable - n
        PROVE  LQueue[k + n] = lbuff[Advance(lreadPtr', k - 1, Size)]
    <3>1. /\ k - 1 \in 0 .. Size /\ n + (k - 1) <= Size /\ n + (k - 1) = (k + n) - 1
          /\ k + n \in 1 .. LReadable
      BY <1>0, <1>2
    <3>2. Advance(lreadPtr', k - 1, Size) = Advance(lreadPtr, (k + n) - 1, Size)
      BY <1>1, <1>2, <1>p, <3>1, AdvanceMoves
    <3> QED BY Zenon, <1>0, <3>1, <3>2
  <2> QED BY Zenon, <2>1, <2>2, <2>3
<1>8. LQueue # << >>
  BY Zenon, <1>0, <1>1
<1>9. /\ Contents(lbuff, lwritePtr, lreadPtr, Size) = LQueue
      /\ Contents(lbuff', lwritePtr', lreadPtr', Size) = LQueue'
  BY Zenon DEF LQueue
<1>10. n = IF length < Len(LQueue) THEN length ELSE Len(LQueue)
  BY Zenon, <1>0, <1>2
<1> QED BY Zenon, <1>4, <1>6, <1>7, <1>8, <1>9, <1>10 DEF LockedFifo!Take

\* The locked buffer implements the same queue for every size, alphabet and request
\* length: the two memcpys of CircularWrite and CircularRead lose, repeat and
\* reorder nothing when a request wraps around the end.
THEOREM CircularImplementsFifo == LockedSpec => LockedImplementsFifo
<1>1. LockedInit => LockedTypeOK /\ LockedFifo!Init
  <2> SUFFICES ASSUME LockedInit PROVE LockedTypeOK /\ LockedFifo!Init
    BY Zenon
  <2>1. 0 \in Slots
    BY CircularAssumption DEF Slots
  <2>2. LockedTypeOK /\ lwritePtr = lreadPtr /\ lgot = << >>
    BY Zenon, <2>1 DEF LockedInit, CircularAllocate, LockedTypeOK
  <2>3. LQueue \in Seq(Data) /\ Len(LQueue) = 0
    BY Zenon, <2>2, LockedFacts
  <2>4. LQueue = << >>
    BY <2>3
  <2>5. Contents(lbuff, lwritePtr, lreadPtr, Size) = LQueue
    BY Zenon DEF LQueue
  <2> QED BY Zenon, <2>2, <2>4, <2>5 DEF LockedFifo!Init
<1>2. LockedTypeOK /\ [LockedNext]_(lockedVars) => LockedTypeOK' /\ [LockedFifo!Next]_(LockedFifo!vars)
  <2> SUFFICES ASSUME LockedTypeOK, [LockedNext]_(lockedVars)
               PROVE  LockedTypeOK' /\ [LockedFifo!Next]_(LockedFifo!vars)
    BY Zenon
  <2>1. CASE UNCHANGED lockedVars
    <3>1. UNCHANGED <<lbuff, lwritePtr, lreadPtr, lgot>>
      BY Zenon, <2>1 DEF lockedVars
    <3>2. Contents(lbuff', lwritePtr', lreadPtr', Size)
            = Contents(lbuff, lwritePtr, lreadPtr, Size)
      BY Zenon, <3>1
    <3> QED BY Zenon, <3>1, <3>2 DEF LockedTypeOK, LockedFifo!vars
  <2>2. ASSUME NEW bytes \in Requests, CircularWrite(bytes)
        PROVE  LockedTypeOK' /\ LockedFifo!Next
    BY Zenon, <2>2, LockedPut DEF LockedFifo!Next
  <2>3. ASSUME NEW length \in 1 .. MaxLen, CircularRead(length)
        PROVE  LockedTypeOK' /\ LockedFifo!Next
    BY Zenon, <2>3, LockedTake DEF LockedFifo!Next
  <2> QED BY Zenon, <2>1, <2>2, <2>3 DEF LockedNext
<1> QED BY <1>1, <1>2, PTL DEF LockedSpec, LockedImplementsFifo, LockedFifo!Spec
=============================================================================
