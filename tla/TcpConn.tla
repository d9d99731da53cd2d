------------------------------ MODULE TcpConn ------------------------------
(***************************************************************************)
(* One TCP connection of the network stack the kernel links: the transport *)
(* functions of tcp.c, tcp_in.c and tcp_out.c as operators on a protocol   *)
(* control block (pcb), in the configuration of lwipopts.h (no SACK, no    *)
(* window scaling, no time stamps, out-of-sequence queueing on).           *)
(*                                                                         *)
(* A handler is an operator from a "machine" to a machine:                 *)
(*   p     the pcb (fields keep the names of struct tcp_pcb),              *)
(*   out   the segments handed to IP,                                      *)
(*   rd,rf recv_data and recv_flags of tcp_in.c,                           *)
(*   mbox  the mailbox in which recv_tcp puts what arrived, which holds    *)
(*         cap entries (the mailboxes are the platform's),                 *)
(*   ev    CONNECTED, ACCEPT, ERR: what the application is told,           *)
(*   bad   the LWIP_ASSERTs that failed (LWIP_PLATFORM_ASSERT panics).     *)
(*                                                                         *)
(* Abstractions.  Sequence numbers are counted modulo SeqSpace instead of  *)
(* 2^32, so that they wrap.  A byte of payload is its position in the      *)
(* stream its application writes.  cwnd, ssthresh and the round-trip       *)
(* estimate only limit how much of the window one tcp_output uses: every   *)
(* call takes an arbitrary cw instead of pcb->cwnd.  rtime is kept as      *)
(* "running" or not: whether it has reached rto is a choice of the timer.  *)
(* snd_buf and snd_queuelen are functions of the two queues.               *)
(***************************************************************************)
EXTENDS Integers, Sequences, SequencesExt, FiniteSets, FiniteSetsExt

CONSTANTS
  Mss,          \* TCP_MSS, and the mss of the peer
  TcpWnd,       \* TCP_WND: the receive window
  SndBuf,       \* TCP_SND_BUF
  MaxRtx,       \* TCP_MAXRTX
  SynMaxRtx,    \* TCP_SYNMAXRTX
  SeqSpace      \* 2^32 in the code

None == [data |-> <<>>, fin |-> FALSE, held |-> FALSE]

(* TCP_SEQ_LT and its relatives: the sign of the difference modulo 2^32. *)
Add(x, k) == (x + k) % SeqSpace
Sub(x, y) == (x + SeqSpace - y) % SeqSpace
SeqLt(x, y) == Sub(x, y) >= SeqSpace \div 2
SeqLeq(x, y) == ~SeqLt(y, x)
Between(x, lo, hi) == SeqLeq(lo, x) /\ SeqLeq(x, hi)

(* TCP_TCPLEN *)
TcpLen(s) == Len(s.data) + (IF s.flags \cap {"SYN", "FIN"} # {} THEN 1 ELSE 0)
EndOf(s) == Add(s.seq, Len(s.data))

Queued(q) == FoldLeft(LAMBDA n, s : n + Len(s.data), 0, q)
SndSpace(p) == SndBuf - Queued(p.unsent) - Queued(p.unacked)

Lower(x, y) == IF x < y THEN x ELSE y

Set(p, fs) == [p EXCEPT !.flags = @ \union fs]
Clear(p, fs) == [p EXCEPT !.flags = @ \ fs]
AckNow(m) == [m EXCEPT !.p.flags = @ \union {"NOW"}]
Asserting(m, ok, what) == IF ok THEN m ELSE [m EXCEPT !.bad = @ \union {what}]

Machine(p, mb, cap) ==
  [p |-> p, out |-> <<>>, rd |-> <<>>, rf |-> {}, mbox |-> mb, cap |-> cap,
   ev |-> {}, bad |-> {}]

Event(m, e) == [m EXCEPT !.ev = @ \union {e}]

(* tcp_alloc, then tcp_connect or tcp_listen_input up to the SYN. *)
NewPcb(st, iss, lastack, rcvNxt, wl1, wnd, wndMax) ==
  [st |-> st, rcv_nxt |-> rcvNxt, rcv_wnd |-> TcpWnd, ann_wnd |-> TcpWnd,
   ann_edge |-> rcvNxt, snd_nxt |-> iss, lastack |-> lastack, snd_lbb |-> lastack,
   snd_wl1 |-> wl1, snd_wl2 |-> lastack, snd_wnd |-> wnd, snd_wnd_max |-> wndMax,
   unsent |-> <<>>, unacked |-> <<>>, ooseq |-> <<>>, refused |-> None,
   flags |-> {}, rtime |-> FALSE, nrtx |-> 0, dupacks |-> 0,
   persist |-> FALSE, probe |-> 0]

(* tcp_free: nothing of the pcb is left. *)
NoPcb == [NewPcb("CLOSED", 0, 0, 0, 0, 0, 0) EXCEPT !.rcv_wnd = 0, !.ann_wnd = 0]

-----------------------------------------------------------------------------
(* tcp_out.c *)

(* A segment on the wire: tcp_output_segment and                             *)
(* tcp_output_alloc_header fill ackno and wnd from the pcb.                  *)
Wire(p, seq, data, flags) ==
  [seq |-> seq, ack |-> p.rcv_nxt, wnd |-> p.ann_wnd, data |-> data, flags |-> flags]

Announced(p) == [p EXCEPT !.ann_edge = Add(p.rcv_nxt, p.ann_wnd)]

tcp_send_empty_ack(m) ==
  [m EXCEPT !.out = Append(@, Wire(m.p, m.p.snd_nxt, <<>>, {"ACK"})),
            !.p = Clear(Announced(m.p), {"DELAY", "NOW"})]

tcp_rst(m, seq, ack) ==
  [m EXCEPT !.out = Append(@, [seq |-> seq, ack |-> ack, wnd |-> TcpWnd,
                                   data |-> <<>>, flags |-> {"RST", "ACK"}])]

(* Queues are kept in the order of their sequence numbers. *)
InOrder(q, s) ==
  LET k == Cardinality({i \in DOMAIN q : SeqLt(q[i].seq, s.seq)})
  IN  SubSeq(q, 1, k) \o <<s>> \o SubSeq(q, k + 1, Len(q))

(* tcp_do_output_nagle, and the flags that overrule it. *)
MaySend(p, i) ==
  \/ i = 1 /\ p.unacked = <<>>
  \/ p.flags \cap {"INFR", "NAGLEMEMERR", "FIN"} # {}
  \/ i < Len(p.unsent)
  \/ Len(p.unsent[i].data) >= Mss
  \/ SndSpace(p) = 0

(* The segments the loop of tcp_output sends: the longest prefix of unsent   *)
(* that fits the window and that Nagle's rule lets go.                       *)
Sendable(p, w) ==
  LET fits(i) == Sub(p.unsent[i].seq, p.lastack) + Len(p.unsent[i].data) <= w
  IN  Max({0} \union {n \in DOMAIN p.unsent : \A i \in 1..n : fits(i) /\ MaySend(p, i)})

SendFirst(m, n) ==
  LET p == m.p
      ack == IF p.st = "SYN_SENT" THEN {} ELSE {"ACK"}
      sent == SubSeq(p.unsent, 1, n)
      last == IF n = 0 THEN p.snd_nxt ELSE Add(sent[n].seq, TcpLen(sent[n]))
  IN  [m EXCEPT
        !.out = @ \o [i \in 1..n |-> Wire(p, sent[i].seq, sent[i].data,
                                         sent[i].flags \union ack)],
        !.p = [(IF n = 0 THEN p ELSE Announced(p)) EXCEPT
                 !.persist = FALSE,
                 !.unsent = SubSeq(@, n + 1, Len(@)),
                 !.unacked = FoldLeft(InOrder, @, sent),
                 !.snd_nxt = IF SeqLt(@, last) THEN last ELSE @,
                 !.rtime = @ \/ n > 0,
                 !.flags = @ \ ((IF n > 0 /\ p.st # "SYN_SENT" THEN {"DELAY", "NOW"} ELSE {})
                                \union {"NAGLEMEMERR"})]]

(* Slip: the persist timer is not started. *)
MutantNoPersist(m, cw) ==
  LET p == m.p
      w == Lower(p.snd_wnd, cw)
  IN  IF p.unsent # <<>> /\ Sub(p.unsent[1].seq, p.lastack) + Len(p.unsent[1].data) <= w
      THEN SendFirst(m, Sendable(p, w))
      ELSE IF "NOW" \in p.flags THEN tcp_send_empty_ack(m) ELSE m

tcp_output(m, cw) ==
  LET p == m.p
      w == Lower(p.snd_wnd, cw)
      blocked == /\ p.unsent # <<>>
                 /\ Sub(p.unsent[1].seq, p.lastack) + Len(p.unsent[1].data) > w
      \* nothing in flight and the window too small: start the persist timer
      probing == blocked /\ w = p.snd_wnd /\ p.unacked = <<>> /\ ~p.persist
      q == IF probing THEN [p EXCEPT !.persist = TRUE, !.probe = 0] ELSE p
  IN  IF p.unsent = <<>> \/ blocked
      THEN IF "NOW" \in p.flags
           THEN tcp_send_empty_ack([m EXCEPT !.p = q])
           ELSE [m EXCEPT !.p = Clear(q, {"NAGLEMEMERR"})]
      ELSE SendFirst(m, Sendable(p, w))

tcp_enqueue_flags(p, fs) ==
  [p EXCEPT !.unsent = Append(@, [seq |-> p.snd_lbb, data |-> <<>>, flags |-> fs]),
            !.snd_lbb = Add(@, 1),
            !.flags = @ \union (fs \cap {"FIN"})]

FinRides(p) ==
  LET n == Len(p.unsent) IN n > 0 /\ p.unsent[n].flags \cap {"SYN", "FIN"} = {}

(* A FIN is added to the last unsent segment, or queued as one of its own. *)
tcp_send_fin(p) ==
  LET n == Len(p.unsent)
  IN  IF FinRides(p)
      THEN [p EXCEPT !.unsent[n].flags = @ \union {"FIN"}, !.flags = @ \union {"FIN"}]
      ELSE tcp_enqueue_flags(p, {"FIN"})

(* mss_local of tcp_write: no more than half of the largest window. *)
MssLocal(p) ==
  LET half == Lower(Mss, p.snd_wnd_max \div 2) IN IF half = 0 THEN Mss ELSE half

(* Phases 1 and 2 of tcp_write: how much fits the last unsent segment. *)
Fill(p, data) ==
  LET n == Len(p.unsent)
  IN  IF n > 0 /\ Len(p.unsent[n].data) > 0
      THEN Lower(MssLocal(p) - Len(p.unsent[n].data), Len(data)) ELSE 0

(* Phase 3: the rest is cut into segments of mss_local bytes, from seq on. *)
NewSegments(rest, seq, mss) ==
  [i \in 1..((Len(rest) + mss - 1) \div mss) |->
     [seq |-> Add(seq, (i - 1) * mss), flags |-> {},
      data |-> SubSeq(rest, (i - 1) * mss + 1, Lower(i * mss, Len(rest)))]]

(* tcp_write with TCP_WRITE_FLAG_COPY. *)
tcp_write(p, data) ==
  LET n == Len(p.unsent)
      fill == Fill(p, data)
      filled == IF fill = 0 THEN p.unsent
                ELSE [p.unsent EXCEPT ![n].data = @ \o SubSeq(data, 1, fill)]
  IN  [p EXCEPT !.unsent = filled \o NewSegments(SubSeq(data, fill + 1, Len(data)),
                                                 Add(p.snd_lbb, fill), MssLocal(p)),
                !.snd_lbb = Add(@, Len(data))]

(* The head keeps its flags (TCPH_SET_FLAG only adds), the remainder gets    *)
(* the FIN too.                                                              *)
tcp_split_unsent_seg(p, split) ==
  LET u == p.unsent[1]
      tail == [seq |-> Add(u.seq, split), data |-> SubSeq(u.data, split + 1, Len(u.data)),
               flags |-> u.flags \cap {"FIN"}]
  IN  IF Len(u.data) <= split THEN p
      ELSE [p EXCEPT !.unsent = <<[u EXCEPT !.data = SubSeq(@, 1, split)], tail>> \o Tail(@)]

tcp_zero_window_probe(m) ==
  LET p == m.p
      s == p.unsent[1]
      fin == "FIN" \in s.flags /\ s.data = <<>>
      next == Add(s.seq, 1)
  IN  [m EXCEPT !.out = Append(@, IF fin THEN Wire(p, s.seq, <<>>, {"ACK", "FIN"})
                                  ELSE Wire(p, s.seq, SubSeq(s.data, 1, 1), {"ACK"})),
                !.p = [Announced(p) EXCEPT !.probe = Lower(@ + 1, MaxRtx),
                         !.snd_nxt = IF SeqLt(@, next) THEN next ELSE @]]

(* Slip: what was not sent yet is not linked behind. *)
MutantRtoPrepare(p) == [p EXCEPT !.unsent = p.unacked, !.unacked = <<>>]

(* tcp_rexmit_rto_prepare: everything in flight goes back to unsent. *)
tcp_rexmit_rto_prepare(p) ==
  [p EXCEPT !.unsent = p.unacked \o @, !.unacked = <<>>]

(* tcp_rexmit: the first segment in flight goes back to unsent. *)
tcp_rexmit(p) ==
  IF p.unacked = <<>> THEN p
  ELSE [p EXCEPT !.unsent = InOrder(@, p.unacked[1]), !.unacked = Tail(@),
                !.nrtx = Lower(@ + 1, MaxRtx)]

tcp_rexmit_fast(p) ==
  IF p.unacked = <<>> \/ "INFR" \in p.flags THEN p
  ELSE [Set(tcp_rexmit(p), {"INFR"}) EXCEPT !.rtime = TRUE]
-----------------------------------------------------------------------------
(* tcp.c *)

(* tcp_update_rcv_ann_wnd: the right edge announced never moves back. *)
Inflation(p) ==
  LET edge == Add(p.rcv_nxt, p.rcv_wnd)
  IN  IF SeqLeq(Add(p.ann_edge, Lower(TcpWnd \div 2, Mss)), edge)
      THEN Sub(edge, p.ann_edge) ELSE 0

tcp_update_rcv_ann_wnd(p) ==
  [p EXCEPT !.ann_wnd =
     IF SeqLeq(Add(p.ann_edge, Lower(TcpWnd \div 2, Mss)), Add(p.rcv_nxt, p.rcv_wnd))
     THEN p.rcv_wnd
     ELSE IF SeqLt(p.ann_edge, p.rcv_nxt) THEN 0 ELSE Sub(p.ann_edge, p.rcv_nxt)]

(* Slip: a read too small to be announced gives no window back. *)
MutantRecved(m, len, cw) ==
  LET p == [m.p EXCEPT !.rcv_wnd = Lower(@ + len, TcpWnd)]
      q == [m EXCEPT !.p = tcp_update_rcv_ann_wnd(p)]
  IN  IF Inflation(p) >= Mss THEN tcp_output(AckNow(q), cw) ELSE m

(* tcp_recved: the application has taken len bytes. *)
tcp_recved(m, len, cw) ==
  LET p == [m.p EXCEPT !.rcv_wnd = Lower(@ + len, TcpWnd)]
      q == [m EXCEPT !.p = tcp_update_rcv_ann_wnd(p)]
  IN  IF Inflation(p) >= Lower(TcpWnd \div 4, 4 * Mss) THEN tcp_output(AckNow(q), cw) ELSE q

tcp_pcb_purge(p) ==
  IF p.st \in {"CLOSED", "TIME_WAIT"} THEN p
  ELSE [p EXCEPT !.refused = None, !.ooseq = <<>>, !.rtime = FALSE,
                 !.unsent = <<>>, !.unacked = <<>>]

(* tcp_pcb_remove, then tcp_free: a delayed ACK is sent unless tcp_input     *)
(* is working on this pcb (busy), in which case tcp_output does nothing.     *)
tcp_pcb_remove(m, busy) ==
  LET q == [m EXCEPT !.p = tcp_pcb_purge(@)]
      r == IF "DELAY" \in m.p.flags /\ m.p.st # "TIME_WAIT" /\ ~busy
           THEN tcp_send_empty_ack(q) ELSE q
  IN  [r EXCEPT !.p = NoPcb]

tcp_abandon(m, reset, busy) ==
  LET q == Event(tcp_pcb_remove(m, busy), "ERR")
  IN  IF reset /\ m.p.st # "TIME_WAIT" THEN tcp_rst(q, m.p.snd_nxt, m.p.rcv_nxt) ELSE q

(* ok: there is memory for a segment, which a FIN of its own needs. *)
tcp_close_shutdown_fin(m, ok, cw) ==
  LET next == IF m.p.st = "CLOSE_WAIT" THEN "LAST_ACK" ELSE "FIN_WAIT_1"
  IN  IF m.p.st \notin {"SYN_RCVD", "ESTABLISHED", "CLOSE_WAIT"} THEN m
      ELSE IF ok \/ FinRides(m.p) THEN tcp_output([m EXCEPT !.p = [tcp_send_fin(m.p) EXCEPT !.st = next]], cw)
      ELSE [m EXCEPT !.p = Set(@, {"CLOSEPEND", "NAGLEMEMERR"})]

tcp_close_shutdown(m, rstOnUnacked, ok, cw) ==
  IF /\ rstOnUnacked
     /\ m.p.st \in {"ESTABLISHED", "CLOSE_WAIT"}
     /\ m.p.refused.held \/ m.p.rcv_wnd # TcpWnd
  THEN [tcp_rst(m, m.p.snd_nxt, m.p.rcv_nxt) EXCEPT !.p = NoPcb]
  ELSE IF m.p.st = "SYN_SENT" THEN tcp_pcb_remove(m, FALSE)
  ELSE tcp_close_shutdown_fin(m, ok, cw)

(* TCP_EVENT_RECV with recv_tcp: post to the mailbox, or refuse. *)
tcp_event_recv(m, data, fin) ==
  IF Len(m.mbox) < m.cap
  THEN [m EXCEPT !.mbox = Append(@, data), !.p.refused = None]
  ELSE [m EXCEPT !.p.refused = [data |-> data, fin |-> fin, held |-> TRUE]]

(* The end of the stream is a mailbox entry without data.  When the mailbox  *)
(* is full, or the application has closed, nobody hears of it.               *)
tcp_event_closed(m) ==
  LET q == [m EXCEPT !.p.rcv_wnd = IF @ # TcpWnd THEN @ + 1 ELSE @]
  IN  IF Len(m.mbox) < m.cap /\ "RXCLOSED" \notin m.p.flags
      THEN [q EXCEPT !.mbox = Append(@, <<>>)] ELSE q

(* Once the application has closed, tcp_recv_null takes the data. *)
tcp_process_refused_data(m, cw) ==
  LET r == m.p.refused
      q == IF "RXCLOSED" \in m.p.flags
           THEN tcp_recved([m EXCEPT !.p.refused = None], Len(r.data), cw)
           ELSE tcp_event_recv(m, r.data, r.fin)
  IN  IF ~q.p.refused.held /\ r.fin THEN tcp_event_closed(q) ELSE q
-----------------------------------------------------------------------------
(* tcp_in.c *)

Acked(q, ack) ==
  Max({0} \union {n \in DOMAIN q :
                    \A i \in 1..n : SeqLeq(Add(q[i].seq, TcpLen(q[i])), ack)})

tcp_free_acked_segments(q, ack) == SubSeq(q, Acked(q, ack) + 1, Len(q))

(* tcp_receive, first part: the acknowledgement and the window of s. *)
WindowUpdate(p, s) ==
  IF \/ SeqLt(p.snd_wl1, s.seq)
     \/ p.snd_wl1 = s.seq /\ SeqLt(p.snd_wl2, s.ack)
     \/ p.snd_wl2 = s.ack /\ s.wnd > p.snd_wnd
  THEN [p EXCEPT !.snd_wnd = s.wnd, !.snd_wl1 = s.seq, !.snd_wl2 = s.ack,
                 !.snd_wnd_max = IF @ < s.wnd THEN s.wnd ELSE @]
  ELSE p

tcp_receive_ack(m, s) ==
  LET p == WindowUpdate(m.p, s)
      dup == /\ TcpLen(s) = 0
             /\ Add(p.snd_wl2, p.snd_wnd) = Add(m.p.snd_wl2, m.p.snd_wnd)
             /\ p.rtime
             /\ p.lastack = s.ack
      counted == [p EXCEPT !.dupacks = Lower(@ + 1, 3)]
      unacked == tcp_free_acked_segments(p.unacked, s.ack)
  IN  IF SeqLeq(s.ack, p.lastack)
      THEN [m EXCEPT !.p = IF ~dup THEN p
                           ELSE IF counted.dupacks = 3 THEN tcp_rexmit_fast(counted)
                           ELSE counted]
      ELSE IF Between(s.ack, Add(p.lastack, 1), p.snd_nxt)
      THEN [m EXCEPT !.p =
              [Clear(p, {"INFR"}) EXCEPT
                 !.nrtx = 0, !.dupacks = 0, !.lastack = s.ack,
                 !.unacked = unacked,
                 !.unsent = tcp_free_acked_segments(@, s.ack),
                 !.rtime = unacked # <<>>]]
      ELSE tcp_send_empty_ack([m EXCEPT !.p = p])

Cut(s, n) == [s EXCEPT !.data = SubSeq(@, 1, n)]
NoFin(s) == [s EXCEPT !.flags = @ \ {"FIN"}]

(* Slip: the sequence number is moved, the data is not cut. *)
MutantNoTrim(p, s) ==
  IF Between(p.rcv_nxt, Add(s.seq, 1), Add(s.seq, TcpLen(s) - 1))
  THEN [s EXCEPT !.seq = p.rcv_nxt] ELSE s

(* The front of s that was received before is cut off. *)
TrimFront(p, s) ==
  IF Between(p.rcv_nxt, Add(s.seq, 1), Add(s.seq, TcpLen(s) - 1))
  THEN [s EXCEPT !.seq = p.rcv_nxt,
                 !.data = SubSeq(@, Sub(p.rcv_nxt, s.seq) + 1, Len(@))]
  ELSE s

(* Drop the queued segments that s covers; a FIN of theirs moves to s.       *)
(* The code measures the covering segment with its SYN and FIN or without.   *)
Width(s, flagged) == IF flagged THEN TcpLen(s) ELSE Len(s.data)

Absorb(s, q, flagged) ==
  FoldLeft(LAMBDA a, o :
             IF a.rest = <<>> /\ SeqLeq(EndOf(o), Add(a.s.seq, Width(a.s, flagged)))
             THEN [a EXCEPT !.s.flags = @ \union (o.flags \cap {"FIN"})]
             ELSE [a EXCEPT !.rest = Append(@, o)],
           [s |-> s, rest |-> <<>>], q)

CutTo(s, q, flagged) ==
  IF q # <<>> /\ SeqLt(q[1].seq, Add(s.seq, Width(s, flagged)))
  THEN Cut(s, Sub(q[1].seq, s.seq)) ELSE s

tcp_oos_insert_segment(s, q) ==
  LET a == Absorb(s, q, FALSE)
  IN  IF "FIN" \in s.flags THEN <<s>> ELSE <<CutTo(a.s, a.rest, FALSE)>> \o a.rest

(* tcp_seg_copy *)
Kept(s) == [seq |-> s.seq, data |-> s.data, flags |-> s.flags \cap {"FIN"}]

(* tcp_receive: a segment that is not the next one is kept in ooseq. *)
OosInsert(p, s) ==
  LET q == p.ooseq
      n == Len(q)
      k == Cardinality({i \in 1..n : SeqLt(q[i].seq, s.seq)})
      rest == SubSeq(q, k + 1, n)
      edge == Add(p.rcv_nxt, p.rcv_wnd)
      before == SubSeq(q, 1, k - 1) \o
                <<IF SeqLt(s.seq, EndOf(q[k])) THEN Cut(q[k], Sub(s.seq, q[k].seq)) ELSE q[k]>>
      inWnd == IF SeqLt(edge, Add(s.seq, TcpLen(s)))
               THEN NoFin(Cut(s, Sub(edge, s.seq))) ELSE s
  IN  CASE n = 0 -> <<s>>
        [] k < n /\ q[k + 1].seq = s.seq ->
             IF Len(s.data) > Len(q[k + 1].data) /\ k + 1 < n
             THEN SubSeq(q, 1, k) \o tcp_oos_insert_segment(s, rest) ELSE q
        [] n > 0 /\ k = 0 /\ q[1].seq # s.seq -> tcp_oos_insert_segment(s, q)
        [] 0 < k /\ k < n /\ q[k + 1].seq # s.seq -> before \o tcp_oos_insert_segment(s, rest)
        [] n > 0 /\ k = n -> IF "FIN" \in q[n].flags THEN q ELSE Append(before, inWnd)

(* One segment becomes part of the stream. *)
Take(m, s, what) ==
  LET len == TcpLen(s)
      q == Asserting(m, m.p.rcv_wnd >= len, what)
      fin == s.flags \cap {"FIN"}
  IN  [q EXCEPT !.p = tcp_update_rcv_ann_wnd(
                        [m.p EXCEPT !.rcv_nxt = Add(s.seq, len), !.rcv_wnd = @ - len]),
                !.rd = @ \o s.data, !.rf = @ \union fin]

(* The queued segments that continue the stream follow. *)
DrainOos(m) ==
  LET step(a, o) ==
        IF a.rest = <<>> /\ o.seq = a.m.p.rcv_nxt
        THEN LET t == Take(a.m, o, "ooseq tcplen > rcv_wnd")
             IN  [a EXCEPT !.m = IF "FIN" \in o.flags /\ t.p.st = "ESTABLISHED"
                                 THEN [t EXCEPT !.p.st = "CLOSE_WAIT"] ELSE t]
        ELSE [a EXCEPT !.rest = Append(@, o)]
      all == FoldLeft(step, [m |-> m, rest |-> <<>>], m.p.ooseq)
  IN  [all.m EXCEPT !.p.ooseq = all.rest]

tcp_ack(p) ==
  IF "DELAY" \in p.flags THEN Set(Clear(p, {"DELAY"}), {"NOW"}) ELSE Set(p, {"DELAY"})

InSequence(m, s) ==
  LET fit == IF TcpLen(s) > m.p.rcv_wnd THEN NoFin(Cut(s, m.p.rcv_wnd)) ELSE s
      a == IF "FIN" \in fit.flags THEN [s |-> fit, rest |-> <<>>]
           ELSE Absorb(fit, m.p.ooseq, TRUE)
      cut == CutTo(a.s, a.rest, TRUE)
      q == Asserting([m EXCEPT !.p.ooseq = a.rest],
                     cut = a.s \/ Add(cut.seq, TcpLen(cut)) = a.rest[1].seq,
                     "not trimmed correctly to ooseq queue")
      r == DrainOos(Take(q, cut, "tcplen > rcv_wnd"))
  IN  [r EXCEPT !.p = tcp_ack(@)]

InWindow(p, seq) == Between(seq, p.rcv_nxt, Add(p.rcv_nxt, p.rcv_wnd - 1))

(* tcp_receive, second part: the data of seg. *)
tcp_receive_data(m, seg) ==
  LET s == TrimFront(m.p, seg)
      q == IF s = seg /\ SeqLt(s.seq, m.p.rcv_nxt) THEN AckNow(m) ELSE m
  IN  IF TcpLen(seg) > 0 /\ m.p.st \in {"ESTABLISHED", "FIN_WAIT_1", "FIN_WAIT_2"}
      THEN IF ~InWindow(q.p, s.seq) THEN tcp_send_empty_ack(q)
           ELSE IF s.seq = q.p.rcv_nxt THEN InSequence(q, s)
           ELSE tcp_send_empty_ack([q EXCEPT !.p.ooseq = OosInsert(q.p, Kept(s))])
      ELSE IF InWindow(m.p, seg.seq) THEN m ELSE AckNow(m)

tcp_receive(m, seg) ==
  tcp_receive_data(IF "ACK" \in seg.flags THEN tcp_receive_ack(m, seg) ELSE m, seg)

(* tcp_process: an RST. *)
ProcessReset(m, s) ==
  LET acceptable == IF m.p.st = "SYN_SENT" THEN s.ack = m.p.snd_nxt ELSE s.seq = m.p.rcv_nxt
  IN  IF acceptable THEN [m EXCEPT !.rf = @ \union {"RESET"}, !.p = Clear(@, {"DELAY"})]
      ELSE IF m.p.st # "SYN_SENT" /\ Between(s.seq, m.p.rcv_nxt, Add(m.p.rcv_nxt, m.p.rcv_wnd))
      THEN AckNow(m) ELSE m

ProcessSynSent(m, s) ==
  LET p == m.p
      \* the SYN is in flight, or back in unsent after a timeout
      open == [p EXCEPT !.rcv_nxt = Add(s.seq, 1), !.ann_edge = Add(s.seq, 1),
                        !.lastack = s.ack, !.snd_wnd = s.wnd, !.snd_wnd_max = s.wnd,
                        !.snd_wl1 = Add(s.seq, -1), !.st = "ESTABLISHED",
                        !.unacked = IF @ = <<>> THEN @ ELSE Tail(@),
                        !.unsent = IF p.unacked = <<>> THEN Tail(@) ELSE @,
                        !.rtime = Len(p.unacked) > 1]
      \* tcp_rexmit_rto; its tcp_output is the one that ends tcp_input
      again == IF p.nrtx >= SynMaxRtx THEN p
               ELSE IF p.unacked = <<>> THEN [p EXCEPT !.rtime = TRUE]
               ELSE [tcp_rexmit_rto_prepare(p) EXCEPT !.rtime = TRUE, !.nrtx = @ + 1]
  IN  IF {"SYN", "ACK"} \subseteq s.flags /\ s.ack = Add(p.lastack, 1)
      THEN AckNow(Event([m EXCEPT !.p = open], "CONNECTED"))
      ELSE IF "ACK" \in s.flags
      THEN [tcp_rst(m, s.ack, Add(s.seq, TcpLen(s))) EXCEPT !.p = again]
      ELSE m

(* The segment that opens the connection, or a later one, brought the FIN. *)
CloseWait(m) == IF "FIN" \in m.rf THEN AckNow([m EXCEPT !.p.st = "CLOSE_WAIT"]) ELSE m

(* accepted: accept_function finds room in the accept mailbox. *)
ProcessSynRcvd(m, s, accepted) ==
  LET p == m.p
  IN  IF "SYN" \in s.flags
      THEN IF s.seq = Add(p.rcv_nxt, -1) THEN [m EXCEPT !.p = tcp_rexmit(p)] ELSE m
      ELSE IF "ACK" \notin s.flags THEN m
      ELSE IF ~Between(s.ack, Add(p.lastack, 1), p.snd_nxt)
      THEN tcp_rst(m, s.ack, Add(s.seq, TcpLen(s)))
      ELSE IF ~accepted
      THEN tcp_abandon([m EXCEPT !.p.st = "ESTABLISHED"], TRUE, TRUE)
      ELSE CloseWait(tcp_receive(Event([m EXCEPT !.p.st = "ESTABLISHED"], "ACCEPT"), s))

(* The states in which both ends are synchronised: st before s was received, r after. *)
ProcessReceived(st, r, s) ==
  LET fin == "FIN" \in r.rf
      allAcked == "ACK" \in s.flags /\ s.ack = r.p.snd_nxt /\ r.p.unsent = <<>>
      enter(next) == [r EXCEPT !.p.st = next]
      timeWait == [r EXCEPT !.p = [tcp_pcb_purge(@) EXCEPT !.st = "TIME_WAIT"]]
  IN  CASE st \in {"ESTABLISHED", "CLOSE_WAIT"} -> CloseWait(r)
        [] st = "FIN_WAIT_1" ->
             IF fin /\ allAcked THEN AckNow(timeWait)
             ELSE IF fin THEN AckNow(enter("CLOSING"))
             ELSE IF allAcked THEN enter("FIN_WAIT_2") ELSE r
        [] st = "FIN_WAIT_2" -> IF fin THEN AckNow(timeWait) ELSE r
        [] st = "CLOSING" -> IF allAcked THEN timeWait ELSE r
        [] st = "LAST_ACK" ->
             IF allAcked THEN [r EXCEPT !.rf = @ \union {"CLOSED"}] ELSE r

tcp_process(m, s, accepted) ==
  LET q == [m EXCEPT !.p.probe = 0]
  IN  IF "RST" \in s.flags THEN ProcessReset(m, s)
      ELSE IF "SYN" \in s.flags /\ m.p.st \notin {"SYN_SENT", "SYN_RCVD"} THEN AckNow(m)
      ELSE CASE m.p.st = "SYN_SENT" -> ProcessSynSent(q, s)
             [] m.p.st = "SYN_RCVD" -> ProcessSynRcvd(q, s, accepted)
             [] m.p.st \notin {"SYN_SENT", "SYN_RCVD"} ->
                  ProcessReceived(q.p.st, tcp_receive(q, s), s)

tcp_input_delayed_close(m) ==
  IF "RXCLOSED" \in m.p.flags THEN tcp_pcb_remove(m, TRUE)
  ELSE Event(tcp_pcb_remove(m, TRUE), "ERR")

(* tcp_input, after tcp_process: hand over what arrived, then send. *)
DeliverInput(m, cw) ==
  LET a == IF m.rd = <<>> THEN m
           ELSE tcp_event_recv(Asserting(m, ~m.p.refused.held, "refused_data == NULL"),
                               m.rd, FALSE)
      f == IF "FIN" \notin m.rf THEN a
           ELSE IF a.p.refused.held THEN [a EXCEPT !.p.refused.fin = TRUE]
           ELSE tcp_event_closed(a)
  IN  IF "RESET" \in m.rf THEN Event(tcp_pcb_remove(m, TRUE), "ERR")
      ELSE IF "CLOSED" \in m.rf THEN tcp_input_delayed_close(m)
      ELSE IF m.rd # <<>> /\ "RXCLOSED" \in m.p.flags THEN tcp_abandon(m, TRUE, TRUE)
      ELSE tcp_output(f, cw)

tcp_timewait_input(m, s, cw) ==
  IF "RST" \in s.flags THEN m
  ELSE IF "SYN" \in s.flags /\ Between(s.seq, m.p.rcv_nxt, Add(m.p.rcv_nxt, m.p.rcv_wnd))
  THEN tcp_rst(m, s.ack, Add(s.seq, TcpLen(s)))
  ELSE IF TcpLen(s) > 0 THEN tcp_output(AckNow(m), cw) ELSE m

(* A segment for no pcb. *)
tcp_input_nopcb(m, s) ==
  IF "RST" \in s.flags THEN m ELSE tcp_rst(m, s.ack, Add(s.seq, TcpLen(s)))

tcp_listen_input(m, s, iss, cw) ==
  LET p == [NewPcb("SYN_RCVD", iss, iss, Add(s.seq, 1), Add(s.seq, -1), s.wnd, s.wnd)
            EXCEPT !.ann_edge = Add(s.seq, 1)]
  IN  IF "RST" \in s.flags THEN m
      ELSE IF "ACK" \in s.flags THEN tcp_rst(m, s.ack, Add(s.seq, TcpLen(s)))
      ELSE IF "SYN" \in s.flags
      THEN tcp_output([m EXCEPT !.p = tcp_enqueue_flags(p, {"SYN"})], cw)
      ELSE m

(* tcp_input for a pcb of tcp_active_pcbs: first what the application refused    *)
(* before.  A pcb that tcp_process has aborted is CLOSED.                         *)
tcp_input_active(m, s, accepted, cw) ==
  LET deliver(r) == IF r.p.st = "CLOSED" THEN r ELSE DeliverInput(r, cw)
      process(q) == IF q.p.refused.held /\ TcpLen(s) > 0
                    THEN IF q.p.ann_wnd = 0 THEN tcp_send_empty_ack(q) ELSE q
                    ELSE deliver(tcp_process(q, s, accepted))
  IN  process(IF m.p.refused.held THEN tcp_process_refused_data(m, cw) ELSE m)
-----------------------------------------------------------------------------
(* The timers of tcp.c *)

tcp_connect(iss, cap, cw) ==
  LET p == [NewPcb("SYN_SENT", iss, Add(iss, -1), 0, 0, TcpWnd, 0)
            EXCEPT !.ann_edge = 0]
  IN  tcp_output(Machine(tcp_enqueue_flags(p, {"SYN"}), <<>>, cap), cw)

(* tcp_slowtmr, retransmission and persist timers; due: the timer of this    *)
(* pcb has run down.                                                         *)
PersistTick(m, due, cw) ==
  LET p == m.p
      q == Asserting(Asserting(m, p.unacked = <<>>, "persist ticking with in-flight data"),
                     p.unsent # <<>>, "persist ticking with empty send buffer")
  IN  IF q.bad # {} \/ ~due \/ p.probe >= MaxRtx THEN q
      ELSE IF p.snd_wnd = 0 THEN tcp_zero_window_probe(m)
      ELSE tcp_output([m EXCEPT !.p = tcp_split_unsent_seg(p, p.snd_wnd)], cw)

RtxTick(m, due) ==
  LET p == m.p
  IN  IF due /\ p.rtime /\ (p.unacked # <<>> \/ p.unsent # <<>>)
      THEN tcp_output([m EXCEPT !.p = [tcp_rexmit_rto_prepare(p) EXCEPT
                                         !.nrtx = Lower(@ + 1, MaxRtx)]], Mss)
      ELSE m

Exhausted(p) == (p.st = "SYN_SENT" /\ p.nrtx >= SynMaxRtx) \/ p.nrtx >= MaxRtx
GivesUp(p) == Exhausted(p) \/ (p.persist /\ p.probe >= MaxRtx)

(* What has run down: "rtx" the retransmission or persist timer, "age" the   *)
(* time limit of FIN_WAIT_2, SYN_RCVD or LAST_ACK, "oos" the one of the      *)
(* ooseq queue, "poll" TCP_EVENT_POLL, which ends in tcp_output.             *)
tcp_slowtmr(m, what, cw) ==
  LET r == IF Exhausted(m.p) THEN m
           ELSE IF m.p.persist THEN PersistTick(m, what = "rtx", cw)
           ELSE RtxTick(m, what = "rtx")
      aged == \/ r.p.st = "FIN_WAIT_2" /\ "RXCLOSED" \in r.p.flags
              \/ r.p.st \in {"SYN_RCVD", "LAST_ACK"}
      q == IF what = "oos" THEN [r EXCEPT !.p.ooseq = <<>>] ELSE r
  IN  IF GivesUp(m.p) \/ (what = "age" /\ aged)
      THEN Event([q EXCEPT !.p = NoPcb], "ERR")
      ELSE IF what = "poll" THEN tcp_output(q, cw) ELSE q

(* The second half of tcp_slowtmr: the end of TIME_WAIT. *)
tcp_slowtmr_timewait(m) == [m EXCEPT !.p = NoPcb]

tcp_fasttmr(m, ok, cw) ==
  LET a == IF "DELAY" \notin m.p.flags THEN m
           ELSE LET t == tcp_output(AckNow(m), cw)
                IN  [t EXCEPT !.p = Clear(@, {"DELAY", "NOW"})]
      b == IF "CLOSEPEND" \notin a.p.flags THEN a
           ELSE tcp_close_shutdown_fin([a EXCEPT !.p = Clear(@, {"CLOSEPEND"})], ok, cw)
  IN  IF b.p.refused.held THEN tcp_process_refused_data(b, cw) ELSE b

(* tcp_close and tcp_shutdown of the sending side. *)
tcp_close(m, ok, cw) ==
  tcp_close_shutdown([m EXCEPT !.p = Set(@, {"RXCLOSED"})], TRUE, ok, cw)

tcp_shutdown_tx(m, ok, cw) ==
  IF m.p.st \in {"SYN_RCVD", "ESTABLISHED", "CLOSE_WAIT"}
  THEN tcp_close_shutdown(m, FALSE, ok, cw) ELSE m
=============================================================================
