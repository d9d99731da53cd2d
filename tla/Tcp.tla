-------------------------------- MODULE Tcp --------------------------------
(***************************************************************************)
(* Two ends of a TCP connection: "a" connects, "b" listens.  Between them  *)
(* a network that may lose, duplicate and reorder segments, plan.faults   *)
(* times in all; above them applications that write, read, shut down and   *)
(* close; beside them the timers.  Every action is one call into the stack *)
(* with the core lock held (LWIP_TCPIP_CORE_LOCKING).                      *)
(*                                                                         *)
(* A timer that fires while segments are still under way is a fault: that  *)
(* is a timeout that races a late answer.                                  *)
(***************************************************************************)
EXTENDS TcpConn

CONSTANTS
  Plans,        \* what the run lets happen: a set of records, see Planned
  Iss,          \* [Ends -> 0..SeqSpace-1]: tcp_next_iss
  Chunk,        \* bytes of one write
  NetCap,       \* segments the network holds per direction
  Windows       \* congestion windows, a set

VARIABLES plan, pcb, mbox, app, net, faults, panicked

tcpVars == <<plan, pcb, mbox, app, net, faults, panicked>>

Ends == {"a", "b"}
Peer(e) == IF e = "a" THEN "b" ELSE "a"

(* bytes: how much each application may write; ending: how it may end the   *)
(* connection; cap: the size of its recvmbox; faults: how many faults.       *)
Planned == [bytes : [Ends -> Nat], ending : [Ends -> SUBSET {"shut", "close"}],
            cap : [Ends -> Nat], faults : Nat]

(* What the application of an end has done and seen through its netconn. *)
NewApp == [open |-> FALSE, sent |-> 0, got |-> <<>>, eof |-> FALSE, shut |-> FALSE,
           closed |-> FALSE, err |-> FALSE]

TcpInit ==
  LET m == tcp_connect(Iss["a"], 0, Mss)
  IN  /\ plan \in Plans
      /\ pcb = [e \in Ends |-> IF e = "a" THEN m.p ELSE NoPcb]
      /\ mbox = [e \in Ends |-> <<>>]
      /\ app = [e \in Ends |-> NewApp]
      /\ net = [e \in Ends |-> IF e = "b" THEN m.out ELSE <<>>]
      /\ faults = 0
      /\ panicked = {}

(* cost: something went wrong that the bound plan.faults counts. *)
Costs(cost) == IF cost THEN faults < plan.faults /\ faults' = faults + 1 ELSE UNCHANGED faults

Me(e) == Machine(pcb[e], mbox[e], plan.cap[e])

(* The effects of a call: rest is what the network still holds for e. *)
Effects(e, m, u, rest) ==
  LET sent == net[Peer(e)] \o m.out
  IN  /\ pcb' = [pcb EXCEPT ![e] = m.p]
      /\ mbox' = [mbox EXCEPT ![e] = m.mbox]
      /\ app' = [app EXCEPT ![e] = [u EXCEPT !.open = @ \/ m.ev \cap {"CONNECTED", "ACCEPT"} # {},
                                             !.err = @ \/ "ERR" \in m.ev]]
      /\ net' = [net EXCEPT ![e] = rest, ![Peer(e)] = SubSeq(sent, 1, Lower(Len(sent), NetCap))]
      /\ panicked' = m.bad
      /\ UNCHANGED plan

Running == panicked = {}

(* A write on a connected netconn is tcp_write, then tcp_output. *)
Write(e) ==
  \E k \in 1..Chunk, cw \in Windows :
    /\ Running /\ app[e].open /\ ~app[e].shut /\ ~app[e].closed /\ ~app[e].err
    /\ pcb[e].st \in {"ESTABLISHED", "CLOSE_WAIT"}
    /\ k = Lower(Chunk, plan.bytes[e] - app[e].sent) /\ k <= SndSpace(pcb[e])
    /\ LET data == [i \in 1..k |-> app[e].sent + i]
       IN  Effects(e, tcp_output([Me(e) EXCEPT !.p = tcp_write(@, data)], cw),
                   [app[e] EXCEPT !.sent = @ + k], net[e])
    /\ UNCHANGED faults

(* netconn_recv: one entry of the mailbox; the window opens again. *)
Read(e) ==
  \E cw \in Windows :
    /\ Running /\ app[e].open /\ mbox[e] # <<>>
    /\ LET data == Head(mbox[e])
           m == [Me(e) EXCEPT !.mbox = Tail(@)]
       IN  IF data = <<>> THEN Effects(e, m, [app[e] EXCEPT !.eof = TRUE], net[e])
           ELSE Effects(e, IF pcb[e].st = "CLOSED" THEN m ELSE tcp_recved(m, Len(data), cw),
                        [app[e] EXCEPT !.got = @ \o data], net[e])
    /\ UNCHANGED faults

Shutdown(e) ==
  \E ok \in BOOLEAN, cw \in Windows :
    /\ Running /\ "shut" \in plan.ending[e] /\ app[e].open /\ ~app[e].shut /\ ~app[e].closed
    /\ pcb[e].st \in {"ESTABLISHED", "CLOSE_WAIT"}
    /\ Effects(e, tcp_shutdown_tx(Me(e), ok, cw), [app[e] EXCEPT !.shut = TRUE], net[e])
    /\ Costs(~ok)

(* netconn_delete: tcp_close, and what was not read is dropped. *)
Close(e) ==
  \E ok \in BOOLEAN, cw \in Windows :
    /\ Running /\ "close" \in plan.ending[e] /\ ~app[e].closed /\ pcb[e].st # "CLOSED" /\ (app[e].open \/ e = "a")
    /\ LET m == IF "RXCLOSED" \in pcb[e].flags THEN Me(e) ELSE tcp_close(Me(e), ok, cw)
       IN  Effects(e, [m EXCEPT !.mbox = <<>>], [app[e] EXCEPT !.closed = TRUE], net[e])
    /\ Costs(~ok)

tcp_input(e, s, accepted, cw) ==
  CASE pcb[e].st = "CLOSED" /\ e = "b" /\ ~app[e].open -> tcp_listen_input(Me(e), s, Iss[e], cw)
    [] pcb[e].st = "CLOSED" /\ (e = "a" \/ app[e].open) -> tcp_input_nopcb(Me(e), s)
    [] pcb[e].st = "TIME_WAIT" -> tcp_timewait_input(Me(e), s, cw)
    [] pcb[e].st \notin {"CLOSED", "TIME_WAIT"} -> tcp_input_active(Me(e), s, accepted, cw)

(* accepted: there is room in the accept mailbox (accept_function). *)
Deliver(e) ==
  \E cw \in Windows, accepted \in BOOLEAN :
    /\ Running /\ net[e] # <<>>
    /\ accepted \/ pcb[e].st = "SYN_RCVD"
    /\ Effects(e, tcp_input(e, Head(net[e]), accepted, cw), app[e], Tail(net[e]))
    /\ Costs(~accepted)

Fault(e) ==
  /\ Running /\ net[e] # <<>> /\ faults < plan.faults
  /\ faults' = faults + 1
  /\ \/ net' = [net EXCEPT ![e] = Tail(@)]                        \* lost
     \/ net' = [net EXCEPT ![e] = Append(Tail(@), Head(@))]       \* overtaken
     \/ /\ Len(net[e]) < NetCap
        /\ net' = [net EXCEPT ![e] = Append(@, Head(@))]          \* duplicated
  /\ UNCHANGED <<plan, pcb, mbox, app, panicked>>

Quiet == \A e \in Ends : net[e] = <<>>

SlowTmr(e, what) ==
  \E cw \in Windows :
    /\ Running /\ pcb[e].st \notin {"CLOSED", "TIME_WAIT"}
    /\ Effects(e, tcp_slowtmr(Me(e), what, cw), app[e], net[e])
    /\ Costs(~Quiet)

TimeWaitEnds(e) ==
  /\ Running /\ Quiet /\ pcb[e].st = "TIME_WAIT"
  /\ Effects(e, tcp_slowtmr_timewait(Me(e)), app[e], net[e])
  /\ UNCHANGED faults

FastTmr(e) ==
  \E ok \in BOOLEAN, cw \in Windows :
    /\ Running /\ pcb[e].st \notin {"CLOSED", "TIME_WAIT"}
    /\ pcb[e].flags \cap {"DELAY", "CLOSEPEND"} # {} \/ pcb[e].refused.held
    /\ Effects(e, tcp_fasttmr(Me(e), ok, cw), app[e], net[e])
    /\ Costs(~ok \/ ~Quiet)

TcpNext ==
  \E e \in Ends : \/ Write(e) \/ Read(e) \/ Shutdown(e) \/ Close(e)
                  \/ Deliver(e) \/ Fault(e) \/ TimeWaitEnds(e) \/ FastTmr(e)
                  \/ \E what \in {"rtx", "age", "oos", "poll"} : SlowTmr(e, what)

(* Fairness.  The network keeps delivering and an application that has     *)
(* something to read reads it.  A timer that is armed goes off: the network *)
(* cannot stay quiet forever beside it, because what the timer does is to   *)
(* send or to give up.                                                      *)
RtxArmed(e) == pcb[e].persist \/ (pcb[e].rtime /\ (pcb[e].unacked # <<>> \/ pcb[e].unsent # <<>>))
AgeArmed(e) == \/ pcb[e].st \in {"SYN_RCVD", "LAST_ACK"}
               \/ pcb[e].st = "FIN_WAIT_2" /\ "RXCLOSED" \in pcb[e].flags
FastArmed(e) == \/ pcb[e].flags \cap {"DELAY", "CLOSEPEND"} # {}
                \/ pcb[e].refused.held /\ Len(mbox[e]) < plan.cap[e]
Armed(e) == /\ Running /\ pcb[e].st \notin {"CLOSED", "TIME_WAIT"}
            /\ RtxArmed(e) \/ AgeArmed(e) \/ FastArmed(e)

TcpFairness ==
  \A e \in Ends :
    /\ []<>(~Running \/ net[e] = <<>>) \/ []<><<net'[e] = Tail(net[e])>>_tcpVars
    /\ []<>(~Running \/ mbox[e] = <<>> \/ ~app[e].open) \/ []<><<mbox'[e] = Tail(mbox[e])>>_tcpVars
    /\ []<>(~Quiet \/ ~Armed(e))

TcpSpec == TcpInit /\ [][TcpNext]_tcpVars /\ TcpFairness
-----------------------------------------------------------------------------
Positions(q) == UNION {{s.data[i] : i \in DOMAIN s.data} : s \in {q[j] : j \in DOMAIN q}}
Unread(e) == FoldLeft(LAMBDA a, d : a \o d, <<>>, mbox[e]) \o pcb[e].refused.data

(* What an application reads is what its peer wrote, in order, without gap *)
(* or repetition, whatever was lost, repeated or overtaken on the way      *)
(* (tcp_receive, tcp_oos_insert_segment, recv_tcp).                        *)
TcpStreamIntact ==
  \A e \in Ends :
    LET all == app[e].got \o Unread(e)
    IN  /\ all = [i \in 1..Len(all) |-> i]
        /\ Len(all) <= app[Peer(e)].sent

(* The receive window and the bytes that wait for the application make up  *)
(* TCP_WND: no byte of window is lost or made up while the connection is   *)
(* open (tcp_receive, tcp_recved).                                         *)
WindowAccounted ==
  \A e \in Ends :
    (Running /\ pcb[e].st \in {"ESTABLISHED", "FIN_WAIT_1", "FIN_WAIT_2"} /\ ~app[e].closed) =>
      pcb[e].rcv_wnd + Len(Unread(e)) = TcpWnd

(* A byte that was written and is not acknowledged is in one of the two    *)
(* send queues, through timeouts, fast retransmissions and splits.         *)
NothingForgotten ==
  \A e \in Ends :
    (Running /\ pcb[e].st \in {"ESTABLISHED", "CLOSE_WAIT", "FIN_WAIT_1", "LAST_ACK"}) =>
      LET p == pcb[e]
          acked == Sub(p.lastack, Add(Iss[e], IF e = "a" THEN 0 ELSE 1))
      IN  acked + 1 .. app[e].sent \subseteq Positions(p.unacked) \union Positions(p.unsent)

(* Again and again all that was written has been read, or an application   *)
(* has heard that the connection broke: a lost segment, acknowledgement or *)
(* window update is made good by the retransmission and persist timers.    *)
WriteResolves ==
  []<>(\/ \A e \in Ends : Len(app[Peer(e)].got) = app[e].sent
       \/ \E e \in Ends : app[e].err \/ app[e].closed
       \/ ~Running)

(* No LWIP_ASSERT fails. *)
NoAssertFails == panicked = {}
=============================================================================
