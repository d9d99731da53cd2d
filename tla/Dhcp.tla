-------------------------------- MODULE Dhcp --------------------------------
(***************************************************************************)
(* The DHCP client of the network stack (dhcp.c) with its conflict         *)
(* detector, against a server and a network that loses, repeats and delays *)
(* messages, links that fail, and other hosts that use the same address.   *)
(*                                                                         *)
(* `dhcp` is `struct dhcp` together with the two facts of the `struct      *)
(* netif` it works on: addr (netif->ip_addr) and link (the link-up flag).  *)
(* request_timeout is the Boolean `armed`: the fine timer may fire as soon *)
(* as it is set.  The lease is counted as the code counts it, in ticks of  *)
(* the coarse timer.                                                       *)
(*                                                                         *)
(* Transaction ids are only compared for equality with the client's        *)
(* current one and are never used again, so a message keeps one bit: cur   *)
(* is TRUE while the message's id is dhcp->xid.                            *)
(***************************************************************************)
EXTENDS Acd, Integers, FiniteSets

CONSTANTS Addrs,        \* addresses the server may offer
          Leases,       \* leases it may grant, in seconds
          SelectTries,  \* dhcp_timeout gives up requesting after this many (5)
          RebootTries,  \* REBOOT_TRIES
          Trouble       \* bound on lost, repeated, late or refused messages,
                        \* link failures and conflicting hosts

VARIABLES dhcp, net, trouble, declined

dhcpVars == <<dhcp, net, trouble, declined>>

NoAddr == "none"

Forever == -1

NoLease == [t0 |-> 0, t1 |-> 0, t2 |-> 0]

States == {"OFF", "INIT", "SELECTING", "REQUESTING", "CHECKING", "BOUND",
           "RENEWING", "REBINDING", "REBOOTING", "BACKING_OFF"}

\* memset(dhcp, 0, sizeof(struct dhcp)): the interface is not touched.
Zeroed(addr, link) ==
  [st |-> "OFF", tries |-> 0, armed |-> FALSE, offered |-> NoAddr,
   lease |-> NoLease, used |-> 0, t0 |-> 0, t1r |-> 0, t2 |-> 0, t2r |-> 0,
   listed |-> FALSE, pcb |-> 0, acd |-> AcdOff,
   addr |-> addr, link |-> link, out |-> {}, fresh |-> FALSE]

----------------------------------------------------------------------------
(* Sending: `out` collects what one handler sends, and `fresh` records that it *)
(* took a new transaction id, which no message sent before carries.        *)

Stale(ms) == {[m EXCEPT !.cur = FALSE] : m \in ms}

\* Slip: a new exchange keeps the old transaction id.
MutantMsg(d, type, a) ==
  [d EXCEPT !.out = @ \cup IF d.link /\ type \in {"DISCOVER", "REQUEST"}
                             THEN {[type |-> type, addr |-> a, cur |-> TRUE]} ELSE {}]

\* A RELEASE or DECLINE asks for no answer, so it is not put on the wire; it
\* takes a transaction id all the same.
dhcp_create_msg(d, type, a) ==
  LET renew == (type # "REQUEST" \/ d.st = "REBOOTING") /\ d.tries = 0
      msgs == IF d.link /\ type \in {"DISCOVER", "REQUEST"}
                THEN {[type |-> type, addr |-> a, cur |-> TRUE]} ELSE {}
  IN  [d EXCEPT !.out = (IF renew THEN Stale(@) ELSE @) \cup msgs,
                !.fresh = @ \/ renew]

dhcp_set_state(d, s) ==
  IF s = d.st THEN d ELSE [d EXCEPT !.st = s, !.tries = 0, !.armed = FALSE]

\* The end of every request: one more try, and the request timer is set.
Tried(d) ==
  [d EXCEPT !.tries = IF @ > SelectTries THEN @ ELSE @ + 1, !.armed = TRUE]

dhcp_discover(d) ==
  Tried(dhcp_create_msg(dhcp_set_state([d EXCEPT !.offered = NoAddr], "SELECTING"),
                        "DISCOVER", NoAddr))

dhcp_select(d) ==
  Tried(dhcp_create_msg(dhcp_set_state(d, "REQUESTING"), "REQUEST", d.offered))

\* While renewing and rebinding the address asked for is the one in use.
dhcp_renew(d) ==
  Tried(dhcp_create_msg(dhcp_set_state(d, "RENEWING"), "REQUEST", d.addr))

dhcp_rebind(d) ==
  Tried(dhcp_create_msg(dhcp_set_state(d, "REBINDING"), "REQUEST", d.addr))

dhcp_reboot(d) ==
  Tried(dhcp_create_msg(dhcp_set_state(d, "REBOOTING"), "REQUEST", d.offered))

dhcp_decline(d) ==
  dhcp_create_msg(dhcp_set_state(d, "BACKING_OFF"), "DECLINE", NoAddr)

----------------------------------------------------------------------------
(* Binding, releasing and starting.                                        *)

\* SET_TIMEOUT_FROM_OFFERED: seconds to coarse ticks, rounded, at least one.
Ticks(secs) ==
  LET t == (secs + 30) \div 60 IN IF t = 0 THEN 1 ELSE t

\* A lease time of 0xffffffff leaves the timer as it was.
Timer(secs, old) == IF secs = Forever THEN old ELSE Ticks(secs)

dhcp_bind(d) ==
  [dhcp_set_state([d EXCEPT !.used = 0,
                            !.t0 = Timer(d.lease.t0, @),
                            !.t1r = Timer(d.lease.t1, @),
                            !.t2 = Timer(d.lease.t2, @),
                            !.t2r = Timer(d.lease.t2, @)], "BOUND")
   EXCEPT !.addr = d.offered]

dhcp_supplied_address(d) == d.st \in {"BOUND", "RENEWING", "REBINDING"}

dhcp_release_and_stop(d) ==
  LET z == [d EXCEPT !.offered = NoAddr, !.lease = NoLease, !.used = 0,
                     !.t0 = 0, !.t1r = 0, !.t2r = 0]
      s == IF dhcp_supplied_address(d)
             THEN [dhcp_create_msg(dhcp_set_state(z, "OFF"), "RELEASE", NoAddr)
                   EXCEPT !.addr = NoAddr]
             ELSE dhcp_set_state(z, "OFF")
  IN  IF d.st = "OFF" THEN d ELSE [s EXCEPT !.listed = FALSE, !.pcb = 0]

\* The interface is up and its client exists: dhcp_start begins anew.
dhcp_start(d) ==
  LET z == [Zeroed(d.addr, d.link) EXCEPT !.listed = TRUE, !.pcb = 1,
                                          !.out = d.out, !.fresh = d.fresh]
  IN  IF d.link THEN dhcp_discover(z) ELSE dhcp_set_state(z, "INIT")

----------------------------------------------------------------------------
(* Answers.                                                                *)

dhcp_check(d) ==
  [dhcp_set_state(d, "CHECKING") EXCEPT !.acd = acd_start(@, d.offered)]

dhcp_handle_ack(d, a, lease) == [d EXCEPT !.offered = a, !.lease = lease]

dhcp_handle_nak(d) ==
  dhcp_discover([dhcp_set_state(d, "BACKING_OFF") EXCEPT !.addr = NoAddr])

dhcp_handle_offer(d, a) == dhcp_select([d EXCEPT !.armed = FALSE, !.offered = a])

\* The interface is an Ethernet one (NETIF_FLAG_ETHARP): a new address is
\* checked before it is used.
dhcp_recv(d, m, lease) ==
  IF d.pcb = 0 \/ ~m.cur THEN d
  ELSE CASE m.type = "ACK" /\ d.st \in {"REQUESTING", "REBOOTING"} ->
              dhcp_check(dhcp_handle_ack(d, m.addr, lease))
         [] m.type = "ACK" /\ d.st \in {"REBINDING", "RENEWING"} ->
              dhcp_bind(dhcp_handle_ack(d, m.addr, lease))
         [] m.type = "NAK" /\ d.st \in {"REBOOTING", "REQUESTING", "REBINDING", "RENEWING"} ->
              dhcp_handle_nak(d)
         [] m.type = "OFFER" /\ d.st = "SELECTING" -> dhcp_handle_offer(d, m.addr)
         [] OTHER -> d

\* Slip: the time to wait before a restart is not set.
MutantCallback(d, call) ==
  CASE call = "IP_OK" -> dhcp_bind(d)
    [] call = "RESTART" -> dhcp_set_state(d, "BACKING_OFF")
    [] call = "DECLINE" -> dhcp_decline([d EXCEPT !.addr = NoAddr])

\* One call of the conflict detector.
dhcp_conflict_callback(d, call) ==
  CASE call = "IP_OK" -> dhcp_bind(d)
    [] call = "RESTART" -> [dhcp_set_state(d, "BACKING_OFF") EXCEPT !.armed = TRUE]
    [] call = "DECLINE" -> dhcp_decline([d EXCEPT !.addr = NoAddr])

\* What the detector did (r), and the calls it made, one or two.
Called(d, r) ==
  LET e == [d EXCEPT !.acd = r.acd]
  IN  CASE r.calls = <<>> -> e
        [] Len(r.calls) = 1 -> dhcp_conflict_callback(e, r.calls[1])
        [] OTHER -> dhcp_conflict_callback(dhcp_conflict_callback(e, r.calls[1]), r.calls[2])

----------------------------------------------------------------------------
(* Timers and link changes.                                                *)

dhcp_timeout(d) ==
  LET e == [d EXCEPT !.armed = FALSE]
  IN  CASE d.st \in {"BACKING_OFF", "SELECTING"} -> dhcp_discover(e)
        [] d.st = "REQUESTING" ->
             IF d.tries <= SelectTries THEN dhcp_select(e)
             ELSE dhcp_start(dhcp_release_and_stop(e))
        [] d.st = "REBOOTING" ->
             IF d.tries < RebootTries THEN dhcp_reboot(e) ELSE dhcp_discover(e)
        [] OTHER -> e

dhcp_t1_timeout(d) ==
  LET half == (d.t2 - d.used) \div 2
  IN  IF d.st \notin {"REQUESTING", "BOUND", "RENEWING"} THEN d
      ELSE [dhcp_renew(d) EXCEPT !.t1r = IF half >= 1 THEN half ELSE @]

dhcp_t2_timeout(d) ==
  LET half == (d.t0 - d.used) \div 2
  IN  IF d.st \notin {"REQUESTING", "BOUND", "RENEWING", "REBINDING"} THEN d
      ELSE [dhcp_rebind(d) EXCEPT !.t2r = IF half >= 1 THEN half ELSE @]

dhcp_coarse_tmr(d) ==
  LET e == [d EXCEPT !.used = IF d.t0 > 0 THEN @ + 1 ELSE @]
      f == [e EXCEPT !.t2r = IF @ > 0 THEN @ - 1 ELSE @]
      g == [f EXCEPT !.t1r = IF @ > 0 THEN @ - 1 ELSE @]
  IN  IF d.st = "OFF" THEN d
      ELSE IF d.t0 > 0 /\ e.used = d.t0 THEN dhcp_start(dhcp_release_and_stop(e))
      ELSE IF d.t2r = 1 THEN dhcp_t2_timeout(f)
      ELSE IF d.t1r = 1 THEN dhcp_t1_timeout(g)
      ELSE g

dhcp_network_changed_link_up(d) ==
  CASE d.st \in {"REBINDING", "RENEWING", "BOUND", "REBOOTING"} ->
         dhcp_reboot([d EXCEPT !.tries = 0])
    [] d.st = "OFF" -> d
    [] OTHER -> dhcp_discover([d EXCEPT !.tries = 0])

----------------------------------------------------------------------------
(* The system: the client, the server (external), the wire and the link.   *)

Answers == {"OFFER", "ACK", "NAK"}

Message == [type : Answers \cup {"DISCOVER", "REQUEST"}, addr : Addrs \cup {NoAddr},
            cur : BOOLEAN]

\* The handler left the client as d, with `kept` of the messages still under way.
Step(d, kept) ==
  /\ dhcp' = [d EXCEPT !.out = {}, !.fresh = FALSE]
  /\ net' = (IF d.fresh THEN Stale(kept) ELSE kept) \cup d.out

Spend(n) == trouble >= n /\ trouble' = trouble - n

\* The server answers a request: it offers any address, and grants the one
\* asked for or, having lost its records, refuses it.  A request for no
\* address gets no answer.
Answer(m) ==
  /\ m.type \notin Answers
  /\ \/ /\ m.type = "DISCOVER"
        /\ \E a \in Addrs :
             /\ net' = (net \ {m}) \cup {[m EXCEPT !.type = "OFFER", !.addr = a]}
             /\ declined' = declined \ {a}
        /\ UNCHANGED trouble
     \/ /\ m.type = "REQUEST"
        /\ \/ /\ net' = (net \ {m}) \cup
                        (IF m.addr = NoAddr THEN {} ELSE {[m EXCEPT !.type = "ACK"]})
              /\ UNCHANGED trouble
           \/ /\ net' = (net \ {m}) \cup {[m EXCEPT !.type = "NAK"]}
              /\ Spend(1)
        /\ UNCHANGED declined
  /\ UNCHANGED dhcp

\* An answer arrives; a repeated one stays on the wire.
Receive(m) ==
  /\ m.type \in Answers
  /\ \E lease \in Leases :
       \/ Step(dhcp_recv(dhcp, m, lease), net \ {m}) /\ UNCHANGED trouble
       \/ Step(dhcp_recv(dhcp, m, lease), net) /\ Spend(1)
  /\ UNCHANGED declined

Lose(m) == net' = net \ {m} /\ Spend(1) /\ UNCHANGED <<dhcp, declined>>

\* dhcp_fine_tmr.  A timer that fires while a message is under way is early,
\* and early timers are bounded.
FineTmr ==
  /\ dhcp.armed
  /\ Step(dhcp_timeout(dhcp), net)
  /\ IF net = {} THEN UNCHANGED trouble ELSE Spend(1)
  /\ UNCHANGED declined

\* dhcp_coarse_tmr: a message lives for less than the minute between two ticks.
CoarseTmr ==
  /\ net = {}
  /\ Step(dhcp_coarse_tmr(dhcp), net)
  /\ UNCHANGED <<trouble, declined>>

AcdTmr ==
  /\ dhcp.listed /\ dhcp.acd.st \in Waiting
  /\ Step(Called(dhcp, acd_tmr(dhcp.acd)), net)
  /\ UNCHANGED <<trouble, declined>>

\* lastconflict has been counted down to zero.
DefendEnds ==
  /\ dhcp.listed /\ dhcp.acd.defended
  /\ dhcp' = [dhcp EXCEPT !.acd.defended = FALSE]
  /\ UNCHANGED <<net, trouble, declined>>

\* etharp_input hands over another host's claim to the watched address.
Conflict ==
  LET r == acd_arp_reply(dhcp.acd)
  IN  /\ dhcp.listed /\ dhcp.link /\ dhcp.acd.st \in Probing \cup Defending
      /\ Step(Called(dhcp, r), net)
      /\ declined' = IF r.calls = <<>> THEN declined ELSE declined \cup {dhcp.acd.ip}
      /\ Spend(1)

\* netif_set_link_down: what is under way does not arrive.
LinkDown ==
  /\ dhcp.link
  /\ dhcp' = [dhcp EXCEPT !.link = FALSE, !.acd = IF dhcp.listed THEN acd_stop(@) ELSE @]
  /\ net' = {}
  /\ Spend(1)
  /\ UNCHANGED declined

\* netif_set_link_up
LinkUp ==
  /\ ~dhcp.link
  /\ Step(dhcp_network_changed_link_up([dhcp EXCEPT !.link = TRUE]), net)
  /\ UNCHANGED <<trouble, declined>>

\* The kernel starts the client once, when the NIC is set up; the link may be
\* up or down.
DhcpInit ==
  \E link \in BOOLEAN :
    LET d == dhcp_start(Zeroed(NoAddr, link))
    IN  /\ dhcp = [d EXCEPT !.out = {}, !.fresh = FALSE]
        /\ net = d.out
        /\ trouble = Trouble
        /\ declined = {}

DhcpNext ==
  \/ \E m \in net : Answer(m) \/ Receive(m) \/ Lose(m)
  \/ FineTmr \/ CoarseTmr \/ AcdTmr \/ DefendEnds \/ Conflict \/ LinkDown \/ LinkUp

\* Timers run, the server answers, the wire delivers, the link comes back.
DhcpFairness ==
  /\ WF_dhcpVars(\E m \in net : Answer(m) \/ Receive(m))
  /\ WF_dhcpVars(FineTmr) /\ WF_dhcpVars(CoarseTmr) /\ WF_dhcpVars(AcdTmr)
  /\ WF_dhcpVars(LinkUp)

DhcpSpec == DhcpInit /\ [][DhcpNext]_dhcpVars /\ DhcpFairness

----------------------------------------------------------------------------
(* Properties.                                                             *)

DhcpTypeOK ==
  /\ dhcp.st \in States
  /\ dhcp.tries \in 0..(SelectTries + 1)
  /\ dhcp.offered \in Addrs \cup {NoAddr} /\ dhcp.addr \in Addrs \cup {NoAddr}
  /\ dhcp.used \in Nat /\ dhcp.t1r \in Nat /\ dhcp.t2r \in Nat
  /\ net \subseteq Message
  /\ trouble \in 0..Trouble /\ declined \subseteq Addrs

HasAddress == dhcp_supplied_address(dhcp) /\ dhcp.addr # NoAddr

\* An address the client declined because another host answered for it is not
\* requested, checked or used again before the server offers it anew: answers
\* of the abandoned exchange that arrive late are not taken for current ones.
NoDeclinedAddress ==
  dhcp.st \in {"REQUESTING", "CHECKING", "BOUND", "RENEWING", "REBINDING", "REBOOTING"}
    => dhcp.offered \notin declined
=============================================================================
