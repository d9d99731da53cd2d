------------------------------ MODULE MCNetwork -----------------------------
(* The network stack's parts for TLC, one in scope per behaviour: the ARP      *)
(* table, the DHCP client, reassembly, the resolver and the timers.            *)
EXTENDS Etharp, Dhcp, Timeouts

CONSTANTS Unit, Rooms, MaxDatagrams, MaxPbufs, MaxTimer, Repeats,
          Users, Names, Txids, Ports, DnsEntries, Requests, MaxRetries, Ttl, SeqSpace, MaxWire,
          MaxNews

VARIABLES scope,
          wire, reassdatagrams, pbufcount, got, repeats,
          dns_table, dns_requests, dns_pcbs, dns_seqno, dns_servers, queries, waiting, wrong, news

fragVars == <<wire, reassdatagrams, pbufcount, got, repeats>>
nameVars == <<dns_table, dns_requests, dns_pcbs, dns_seqno, dns_servers, queries, waiting, wrong,
              news>>

\* A lease of four minutes and one for ever.
MCLeases == {[t0 |-> 240, t1 |-> 60, t2 |-> 180], [t0 |-> -1, t1 |-> -1, t2 |-> -1]}

\* A datagram of four fragments at the narrow path and one of two.
MCSizes == <<7, 3>>

MCChain == [o \in 0..6 |-> IF o = 0 THEN 2 ELSE 1]

MCInterval == [t \in Cyclic \cup {"tcpip_tcp_timer"} |-> IF t = "slow" THEN 2 ELSE 1]

Frags == INSTANCE IpReass WITH Sizes <- MCSizes, Chain <- MCChain
Resolver == INSTANCE Dns WITH TableSize <- DnsEntries, wire <- queries

\* Fragments and names are switched off when they are not in scope; the ARP table,
\* the client and the timers stay as they start.
off == "off"

Rests ==
  /\ scope # "client" => dhcp.link = TRUE
  /\ scope # "timers" => now = 0

FragsOff ==
  wire = off /\ reassdatagrams = off /\ pbufcount = off /\ got = off /\ repeats = off

NamesOff ==
  /\ dns_table = off /\ dns_requests = off /\ dns_pcbs = off /\ dns_seqno = off
  /\ dns_servers = off /\ queries = off /\ waiting = off /\ wrong = off /\ news = off

MCInit ==
  /\ scope \in {"table", "client", "fragments", "names", "timers"}
  /\ ArpInit /\ DhcpInit /\ TimeInit /\ Rests
  /\ IF scope = "fragments" THEN Frags!ReassInit ELSE FragsOff
  /\ IF scope = "names" THEN Resolver!DnsInit ELSE NamesOff

MCNext ==
  /\ UNCHANGED scope
  /\ \/ scope = "table" /\ ArpNext /\ UNCHANGED <<dhcpVars, fragVars, nameVars, timeVars>>
     \/ scope = "client" /\ DhcpNext /\ UNCHANGED <<arpVars, fragVars, nameVars, timeVars>>
     \/ scope = "fragments" /\ Frags!ReassNext
                            /\ UNCHANGED <<arpVars, dhcpVars, nameVars, timeVars>>
     \/ scope = "names" /\ Resolver!DnsNext /\ UNCHANGED <<arpVars, dhcpVars, fragVars, timeVars>>
     \/ scope = "timers" /\ TimeNext /\ UNCHANGED <<arpVars, dhcpVars, fragVars, nameVars>>

mcVars == <<scope, arpVars, dhcpVars, fragVars, nameVars, timeVars>>

DhcpStep(A) == scope = "client" /\ A /\ UNCHANGED <<scope, arpVars, fragVars, nameVars, timeVars>>

TimerStep(A) == scope = "timers" /\ A /\ UNCHANGED <<scope, arpVars, dhcpVars, fragVars, nameVars>>

\* The timer of the ARP table, or of the resolver, runs: again and again there is a
\* step that is nothing but a tick, and that moves what waits.
TableTicks == []<><<scope = "table" => arp_table' = [i \in Slots |-> Aged(arp_table[i])]>>_mcVars
NameTicks == []<><<scope = "names" => Resolver!TimerRan>>_mcVars

\* The fairness of the parts, one conjunct for the first, second ... of each.
MCSpec ==
  /\ MCInit /\ [][MCNext]_mcVars
  /\ WF_mcVars(\/ DhcpStep(\E m \in net : Answer(m) \/ Receive(m))
               \/ TimerStep(Tick))
  /\ WF_mcVars(DhcpStep(FineTmr) \/ TimerStep(sys_check_timeouts))
  /\ WF_mcVars(\/ DhcpStep(CoarseTmr)
               \/ TimerStep(\/ RunHead \/ Return
                            \/ lwip_cyclic_timer \/ tcpip_tcp_timer))
  /\ WF_mcVars(DhcpStep(AcdTmr))
  /\ WF_mcVars(DhcpStep(LinkUp) \/ TimerStep(sys_timeouts_init))

\* A datagram handed up is the one that was sent (ip4_reass), and the count of
\* buffers held is exact and within its limit (ip_reass_pbufcount).
DatagramExact == scope = "fragments" => Frags!DatagramExact /\ Frags!BuffersAccounted

\* Callbacks go to who waits, with the right address, and queries, ports and
\* waiting users belong together (dns_recv, dns_enqueue, dns_call_found).
AnswersRight == scope = "names" => Resolver!CallbackRight /\ Resolver!QueriesBacked

\* Whatever was lost, repeated, refused or in conflict before, the interface is
\* again and again given an address: no combination of a late answer, a stale lease
\* timer, a link failure and the conflict detector's rate limit leaves the client
\* waiting for a timer nobody set (dhcp_timeout, acd_tmr).
AddressRegained == []<>(scope = "client" => HasAddress)

\* A parked packet is sent or given up, as long as the timer runs (etharp_tmr).
ParkedLeaves ==
  TableTicks => \A i \in Slots, h \in Hosts : []<>(scope = "table" => ~Parked(i, h))

\* Every lookup ends, with an address or without, as long as the timer runs: no loss
\* of answers, change of servers or error answer leaves a user waiting
\* (dns_check_entry).
LookupEnds ==
  NameTicks => \A u \in Users : []<>(scope = "names" => ~Resolver!Waits(u))

\* Every cyclic timer runs again and again, and that of TCP while there are
\* connections: retransmissions, expiries and leases all hang on it
\* (sys_check_timeouts).
TimersRun ==
  /\ \A c \in Cyclic : []<>(scope = "timers" => Runs(c))
  /\ []<>(scope = "timers" => ~pcbs \/ Runs(Tcp))
=============================================================================
