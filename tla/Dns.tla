--------------------------------- MODULE Dns --------------------------------
(***************************************************************************)
(* The resolver of the network stack (dns.c): the table of names, the      *)
(* requests that wait on its entries, the source ports the queries leave   *)
(* from, retries, the backup server and the cache, against servers whose   *)
(* answers are lost, late, repeated or errors.                             *)
(*                                                                         *)
(* A name is a model value and its address is the name itself, so an       *)
(* answer is right when it is the name asked for; an error is "none".      *)
(* LWIP_DNS_SECURE has all its bits: random ids and ports, and requests    *)
(* for a name being asked share its entry.  A user is one caller of        *)
(* dns_gethostbyname; the callback does not call the resolver again        *)
(* (lwip_netconn_do_dns_found does not).                                   *)
(***************************************************************************)
EXTENDS Integers, SequencesExt

CONSTANTS Users, Names, Txids, Ports,
          TableSize,   \* DNS_TABLE_SIZE
          Requests,    \* DNS_MAX_REQUESTS, also DNS_MAX_SOURCE_PORTS
          MaxRetries,  \* DNS_MAX_RETRIES
          Ttl,         \* the time to live of an answer that is cached
          SeqSpace,    \* size of the u8 dns_seqno
          MaxWire,     \* queries under way; one more is lost
          MaxNews      \* bound on changes of the servers and on repeated answers

VARIABLES dns_table, dns_requests, dns_pcbs, dns_seqno, dns_servers, wire, waiting, wrong, news

dnsVars == <<dns_table, dns_requests, dns_pcbs, dns_seqno, dns_servers, wire, waiting, wrong, news>>

Slots == 0..(TableSize - 1)

ReqSlots == 0..(Requests - 1)

None == "none"

Nobody == "nobody"

NoRequest == [found |-> Nobody, idx |-> 0]

\* An entry's fields that are not read in its state are cleared.
Unused == [state |-> "UNUSED", name |-> None, ipaddr |-> None, txid |-> 0, server |-> 0, tmr |-> 0,
           retries |-> 0, seqno |-> 0, pcb |-> Requests, ttl |-> 0]

----------------------------------------------------------------------------
(* Operators on s: the table, the requests, the ports (0 is closed), the   *)
(* queries sent and the callbacks made.                                    *)

Asking(s, i) == s.tab[i].state = "ASKING"

\* Every request of the entry is called, then its port is closed, unless
\* another query is using it.
dns_call_found(s, i, addr) ==
  LET mine == {r \in ReqSlots : s.req[r].found # Nobody /\ s.req[r].idx = i}
      shared == \E j \in Slots \ {i} : Asking(s, j) /\ s.tab[j].pcb = s.tab[i].pcb
  IN  [s EXCEPT !.calls = @ \cup {[user |-> s.req[r].found, name |-> s.tab[i].name,
                                   addr |-> addr] : r \in mine},
                !.req = [r \in ReqSlots |-> IF r \in mine THEN NoRequest ELSE @[r]],
                !.pcbs = IF shared \/ s.tab[i].pcb = Requests THEN @
                         ELSE [@ EXCEPT ![s.tab[i].pcb] = 0],
                !.tab[i].pcb = Requests]

Fail(s, i) == [dns_call_found(s, i, None) EXCEPT !.tab[i] = Unused]

\* A query that finds no memory is a query that is lost.
dns_send(s, i) ==
  LET e == s.tab[i]
  IN  IF dns_servers[e.server] = None THEN Fail(s, i)
      ELSE [s EXCEPT !.sent = @ \cup {[kind |-> "query", txid |-> e.txid, name |-> e.name,
                                       server |-> dns_servers[e.server], port |-> s.pcbs[e.pcb]]}]

dns_backupserver_available(e) ==
  e.server + 1 \in DOMAIN dns_servers /\ dns_servers[e.server + 1] # None

\* An entry that was just filled in.
CheckNew(s, i, txid) ==
  dns_send([s EXCEPT !.tab[i] = [@ EXCEPT !.state = "ASKING", !.txid = txid, !.server = 0,
                                          !.tmr = 1, !.retries = 0]], i)

\* Slip: the count of tries starts over before the query is given up.
MutantAsking(s, i) ==
  LET e == s.tab[i]
  IN  IF e.tmr > 1 THEN [s EXCEPT !.tab[i].tmr = @ - 1]
      ELSE IF e.retries + 1 < MaxRetries \/ dns_backupserver_available(e)
        THEN dns_send([s EXCEPT !.tab[i].retries = (@ + 1) % MaxRetries], i)
      ELSE Fail(s, i)

CheckAsking(s, i) ==
  LET e == s.tab[i]
      again == [e EXCEPT !.retries = @ + 1, !.tmr = e.retries + 1]
      next == [e EXCEPT !.server = @ + 1, !.tmr = 1, !.retries = 0]
  IN  IF e.tmr > 1 THEN [s EXCEPT !.tab[i].tmr = @ - 1]
      ELSE IF e.retries + 1 < MaxRetries THEN dns_send([s EXCEPT !.tab[i] = again], i)
      ELSE IF dns_backupserver_available(e) THEN dns_send([s EXCEPT !.tab[i] = next], i)
      ELSE Fail(s, i)

CheckDone(s, i) ==
  IF s.tab[i].ttl <= 1 THEN [s EXCEPT !.tab[i] = Unused]
  ELSE [s EXCEPT !.tab[i].ttl = @ - 1]

dns_check_entry(s, i) ==
  CASE s.tab[i].state = "ASKING" -> CheckAsking(s, i)
    [] s.tab[i].state = "DONE" -> CheckDone(s, i)
    [] OTHER -> s

\* An address with a time to live of zero is given out but not kept.
dns_correct_response(s, i, ttl, addr) ==
  LET e == s.tab[i]
      done == [Unused EXCEPT !.state = "DONE", !.name = e.name, !.ipaddr = addr,
                              !.seqno = e.seqno, !.ttl = ttl]
  IN  [dns_call_found(s, i, addr) EXCEPT !.tab[i] = IF ttl = 0 THEN Unused ELSE done]

\* Slip: the name in the answer is not compared.
MutantRecv(s, m, ttl) ==
  LET fits == {i \in Slots : Asking(s, i) /\ s.tab[i].txid = m.txid}
      i == CHOOSE j \in fits : \A k \in fits : j <= k
  IN  IF fits = {} \/ m.server # dns_servers[s.tab[i].server] THEN s
      ELSE dns_correct_response(s, i, ttl, m.name)

\* The first entry that asks with the answer's id decides; an answer that does
\* not fit it is ignored.
dns_recv(s, m, ttl) ==
  LET fits == {i \in Slots : Asking(s, i) /\ s.tab[i].txid = m.txid}
      i == CHOOSE j \in fits : \A k \in fits : j <= k
      e == s.tab[i]
  IN  IF \/ fits = {} \/ m.server # dns_servers[e.server] \/ m.name # e.name THEN s
      ELSE IF m.kind = "answer" THEN dns_correct_response(s, i, ttl, m.name)
      ELSE IF m.kind = "error" /\ dns_backupserver_available(e)
        THEN dns_check_entry([s EXCEPT !.tab[i].retries = MaxRetries - 1, !.tab[i].tmr = 1], i)
      ELSE Fail(s, i)

----------------------------------------------------------------------------
(* The steps.                                                              *)

Now == [tab |-> dns_table, req |-> dns_requests, pcbs |-> dns_pcbs, sent |-> {}, calls |-> {}]

\* A callback ends its user's wait; one for a user who does not wait for this
\* name, or with another name's address, is wrong.
Apply(s, kept, asked) ==
  LET w == [u \in Users |-> IF \E q \in asked : q.user = u
                              THEN (CHOOSE q \in asked : q.user = u).name ELSE waiting[u]]
  IN  /\ dns_table' = s.tab /\ dns_requests' = s.req /\ dns_pcbs' = s.pcbs
      /\ wire' = IF Cardinality(kept \cup s.sent) <= MaxWire THEN kept \cup s.sent ELSE kept
      /\ waiting' = [u \in Users |-> IF \E c \in s.calls : c.user = u THEN None ELSE w[u]]
      /\ wrong' = (wrong \/ \E c \in s.calls : w[c.user] # c.name \/ c.addr \notin {None, c.name})

Cached(name) == \E i \in Slots : dns_table[i].state = "DONE" /\ dns_table[i].name = name

\* The DONE entry dns_enqueue gives up: the oldest one older than zero.
Age(i) == (dns_seqno - dns_table[i].seqno + SeqSpace) % SeqSpace

Evictable == {i \in Slots : dns_table[i].state = "DONE" /\ Age(i) > 0}

Free == {i \in Slots : dns_table[i].state = "UNUSED"}

FirstOf(S) == CHOOSE i \in S : \A j \in S : i <= j

Victim ==
  IF Free # {} THEN FirstOf(Free)
  ELSE FirstOf({i \in Evictable : \A j \in Evictable : Age(j) <= Age(i)})

FreeReqs == {r \in ReqSlots : dns_requests[r].found = Nobody}

\* dns_alloc_pcb: a closed port gets a new number; when there is no pcb to be had
\* (port is 0) an open one is shared, whichever comes after the last one used.
dns_alloc_pcb(port) ==
  LET closed == {p \in ReqSlots : dns_pcbs[p] = 0}
  IN  IF port # 0 /\ closed # {}
        THEN {[pcbs |-> [dns_pcbs EXCEPT ![FirstOf(closed)] = port], i |-> FirstOf(closed)]}
      ELSE {[pcbs |-> dns_pcbs, i |-> p] : p \in ReqSlots \ closed}

TxidsInUse == {dns_table[i].txid : i \in {j \in Slots : Asking(Now, j)}}

InUse == {dns_pcbs[p] : p \in ReqSlots}

\* dns_gethostbyname of a name that is not in the cache, then dns_enqueue.  A
\* name being asked takes one more request; otherwise an entry is filled in.
Lookup(u, name) ==
  LET same == {i \in Slots : Asking(Now, i) /\ dns_table[i].name = name}
      r == FirstOf(FreeReqs)
      ask == {[user |-> u, name |-> name]}
      join == [Now EXCEPT !.req[r] = [found |-> u, idx |-> FirstOf(same)]]
  IN  /\ waiting[u] = None /\ ~Cached(name) /\ dns_servers[0] # None
      /\ FreeReqs # {}
      /\ \/ /\ same # {}
            /\ Apply(join, wire, ask)
            /\ UNCHANGED dns_seqno
         \/ /\ same = {} /\ Free \cup Evictable # {}
            /\ \/ /\ \E txid \in Txids \ TxidsInUse, port \in (Ports \ InUse) \cup {0} :
                       \E o \in dns_alloc_pcb(port) :
                      LET e == [Unused EXCEPT !.state = "NEW", !.name = name, !.seqno = dns_seqno,
                                              !.pcb = o.i]
                          s == [Now EXCEPT !.tab[Victim] = e, !.pcbs = o.pcbs,
                                           !.req[r] = [found |-> u, idx |-> Victim]]
                      IN  Apply(CheckNew(s, Victim, txid), wire, ask)
                  /\ dns_seqno' = (dns_seqno + 1) % SeqSpace
               \/ /\ dns_alloc_pcb(0) = {}     \* ERR_MEM, but the victim is gone
                  /\ Apply([Now EXCEPT !.tab[Victim] = Unused], wire, {})
                  /\ UNCHANGED dns_seqno
      /\ UNCHANGED <<dns_servers, news>>

dns_tmr ==
  /\ Apply(FoldLeft(dns_check_entry, Now, [k \in 1..TableSize |-> k - 1]), wire, {})
  /\ UNCHANGED <<dns_seqno, dns_servers, news>>

\* A server answers a query, with the address, an error or nothing (external), and
\* the answer reaches the query's port, if that is still open.  The query stays to
\* be answered once more at the cost of some news.
Arrive(m) ==
  /\ \E kind \in {"answer", "error", "empty"}, ttl \in {0, Ttl}, kept \in {wire, wire \ {m}} :
       /\ Apply(IF m.port \in InUse THEN dns_recv(Now, [m EXCEPT !.kind = kind], ttl) ELSE Now,
                kept, {})
       /\ IF kept = wire THEN news > 0 /\ news' = news - 1 ELSE UNCHANGED news
  /\ UNCHANGED <<dns_seqno, dns_servers>>

\* dns_setserver, called when a lease is taken: a server comes, goes or changes.
dns_setserver(n, v) ==
  /\ news > 0 /\ news' = news - 1
  /\ dns_servers[n] # v
  /\ dns_servers' = [dns_servers EXCEPT ![n] = v]
  /\ UNCHANGED <<dns_table, dns_requests, dns_pcbs, dns_seqno, wire, waiting, wrong>>

DnsInit ==
  /\ dns_table = [i \in Slots |-> Unused]
  /\ dns_requests = [r \in ReqSlots |-> NoRequest]
  /\ dns_pcbs = [p \in ReqSlots |-> 0]
  /\ dns_seqno = 0
  /\ dns_servers \in {s \in [0..1 -> {"S", None}] : s[0] = "S"}
  /\ wire = {}
  /\ waiting = [u \in Users |-> None]
  /\ wrong = FALSE
  /\ news = MaxNews

DnsNext ==
  \/ \E u \in Users, name \in Names : Lookup(u, name)
  \/ dns_tmr
  \/ \E m \in wire : Arrive(m)
  \/ \E n \in 0..1, v \in {"S", None} : dns_setserver(n, v)

\* The one-second timer runs: as long as a name is being asked, every entry
\* that asks is moved on again and again.
TimerRan == \A i \in Slots : dns_table[i].state = "ASKING" => dns_table'[i] # dns_table[i]

DnsFairness == []<><<TimerRan>>_dnsVars

DnsSpec == DnsInit /\ [][DnsNext]_dnsVars /\ DnsFairness

----------------------------------------------------------------------------
(* Properties.                                                             *)

\* Every callback goes to a user who waits for that very name, once, with the
\* name's own address or with none: an answer to an earlier query of the slot,
\* a repeated one or one for a name that shares the slot is never taken, nor
\* kept in the cache.
CallbackRight ==
  ~wrong /\ \A i \in Slots : dns_table[i].state = "DONE" => dns_table[i].ipaddr = dns_table[i].name

\* A query has an open port to be answered on and an open port a query, and a
\* user waits exactly when one request of an entry that asks holds them.
QueriesBacked ==
  /\ \A i \in Slots : dns_table[i].state = "ASKING" => dns_pcbs[dns_table[i].pcb] # 0
  /\ \A p \in ReqSlots : dns_pcbs[p] # 0
       => \E i \in Slots : dns_table[i].state = "ASKING" /\ dns_table[i].pcb = p
  /\ \A u \in Users : waiting[u] # None
       => \E r \in ReqSlots : /\ dns_requests[r].found = u
                              /\ dns_table[dns_requests[r].idx].state = "ASKING"
                              /\ dns_table[dns_requests[r].idx].name = waiting[u]

Waits(u) == waiting[u] # None
=============================================================================
