------------------------------- MODULE Etharp -------------------------------
(***************************************************************************)
(* The ARP table of the network stack (etharp.c): the search for an entry  *)
(* that also picks the one to recycle, the packet parked on an unresolved  *)
(* entry, the one-entry lookup cache, ageing and re-requests.  One         *)
(* Ethernet interface; ARP_QUEUEING is 0, so an entry parks one packet and *)
(* a newer one replaces it; no static entries.                             *)
(*                                                                         *)
(* `heard` is what a bystander knows: the hardware address each host last  *)
(* gave in an ARP packet this interface received.                          *)
(***************************************************************************)
EXTENDS Integers, FiniteSets

CONSTANTS Hosts,         \* addresses on the local net
          Gateway,       \* the host that routes what is not on the local net
          Macs,
          TableSize,     \* ARP_TABLE_SIZE
          MaxAge,        \* ARP_MAXAGE
          UnicastAge,    \* ARP_AGE_REREQUEST_USED_UNICAST
          MaxPending     \* ARP_MAXPENDING

NoMac == "nomac"

NoHost == "nohost"

ASSUME ArpAssumption ==
  /\ TableSize \in Nat \ {0}
  /\ MaxAge \in Nat \ {0} /\ UnicastAge \in Nat /\ MaxPending \in Nat
  /\ NoMac \notin Macs
  /\ Gateway \in Hosts /\ NoHost \notin Hosts

VARIABLES arp_table, cached, heard

arpVars == <<arp_table, cached, heard>>

Slots == 0..(TableSize - 1)

Stables == {"STABLE", "REREQUESTING_1", "REREQUESTING_2"}

Entry == [state : {"EMPTY", "PENDING"} \cup Stables, ipaddr : Hosts \cup {NoHost},
          ethaddr : Macs \cup {NoMac}, ctime : 0..MaxAge, q : BOOLEAN]

\* The packet parked on the entry is freed; the addresses stay behind.
etharp_free_entry(e) == [e EXCEPT !.state = "EMPTY", !.q = FALSE]

\* The last slot of a kind among the oldest ones: the scan keeps an entry
\* that is as old as the best before it.
Oldest(t, kind) ==
  CHOOSE i \in kind : \A j \in kind : \/ t[j].ctime < t[i].ctime
                                      \/ t[j].ctime = t[i].ctime /\ j <= i

\* The entry etharp_find_entry gives up for a new address.
Victim(t) ==
  LET empty == {i \in Slots : t[i].state = "EMPTY"}
      stable == {i \in Slots : t[i].state \in Stables}
      pending == {i \in Slots : t[i].state = "PENDING" /\ ~t[i].q}
      queued == {i \in Slots : t[i].state = "PENDING" /\ t[i].q}
  IN  CASE empty # {} -> CHOOSE i \in empty : \A j \in empty : i <= j
        [] empty = {} /\ stable # {} -> Oldest(t, stable)
        [] empty = {} /\ stable = {} /\ pending # {} -> Oldest(t, pending)
        [] OTHER -> Oldest(t, queued)

\* Slips one could make in this code.
MutantMatching(t, ip) == {i \in Slots : t[i].state \in Stables /\ t[i].ipaddr = ip}

Matching(t, ip) == {i \in Slots : t[i].state # "EMPTY" /\ t[i].ipaddr = ip}

\* The slot and the table with the slot prepared; slot -1 is ERR_MEM.
etharp_find_entry(t, ip, flag) ==
  LET found == Matching(t, ip)
      full == \A i \in Slots : t[i].state # "EMPTY"
      v == Victim(t)
  IN  IF found # {}
        THEN [i |-> CHOOSE i \in found : \A j \in found : i <= j, t |-> t]
      ELSE IF flag = "FIND_ONLY" \/ (full /\ flag # "TRY_HARD")
        THEN [i |-> -1, t |-> t]
      ELSE [i |-> v, t |-> [t EXCEPT ![v] = [etharp_free_entry(@) EXCEPT !.ipaddr = ip,
                                                                        !.ctime = 0]]]

\* A packet for slot i is sent to the address the slot holds; a used entry
\* that grows old is asked for again, if there is memory for the request (one
\* to its host from UnicastAge on, to all from ARP_AGE_REREQUEST_USED_BROADCAST).
etharp_output_to_arp_index(t, i, mem) ==
  arp_table' = IF t[i].state = "STABLE" /\ t[i].ctime >= UnicastAge /\ mem
                 THEN [t EXCEPT ![i].state = "REREQUESTING_1"] ELSE t

MutantQuery(ip, mem) ==
  LET r == etharp_find_entry(arp_table, ip, "TRY_HARD")
      e == r.t[r.i]
  IN  /\ arp_table' = [r.t EXCEPT ![r.i] =
                         [e EXCEPT !.state = IF e.state = "EMPTY" THEN "PENDING" ELSE @,
                                   !.q = @ \/ mem, !.ctime = 0]]
      /\ UNCHANGED cached

\* The address is not resolved yet: the entry (a new one, or one that is
\* pending) parks the packet, unless there is no memory to copy it.
etharp_query(ip, mem) ==
  LET r == etharp_find_entry(arp_table, ip, "TRY_HARD")
      e == r.t[r.i]
  IN  /\ arp_table' = [r.t EXCEPT ![r.i] =
                         [e EXCEPT !.state = IF e.state = "EMPTY" THEN "PENDING" ELSE @,
                                   !.q = @ \/ mem]]
      /\ UNCHANGED cached

\* The slots the cache and the scan of etharp_output accept for an address.
CacheHits(ip) ==
  arp_table[cached].state \in Stables /\ arp_table[cached].ipaddr = ip

Resolved(ip) == {i \in Slots : arp_table[i].state \in Stables /\ arp_table[i].ipaddr = ip}

\* Broadcast and multicast packets need no entry and are left out.
etharp_output(ip, mem) ==
  LET dst == IF ip \in Hosts THEN ip ELSE Gateway
      i == CHOOSE j \in Resolved(dst) : \A k \in Resolved(dst) : j <= k
  IN  /\ \/ /\ CacheHits(dst)
            /\ etharp_output_to_arp_index(arp_table, cached, mem)
            /\ UNCHANGED cached
         \/ /\ ~CacheHits(dst) /\ Resolved(dst) # {}
            /\ cached' = i
            /\ etharp_output_to_arp_index(arp_table, i, mem)
         \/ ~CacheHits(dst) /\ Resolved(dst) = {} /\ etharp_query(dst, mem)
      /\ UNCHANGED heard

\* The entry learns the sender's address, and its parked packet leaves.
etharp_update_arp_entry(ip, mac, flag) ==
  LET r == etharp_find_entry(arp_table, ip, flag)
  IN  arp_table' = IF r.i = -1 THEN arp_table
                   ELSE [r.t EXCEPT ![r.i] = [@ EXCEPT !.state = "STABLE",
                                        !.ethaddr = mac, !.ctime = 0, !.q = FALSE]]

\* An ARP packet of another host, for this host's address or not.  A reply
\* to a request changes nothing here.
etharp_input(ip, mac, for_us) ==
  /\ etharp_update_arp_entry(ip, mac, IF for_us THEN "TRY_HARD" ELSE "FIND_ONLY")
  /\ heard' = [heard EXCEPT ![ip] = mac]
  /\ UNCHANGED cached

Aged(e) ==
  LET f == [e EXCEPT !.ctime = @ + 1]
  IN  IF e.state = "EMPTY" THEN e
      ELSE IF f.ctime >= MaxAge \/ (e.state = "PENDING" /\ f.ctime >= MaxPending)
        THEN etharp_free_entry(f)
      ELSE CASE e.state = "REREQUESTING_1" -> [f EXCEPT !.state = "REREQUESTING_2"]
             [] e.state = "REREQUESTING_2" -> [f EXCEPT !.state = "STABLE"]
             [] OTHER -> f

etharp_tmr ==
  /\ arp_table' = [i \in Slots |-> Aged(arp_table[i])]
  /\ UNCHANGED <<cached, heard>>

ArpInit ==
  /\ arp_table = [i \in Slots |-> [state |-> "EMPTY", ipaddr |-> NoHost,
                                   ethaddr |-> NoMac, ctime |-> 0, q |-> FALSE]]
  /\ cached = 0
  /\ heard = [h \in Hosts |-> NoMac]

ArpNext ==
  \/ \E ip \in Hosts \cup {NoHost}, mem \in BOOLEAN : etharp_output(ip, mem)
  \/ \E ip \in Hosts, mac \in Macs, for_us \in BOOLEAN : etharp_input(ip, mac, for_us)
  \/ etharp_tmr

\* The timer runs however busy the interface is.
ArpFairness == WF_arpVars(etharp_tmr)

ArpSpec == ArpInit /\ [][ArpNext]_arpVars /\ ArpFairness

----------------------------------------------------------------------------
(* Properties.                                                             *)

ArpTypeOK ==
  /\ arp_table \in [Slots -> Entry] /\ cached \in Slots
  /\ heard \in [Hosts -> Macs \cup {NoMac}]

\* Every packet that leaves for a host goes to the hardware address that host
\* gave last, whether the slot was found by the scan or by the lookup cache, and
\* whatever the slot was used for before.
SentToLastHeard ==
  \A h \in Hosts :
    \A i \in Resolved(h) \cup (IF CacheHits(h) THEN {cached} ELSE {}) :
      arp_table[i].ethaddr = heard[h] /\ heard[h] # NoMac

\* An address has one entry at most, and an entry parks a packet only while it
\* waits: the table holds no second, older answer (what the assertion on
\* arp_table[i].q in etharp_find_entry relies on).
OneEntryPerHost ==
  /\ \A i, j \in Slots :
       /\ arp_table[i].state # "EMPTY" /\ arp_table[j].state # "EMPTY"
       /\ arp_table[i].ipaddr = arp_table[j].ipaddr
       => i = j
  /\ \A i \in Slots : arp_table[i].q => arp_table[i].state = "PENDING"

\* Every packet goes to the hardware address its host gave last (etharp_output,
\* etharp_output_to_arp_index), and no host has two entries (etharp_find_entry).
TableSound == SentToLastHeard /\ OneEntryPerHost

\* An entry in use is younger than the age at which the timer frees it.
EntriesYoung ==
  \A i \in Slots : arp_table[i].state # "EMPTY" => arp_table[i].ctime < MaxAge

Parked(i, h) == arp_table[i].q /\ arp_table[i].ipaddr = h
=============================================================================
