-------------------------------- MODULE Arp --------------------------------
(* The ARP table of an interface and the requests waiting for an answer        *)
(* (networking/stack/arp.rs). Table and queue have a mutex each; arp_translate *)
(* takes one after the other.                                                 *)
EXTENDS Integers, Sequences, SequencesExt

CONSTANTS
  Macs, Ips,
  Tasks,        \* callers of arp_translate
  NoIp,
  MaxRequests   \* bound: requests queued; the code never removes one

VARIABLES
  entries,      \* ArpTable: sequence of [mac, ip]
  queue,        \* NetQueue: sequence of [ip, old], old once 500 ms have passed
  asking        \* the ip of a translation between its two sections

vars == <<entries, queue, asking>>

TypeOK ==
  /\ entries \in Seq([mac : Macs, ip : Ips])
  /\ queue \in Seq([ip : Ips, old : BOOLEAN])
  /\ asking \in [Tasks -> Ips \cup {NoIp}]

Init == entries = <<>> /\ queue = <<>> /\ asking = [t \in Tasks |-> NoIp]

-----------------------------------------------------------------------------
Conflicting(mac, ip) ==
  {n \in 1 .. Len(entries) : entries[n].ip = ip \/ entries[n].mac = mac}

First(S) == CHOOSE n \in S : \A k \in S : n <= k

\* lookup: the oldest entry with this ip answers.
Known(ip) == \E n \in 1 .. Len(entries) : entries[n].ip = ip

\* arp_table_add
Add(mac, ip) ==
  /\ LET old == Conflicting(mac, ip)
         kept == IF old = {} THEN entries ELSE RemoveAt(entries, First(old))
     IN  entries' = Append(kept, [mac |-> mac, ip |-> ip])
  /\ UNCHANGED <<queue, asking>>

\* arp_translate, the table: an entry ends the call.
Lookup(t, ip) ==
  /\ asking[t] = NoIp
  /\ ~Known(ip)
  /\ asking' = [asking EXCEPT ![t] = ip]
  /\ UNCHANGED <<entries, queue>>

\* arp_translate, the queue: a request is sent unless the oldest one for this ip
\* is younger than 500 ms.
SendRequest(ip) ==
  LET same == {n \in 1 .. Len(queue) : queue[n].ip = ip}
  IN  same = {} \/ queue[First(same)].old

Ask(t) ==
  /\ asking[t] # NoIp
  /\ SendRequest(asking[t]) => Len(queue) < MaxRequests
  /\ queue' = IF SendRequest(asking[t])
              THEN Append(queue, [ip |-> asking[t], old |-> FALSE]) ELSE queue
  /\ asking' = [asking EXCEPT ![t] = NoIp]
  /\ UNCHANGED entries

\* 500 ms pass.
Age ==
  /\ queue' = [n \in 1 .. Len(queue) |-> [queue[n] EXCEPT !.old = TRUE]]
  /\ UNCHANGED <<entries, asking>>

Next ==
  \/ \E mac \in Macs, ip \in Ips : Add(mac, ip)
  \/ \E t \in Tasks, ip \in Ips : Lookup(t, ip)
  \/ \E t \in Tasks : Ask(t)
  \/ Age

Spec == Init /\ [][Next]_vars
-----------------------------------------------------------------------------
\* "Remove any conflicting entry" (arp.rs:52): after an add no two entries share
\* an address, so lookup answers with the one heard last.
NoConflictLeft ==
  \A n, k \in 1 .. Len(entries) :
     entries[n].ip = entries[k].ip \/ entries[n].mac = entries[k].mac => n = k
=============================================================================
