---------------------------- MODULE NetworkProofs ---------------------------
(***************************************************************************)
(* The ARP table is sound for a table of any size, any hosts and any       *)
(* ageing limits, whichever entry is given up when the table is full; and  *)
(* the DHCP client never uses an address it has declined, whatever the     *)
(* servers, the other hosts and the link do.                               *)
(***************************************************************************)
EXTENDS Etharp, Dhcp, TLAPS

ArpInv == ArpTypeOK /\ EntriesYoung /\ TableSound

\* A new address takes a slot only when no slot holds it: the table that
\* etharp_find_entry leaves is typed, young and has one entry per host, the slot
\* it returns holds the address asked for, and no other slot has changed.
FindGood(r, ip) ==
  /\ r.t \in [Slots -> Entry]
  /\ \A j \in Slots : r.t[j].state # "EMPTY" => r.t[j] = arp_table[j]
  /\ \A j \in Slots : r.t[j].q => r.t[j].state = "PENDING"
  /\ r.i \in Slots => /\ r.t[r.i].ipaddr = ip
                      /\ r.t[r.i].ctime < MaxAge
                      /\ \A j \in Slots \ {r.i} : r.t[j] = arp_table[j]
                      /\ \A j \in Slots \ {r.i} : r.t[j].state # "EMPTY" => r.t[j].ipaddr # ip
  /\ r.i \notin Slots => r.t = arp_table /\ Matching(arp_table, ip) = {}

\* etharp_find_entry, whatever its flag and whichever entry it recycles.
LEMMA FindEntry ==
  ASSUME ArpInv, NEW ip \in Hosts, NEW flag
  PROVE  FindGood(etharp_find_entry(arp_table, ip, flag), ip)
<1> DEFINE found == Matching(arp_table, ip)
           first == CHOOSE i \in found : \A j \in found : i <= j
           v == Victim(arp_table)
           fresh(e) == [etharp_free_entry(e) EXCEPT !.ipaddr = ip, !.ctime = 0]
           r == etharp_find_entry(arp_table, ip, flag)
<1> SUFFICES FindGood(r, ip)
  OBVIOUS
<1>t. arp_table \in [Slots -> Entry] /\ Slots \subseteq Int
  BY ArpAssumption DEF ArpInv, ArpTypeOK, Slots
<1>q. /\ \A j \in Slots : arp_table[j].q => arp_table[j].state = "PENDING"
      /\ \A i, j \in Slots : /\ arp_table[i].state # "EMPTY" /\ arp_table[j].state # "EMPTY"
                             /\ arp_table[i].ipaddr = arp_table[j].ipaddr
                             => i = j
  BY DEF ArpInv, TableSound, OneEntryPerHost
<1>y. \A j \in Slots : arp_table[j].state # "EMPTY" => arp_table[j].ctime < MaxAge
  BY DEF ArpInv, EntriesYoung
<1>1. CASE found # {}
  <2>1. r = [i |-> first, t |-> arp_table]
    BY <1>1 DEF etharp_find_entry
  <2>2. PICK k \in Slots : found = {k}
    BY <1>1, <1>q DEF Matching
  <2>3. first = k
    BY <2>2, <1>t
  <2>4. /\ k \in Slots /\ arp_table[k].ipaddr = ip /\ arp_table[k].state # "EMPTY"
        /\ \A j \in Slots \ {k} : arp_table[j].state # "EMPTY" => arp_table[j].ipaddr # ip
    BY <2>2 DEF Matching
  <2>5. r.i = k /\ r.t = arp_table
    BY <2>1, <2>3
  <2> HIDE DEF r
  <2> QED
    BY <2>4, <2>5, <1>t, <1>q, <1>y DEF FindGood
<1>2. CASE found = {} /\ (flag = "FIND_ONLY" \/ ((\A i \in Slots : arp_table[i].state # "EMPTY")
                                                /\ flag # "TRY_HARD"))
  <2>1. r = [i |-> -1, t |-> arp_table]
    BY <1>2 DEF etharp_find_entry
  <2>2. r.i = -1 /\ r.t = arp_table /\ -1 \notin Slots
    BY <2>1, ArpAssumption DEF Slots
  <2> HIDE DEF r
  <2> QED
    BY <1>2, <2>2, <1>t, <1>q DEF FindGood
<1>3. CASE found = {} /\ ~(flag = "FIND_ONLY" \/ ((\A i \in Slots : arp_table[i].state # "EMPTY")
                                                 /\ flag # "TRY_HARD"))
  <2>1. r = [i |-> v, t |-> [arp_table EXCEPT ![v] = fresh(arp_table[v])]]
    BY <1>3 DEF etharp_find_entry
  <2>2. r.i = v /\ r.t = [arp_table EXCEPT ![v] = fresh(arp_table[v])]
    BY <2>1
  <2>3. \A e \in Entry : /\ fresh(e) \in Entry /\ fresh(e).state = "EMPTY"
                         /\ fresh(e).q = FALSE /\ fresh(e).ipaddr = ip /\ fresh(e).ctime = 0
    <3> TAKE e \in Entry
    <3>1. /\ etharp_free_entry(e) \in Entry
          /\ etharp_free_entry(e).state = "EMPTY" /\ etharp_free_entry(e).q = FALSE
      BY Zenon DEF Entry, etharp_free_entry
    <3>2. 0 \in 0..MaxAge
      BY ArpAssumption
    <3> QED
      BY Zenon, <3>1, <3>2 DEF Entry
  <2>4. \A j \in Slots : arp_table[j].state # "EMPTY" => arp_table[j].ipaddr # ip
    BY <1>3 DEF Matching
  <2> HIDE DEF r, v, fresh
  <2>5. CASE v \in Slots
    <3>1. r.t \in [Slots -> Entry] /\ r.t[v] = fresh(arp_table[v])
          /\ \A j \in Slots \ {v} : r.t[j] = arp_table[j]
      BY <2>5, <2>2, <2>3, <1>t
    <3>2. arp_table[v] \in Entry
      BY <2>5, <1>t
    <3>3. /\ r.t[v].state = "EMPTY" /\ r.t[v].q = FALSE
          /\ r.t[v].ipaddr = ip /\ r.t[v].ctime = 0
      BY <3>1, <3>2, <2>3
    <3> QED
      BY <2>5, <2>2, <3>1, <3>3, <2>4, <1>q, ArpAssumption DEF FindGood
  <2>6. CASE v \notin Slots
    <3>1. r.t = arp_table
      BY <2>6, <2>2, <1>t
    <3> QED
      BY Zenon, <1>3, <2>6, <2>2, <3>1, <1>t, <1>q DEF FindGood
  <2> QED
    BY <2>5, <2>6
<1> QED
  BY <1>1, <1>2, <1>3

\* A slot got from etharp_find_entry may be given any entry for the address it was
\* asked for that is young, parks only while it waits, and is resolved only to
\* what the host said last.
LEMMA Stored ==
  ASSUME ArpInv, NEW ip \in Hosts, NEW n \in Slots, NEW e \in Entry,
         e.ipaddr = ip, e.ctime < MaxAge, e.q => e.state = "PENDING",
         arp_table' \in [Slots -> Entry], arp_table'[n] = e,
         \A j \in Slots : j # n => arp_table'[j] = arp_table[j],
         \A j \in Slots : j # n /\ arp_table[j].state # "EMPTY" => arp_table[j].ipaddr # ip,
         cached' \in Slots, heard' \in [Hosts -> Macs \cup {NoMac}],
         \A h \in Hosts : h # ip => heard'[h] = heard[h],
         e.state \in Stables => e.ethaddr = heard'[ip] /\ heard'[ip] # NoMac
  PROVE  ArpInv'
<1>0. /\ \A j \in Slots : arp_table[j].state # "EMPTY" => arp_table[j].ctime < MaxAge
      /\ \A j \in Slots : arp_table[j].q => arp_table[j].state = "PENDING"
      /\ \A i, j \in Slots : /\ arp_table[i].state # "EMPTY" /\ arp_table[j].state # "EMPTY"
                             /\ arp_table[i].ipaddr = arp_table[j].ipaddr
                             => i = j
      /\ \A h \in Hosts, j \in Slots :
           arp_table[j].state \in Stables /\ arp_table[j].ipaddr = h =>
             arp_table[j].ethaddr = heard[h] /\ heard[h] # NoMac
  BY DEF ArpInv, EntriesYoung, TableSound, OneEntryPerHost, SentToLastHeard, Resolved
<1>3. ArpTypeOK'
  BY DEF ArpTypeOK, Slots
<1>4. EntriesYoung'
  BY <1>0 DEF EntriesYoung
<1>5. OneEntryPerHost'
  BY <1>0 DEF OneEntryPerHost
<1>6. SentToLastHeard'
  <2> SUFFICES ASSUME NEW h \in Hosts, NEW j \in Slots,
                      arp_table'[j].state \in Stables, arp_table'[j].ipaddr = h
               PROVE  arp_table'[j].ethaddr = heard'[h] /\ heard'[h] # NoMac
    BY DEF SentToLastHeard, Resolved, CacheHits, Slots, Stables
  <2>1. CASE j = n
    BY <2>1
  <2>2. CASE j # n
    <3>1. arp_table'[j] = arp_table[j] /\ arp_table[j].ipaddr = h
      BY <2>2
    <3>2. arp_table[j].state # "EMPTY"
      BY <3>1 DEF Stables
    <3>3. h # ip
      BY <2>2, <3>1, <3>2
    <3> QED
      BY <3>1, <3>3, <1>0
  <2> QED
    BY <2>1, <2>2
<1> QED
  BY <1>3, <1>4, <1>5, <1>6 DEF ArpInv, TableSound

\* Where the table stays as it is, only the host that has no entry may have spoken.
LEMMA Kept ==
  ASSUME ArpInv, arp_table' = arp_table, cached' \in Slots,
         heard' \in [Hosts -> Macs \cup {NoMac}],
         \A h \in Hosts : heard'[h] = heard[h] \/ Matching(arp_table, h) = {}
  PROVE  ArpInv'
<1>1. ArpTypeOK' /\ EntriesYoung' /\ OneEntryPerHost'
  BY DEF ArpInv, ArpTypeOK, EntriesYoung, TableSound, OneEntryPerHost, Slots
<1>2. SentToLastHeard'
  <2> SUFFICES ASSUME NEW h \in Hosts, NEW j \in Slots,
                      arp_table[j].state \in Stables, arp_table[j].ipaddr = h
               PROVE  arp_table[j].ethaddr = heard'[h] /\ heard'[h] # NoMac
    BY DEF SentToLastHeard, Resolved, CacheHits, Slots, Stables
  <2>1. arp_table[j].state # "EMPTY"
    BY DEF Stables
  <2>2. heard'[h] = heard[h]
    BY <2>1 DEF Matching
  <2> QED
    BY <2>2 DEF ArpInv, TableSound, SentToLastHeard, Resolved
<1> QED
  BY <1>1, <1>2 DEF ArpInv, TableSound

\* A packet that cannot be sent yet is parked on the entry of its address.
LEMMA QuerySafe ==
  ASSUME ArpInv, NEW ip \in Hosts, NEW mem \in BOOLEAN, Resolved(ip) = {},
         etharp_query(ip, mem), UNCHANGED heard
  PROVE  ArpInv'
<1> DEFINE r == etharp_find_entry(arp_table, ip, "TRY_HARD")
           e == r.t[r.i]
           w == [e EXCEPT !.state = IF e.state = "EMPTY" THEN "PENDING" ELSE @,
                          !.q = @ \/ mem]
<1>1. FindGood(r, ip)
  BY FindEntry
<1>2. arp_table' = [r.t EXCEPT ![r.i] = w] /\ cached' = cached
  BY DEF etharp_query
<1>3. /\ cached' \in Slots /\ heard' \in [Hosts -> Macs \cup {NoMac}]
      /\ \A h \in Hosts : heard'[h] = heard[h]
  BY <1>2 DEF ArpInv, ArpTypeOK
<1> HIDE DEF r
<1>4. CASE r.i \in Slots
  <2>1. /\ r.t \in [Slots -> Entry] /\ e \in Entry
        /\ e.ipaddr = ip /\ e.ctime < MaxAge /\ (e.q => e.state = "PENDING")
        /\ e.state # "EMPTY" => e = arp_table[r.i]
        /\ \A j \in Slots : j # r.i => r.t[j] = arp_table[j]
        /\ \A j \in Slots : j # r.i /\ r.t[j].state # "EMPTY" => r.t[j].ipaddr # ip
    BY <1>1, <1>4 DEF FindGood
  <2>2. e.state \in {"EMPTY", "PENDING"}
    BY <2>1, <1>4 DEF Resolved, Entry
  <2> HIDE DEF e
  <2>3. w \in Entry /\ w.ipaddr = ip /\ w.ctime < MaxAge /\ w.state = "PENDING"
    BY Zenon, <2>1, <2>2 DEF Entry
  <2>4. w.state \notin Stables
    BY <2>3 DEF Stables
  <2> HIDE DEF w
  <2>5. /\ arp_table' \in [Slots -> Entry] /\ arp_table'[r.i] = w
        /\ \A j \in Slots : j # r.i => arp_table'[j] = arp_table[j]
    BY <1>2, <1>4, <2>1, <2>3
  <2>6. \A j \in Slots : j # r.i /\ arp_table[j].state # "EMPTY" => arp_table[j].ipaddr # ip
    BY <2>1
  <2> DEFINE n == r.i
  <2>7. n \in Slots
    BY <1>4
  <2> HIDE DEF n
  <2>8. /\ arp_table'[n] = w
        /\ \A j \in Slots : j # n => arp_table'[j] = arp_table[j]
        /\ \A j \in Slots : j # n /\ arp_table[j].state # "EMPTY" => arp_table[j].ipaddr # ip
    BY <2>5, <2>6 DEF n
  <2> QED
    BY <1>3, <2>3, <2>4, <2>5, <2>7, <2>8, Stored
<1>5. CASE r.i \notin Slots
  <2>1. arp_table' = arp_table
    BY <1>1, <1>2, <1>5 DEF FindGood
  <2> QED
    BY <2>1, <1>3, Kept
<1> QED
  BY <1>4, <1>5

\* What an ARP packet says is stored in the entry of its sender, if it has one.
LEMMA InputSafe ==
  ASSUME ArpInv, NEW ip \in Hosts, NEW mac \in Macs, NEW for_us \in BOOLEAN,
         etharp_input(ip, mac, for_us)
  PROVE  ArpInv'
<1> DEFINE flag == IF for_us THEN "TRY_HARD" ELSE "FIND_ONLY"
           r == etharp_find_entry(arp_table, ip, flag)
           e == r.t[r.i]
           w == [e EXCEPT !.state = "STABLE", !.ethaddr = mac, !.ctime = 0, !.q = FALSE]
<1>1. FindGood(r, ip)
  BY FindEntry
<1>2. arp_table' = IF r.i = -1 THEN arp_table ELSE [r.t EXCEPT ![r.i] = w]
  BY DEF etharp_input, etharp_update_arp_entry
<1>3. /\ cached' \in Slots /\ heard' \in [Hosts -> Macs \cup {NoMac}] /\ heard'[ip] = mac
      /\ \A h \in Hosts : h # ip => heard'[h] = heard[h]
  BY DEF etharp_input, ArpInv, ArpTypeOK
<1>m. heard'[ip] # NoMac
  BY <1>3, ArpAssumption
<1> HIDE DEF r
<1>4. CASE r.i \in Slots
  <2> DEFINE n == r.i
  <2>1. /\ r.t \in [Slots -> Entry] /\ e \in Entry /\ e.ipaddr = ip
        /\ \A j \in Slots : j # r.i => r.t[j] = arp_table[j]
        /\ \A j \in Slots : j # r.i /\ r.t[j].state # "EMPTY" => r.t[j].ipaddr # ip
    BY <1>1, <1>4 DEF FindGood
  <2>2. 0 \in 0..MaxAge /\ 0 < MaxAge /\ r.i # -1
    BY ArpAssumption, <1>4 DEF Slots
  <2> HIDE DEF e
  <2>3. /\ w \in Entry /\ w.ipaddr = ip /\ w.ctime < MaxAge /\ w.q = FALSE
        /\ w.ethaddr = mac
    BY Zenon, <2>1, <2>2 DEF Entry, Stables
  <2> HIDE DEF w
  <2>4. /\ arp_table' \in [Slots -> Entry] /\ arp_table'[r.i] = w
        /\ \A j \in Slots : j # r.i => arp_table'[j] = arp_table[j]
    BY <1>2, <1>4, <2>1, <2>2, <2>3
  <2>5. /\ n \in Slots /\ arp_table'[n] = w
        /\ \A j \in Slots : j # n => arp_table'[j] = arp_table[j]
        /\ \A j \in Slots : j # n /\ arp_table[j].state # "EMPTY" => arp_table[j].ipaddr # ip
    BY <1>4, <2>1, <2>4
  <2> HIDE DEF n
  <2> QED
    BY <1>3, <1>m, <2>3, <2>4, <2>5, Stored
<1>5. CASE r.i \notin Slots
  <2>1. arp_table' = arp_table /\ Matching(arp_table, ip) = {}
    BY <1>1, <1>2, <1>5 DEF FindGood
  <2> QED
    BY <2>1, <1>3, Kept
<1> QED
  BY <1>4, <1>5

\* A packet sent through a resolved entry leaves its address as it is.
LEMMA SendSafe ==
  ASSUME ArpInv, NEW ip \in Hosts, NEW n \in Resolved(ip), NEW mem \in BOOLEAN,
         etharp_output_to_arp_index(arp_table, n, mem), cached' \in Slots, UNCHANGED heard
  PROVE  ArpInv'
<1> DEFINE w == [arp_table[n] EXCEPT !.state = "REREQUESTING_1"]
<1>1. /\ n \in Slots /\ arp_table \in [Slots -> Entry] /\ arp_table[n] \in Entry
      /\ arp_table[n].state \in Stables /\ arp_table[n].ipaddr = ip
  BY DEF ArpInv, ArpTypeOK, Resolved
<1>2. /\ heard' \in [Hosts -> Macs \cup {NoMac}] /\ heard' = heard
      /\ arp_table[n].ethaddr = heard[ip] /\ heard[ip] # NoMac
  BY DEF ArpInv, ArpTypeOK, TableSound, SentToLastHeard
<1>3. CASE arp_table[n].state = "STABLE" /\ arp_table[n].ctime >= UnicastAge /\ mem
  <2>1. arp_table' = [arp_table EXCEPT ![n] = w]
    BY <1>3 DEF etharp_output_to_arp_index
  <2>2. ~arp_table[n].q /\ arp_table[n].ctime < MaxAge
    BY <1>1, <1>3 DEF ArpInv, TableSound, OneEntryPerHost, EntriesYoung
  <2>3. /\ w \in Entry /\ w.ipaddr = ip /\ w.ctime < MaxAge /\ ~w.q
        /\ w.ethaddr = heard'[ip]
    BY <1>1, <1>2, <2>2 DEF Entry, Stables
  <2> HIDE DEF w
  <2>4. /\ arp_table' \in [Slots -> Entry] /\ arp_table'[n] = w
        /\ \A j \in Slots : j # n => arp_table'[j] = arp_table[j]
    BY <2>1, <2>3, <1>1
  <2>5. \A j \in Slots : j # n /\ arp_table[j].state # "EMPTY" => arp_table[j].ipaddr # ip
    BY <1>1, <1>3 DEF ArpInv, TableSound, OneEntryPerHost
  <2> QED
    BY <1>1, <1>2, <2>3, <2>4, <2>5, Stored
<1>4. CASE ~(arp_table[n].state = "STABLE" /\ arp_table[n].ctime >= UnicastAge /\ mem)
  <2>1. arp_table' = arp_table
    BY <1>4 DEF etharp_output_to_arp_index
  <2> QED
    BY <2>1, <1>2, Kept
<1> QED
  BY <1>3, <1>4

\* The slot comes from the cache, from the scan, or from etharp_query.
LEMMA OutputSafe ==
  ASSUME ArpInv, NEW ip \in Hosts \cup {NoHost}, NEW mem \in BOOLEAN, etharp_output(ip, mem)
  PROVE  ArpInv'
<1> DEFINE dst == IF ip \in Hosts THEN ip ELSE Gateway
           i == CHOOSE j \in Resolved(dst) : \A k \in Resolved(dst) : j <= k
<1>1. dst \in Hosts /\ cached \in Slots /\ Slots \subseteq Int
  BY ArpAssumption DEF ArpInv, ArpTypeOK, Slots
<1>2. /\ UNCHANGED heard
      /\ \/ /\ CacheHits(dst)
            /\ etharp_output_to_arp_index(arp_table, cached, mem) /\ UNCHANGED cached
         \/ /\ Resolved(dst) # {} /\ cached' = i
            /\ etharp_output_to_arp_index(arp_table, i, mem)
         \/ Resolved(dst) = {} /\ etharp_query(dst, mem)
  BY DEF etharp_output
<1>3. ASSUME Resolved(dst) # {} PROVE i \in Resolved(dst) /\ i \in Slots
  <2>1. PICK n \in Slots : Resolved(dst) = {n}
    BY <1>3 DEF Resolved, Stables, ArpInv, TableSound, OneEntryPerHost
  <2>2. i = n
    BY <2>1, <1>1
  <2> QED
    BY Zenon, <2>1, <2>2
<1>4. CacheHits(dst) => cached \in Resolved(dst)
  BY <1>1 DEF CacheHits, Resolved
<1> HIDE DEF dst, i
<1>5. CASE /\ CacheHits(dst)
           /\ etharp_output_to_arp_index(arp_table, cached, mem) /\ UNCHANGED cached
  BY <1>1, <1>2, <1>4, <1>5, SendSafe
<1>6. CASE /\ Resolved(dst) # {} /\ cached' = i
           /\ etharp_output_to_arp_index(arp_table, i, mem)
  BY <1>1, <1>2, <1>3, <1>6, SendSafe
<1>7. CASE Resolved(dst) = {} /\ etharp_query(dst, mem)
  BY <1>1, <1>2, <1>7, QuerySafe
<1> QED
  BY <1>2, <1>5, <1>6, <1>7

\* What the timer does to an entry: it ages, it is asked for again, or it is freed.
LEMMA AgedEntry ==
  ASSUME NEW e \in Entry, e.state # "EMPTY" => e.ctime < MaxAge,
         e.q => e.state = "PENDING"
  PROVE  /\ Aged(e) \in Entry
         /\ Aged(e).ipaddr = e.ipaddr /\ Aged(e).ethaddr = e.ethaddr
         /\ Aged(e).state # "EMPTY" => Aged(e).ctime < MaxAge /\ e.state # "EMPTY"
         /\ Aged(e).state \in Stables => e.state \in Stables
         /\ Aged(e).q => Aged(e).state = "PENDING"
<1> DEFINE f == [e EXCEPT !.ctime = @ + 1]
<1>1. CASE e.state = "EMPTY"
  <2>1. Aged(e) = e
    BY <1>1 DEF Aged
  <2> QED
    BY <2>1, <1>1
<1>2. CASE e.state # "EMPTY"
  <2>1. e.ctime + 1 \in 0..MaxAge
    BY <1>2, ArpAssumption DEF Entry
  <2>2. /\ f \in Entry /\ f.state = e.state /\ f.ipaddr = e.ipaddr
        /\ f.ethaddr = e.ethaddr /\ f.q = e.q
    BY <2>1 DEF Entry
  <2>3. f.ctime \in 0..MaxAge /\ (f.ctime < MaxAge \/ f.ctime >= MaxAge)
    BY <2>2, ArpAssumption DEF Entry
  <2>4. \/ Aged(e) = etharp_free_entry(f)
        \/ /\ e.state = "REREQUESTING_1" /\ f.ctime < MaxAge
           /\ Aged(e) = [f EXCEPT !.state = "REREQUESTING_2"]
        \/ /\ e.state = "REREQUESTING_2" /\ f.ctime < MaxAge
           /\ Aged(e) = [f EXCEPT !.state = "STABLE"]
        \/ Aged(e) = f /\ f.ctime < MaxAge
    BY <1>2, <2>3 DEF Aged
  <2> HIDE DEF f
  <2>5. CASE Aged(e) = etharp_free_entry(f)
    <3>1. /\ Aged(e) \in Entry /\ Aged(e).state = "EMPTY" /\ ~Aged(e).q
          /\ Aged(e).ipaddr = e.ipaddr /\ Aged(e).ethaddr = e.ethaddr
      BY Zenon, <2>2, <2>5 DEF etharp_free_entry, Entry
    <3> QED
      BY <3>1 DEF Stables
  <2>6. ASSUME NEW s \in Stables, f.ctime < MaxAge, e.state \in Stables,
               Aged(e) = [f EXCEPT !.state = s]
        PROVE  /\ Aged(e) \in Entry
               /\ Aged(e).ipaddr = e.ipaddr /\ Aged(e).ethaddr = e.ethaddr
               /\ Aged(e).ctime < MaxAge /\ Aged(e).q = e.q
    BY <2>2, <2>6 DEF Entry
  <2>7. e.state \in Stables => ~e.q
    BY DEF Stables, Entry
  <2>8. CASE /\ e.state = "REREQUESTING_1" /\ f.ctime < MaxAge
             /\ Aged(e) = [f EXCEPT !.state = "REREQUESTING_2"]
    <3>1. "REREQUESTING_2" \in Stables /\ e.state \in Stables
      BY <2>8 DEF Stables
    <3> QED
      BY <2>6, <2>7, <2>8, <3>1, <1>2
  <2>9. CASE /\ e.state = "REREQUESTING_2" /\ f.ctime < MaxAge
             /\ Aged(e) = [f EXCEPT !.state = "STABLE"]
    <3>1. "STABLE" \in Stables /\ e.state \in Stables
      BY <2>9 DEF Stables
    <3> QED
      BY <2>6, <2>7, <2>9, <3>1, <1>2
  <2>10. CASE Aged(e) = f /\ f.ctime < MaxAge
    BY <2>2, <2>10, <1>2
  <2> QED
    BY <2>4, <2>5, <2>8, <2>9, <2>10
<1> QED
  BY <1>1, <1>2

\* The timer ages every entry and creates none.
LEMMA TmrSafe == ArpInv /\ etharp_tmr => ArpInv'
<1> SUFFICES ASSUME ArpInv, etharp_tmr PROVE ArpInv'
  OBVIOUS
<1>1. /\ arp_table \in [Slots -> Entry] /\ cached' = cached /\ heard' = heard
      /\ arp_table' = [i \in Slots |-> Aged(arp_table[i])]
  BY DEF ArpInv, ArpTypeOK, etharp_tmr
<1>2. \A i \in Slots : /\ arp_table[i].state # "EMPTY" => arp_table[i].ctime < MaxAge
                       /\ arp_table[i].q => arp_table[i].state = "PENDING"
  BY DEF ArpInv, EntriesYoung, TableSound, OneEntryPerHost
<1>3. \A i \in Slots :
        /\ arp_table'[i] \in Entry
        /\ arp_table'[i].ipaddr = arp_table[i].ipaddr
        /\ arp_table'[i].ethaddr = arp_table[i].ethaddr
        /\ arp_table'[i].state # "EMPTY" =>
             arp_table'[i].ctime < MaxAge /\ arp_table[i].state # "EMPTY"
        /\ arp_table'[i].state \in Stables => arp_table[i].state \in Stables
        /\ arp_table'[i].q => arp_table'[i].state = "PENDING"
  <2> TAKE i \in Slots
  <2>1. arp_table[i] \in Entry /\ arp_table'[i] = Aged(arp_table[i])
    BY <1>1
  <2>2. /\ arp_table[i].state # "EMPTY" => arp_table[i].ctime < MaxAge
        /\ arp_table[i].q => arp_table[i].state = "PENDING"
    BY <1>2
  <2> DEFINE e == arp_table[i]
  <2>3. /\ Aged(e) \in Entry
        /\ Aged(e).ipaddr = e.ipaddr /\ Aged(e).ethaddr = e.ethaddr
        /\ Aged(e).state # "EMPTY" => Aged(e).ctime < MaxAge /\ e.state # "EMPTY"
        /\ Aged(e).state \in Stables => e.state \in Stables
        /\ Aged(e).q => Aged(e).state = "PENDING"
    BY <2>1, <2>2, AgedEntry
  <2> QED
    BY <2>1, <2>3
<1>4. ArpTypeOK' /\ EntriesYoung'
  BY <1>1, <1>3 DEF ArpInv, ArpTypeOK, EntriesYoung, Slots
<1>5. OneEntryPerHost'
  BY <1>3 DEF ArpInv, TableSound, OneEntryPerHost
<1>6. SentToLastHeard'
  <2> SUFFICES ASSUME NEW h \in Hosts, NEW j \in Slots,
                      arp_table'[j].state \in Stables, arp_table'[j].ipaddr = h
               PROVE  arp_table'[j].ethaddr = heard[h] /\ heard[h] # NoMac
    BY <1>1 DEF SentToLastHeard, Resolved, CacheHits, ArpInv, ArpTypeOK
  <2>1. j \in Resolved(h)
    BY <1>3 DEF Resolved
  <2> QED
    BY <2>1, <1>3 DEF ArpInv, TableSound, SentToLastHeard
<1> QED
  BY <1>4, <1>5, <1>6 DEF ArpInv, TableSound

\* Every packet leaves for the hardware address its host gave last, and no host has
\* two entries, in a table of any size (etharp_output, etharp_find_entry,
\* etharp_update_arp_entry, etharp_tmr).
THEOREM ArpTableSound == ArpSpec => []TableSound
<1>1. ArpInit => ArpInv
  <2> SUFFICES ASSUME ArpInit PROVE ArpInv
    OBVIOUS
  <2>1. 0 \in 0..MaxAge /\ 0 \in Slots
    BY ArpAssumption DEF Slots
  <2>2. ArpTypeOK
    <3>1. [state |-> "EMPTY", ipaddr |-> NoHost, ethaddr |-> NoMac, ctime |-> 0,
           q |-> FALSE] \in Entry
      BY <2>1 DEF Entry
    <3> QED
      BY <2>1, <3>1 DEF ArpInit, ArpTypeOK
  <2>3. \A i \in Slots : arp_table[i].state = "EMPTY" /\ arp_table[i].q = FALSE
    BY DEF ArpInit
  <2>4. EntriesYoung /\ OneEntryPerHost
    BY <2>3 DEF EntriesYoung, OneEntryPerHost
  <2>5. SentToLastHeard
    BY <2>1, <2>3 DEF ArpInit, SentToLastHeard, Resolved, CacheHits, Stables
  <2> QED
    BY <2>2, <2>4, <2>5 DEF ArpInv, TableSound
<1>2. ArpInv /\ [ArpNext]_arpVars => ArpInv'
  <2> SUFFICES ASSUME ArpInv, [ArpNext]_arpVars PROVE ArpInv'
    OBVIOUS
  <2>1. ASSUME NEW ip \in Hosts \cup {NoHost}, NEW mem \in BOOLEAN, etharp_output(ip, mem)
        PROVE  ArpInv'
    BY <2>1, OutputSafe
  <2>2. ASSUME NEW ip \in Hosts, NEW mac \in Macs, NEW for_us \in BOOLEAN,
               etharp_input(ip, mac, for_us)
        PROVE  ArpInv'
    BY <2>2, InputSafe
  <2>3. CASE etharp_tmr
    BY <2>3, TmrSafe
  <2>4. CASE UNCHANGED arpVars
    BY <2>4, Kept DEF arpVars, ArpInv, ArpTypeOK
  <2> QED
    BY <2>1, <2>2, <2>3, <2>4 DEF ArpNext
<1>3. ArpInv => TableSound
  BY DEF ArpInv
<1> QED
  BY <1>1, <1>2, <1>3, PTL DEF ArpSpec

-----------------------------------------------------------------------------
(* The DHCP client, for any addresses, leases and numbers of tries.            *)
ClientFields == {"st", "tries", "armed", "offered", "lease", "used", "t0", "t1r", "t2", "t2r",
                 "listed", "pcb", "acd", "addr", "link", "out", "fresh"}

IsClient(d) == d = [x \in ClientFields |-> d[x]]
IsAcd(a) == a = [x \in {"st", "sent", "ip", "conflicts", "defended"} |-> a[x]]
IsMessage(m) == m = [x \in {"type", "addr", "cur"} |-> m[x]]

\* A message of the current exchange is not about a declined address D.
MsgGood(m, D) ==
  IsMessage(m) /\ (m.cur => m.addr \notin D) /\ (m.type = "ACK" => m.addr # NoAddr)

\* Nor is the interface's address, and what the detector watches is an address.
Core(d, D) ==
  /\ IsClient(d) /\ IsAcd(d.acd)
  /\ d.addr \notin D
  /\ \A m \in d.out : MsgGood(m, D)
  /\ d.acd.st \in Probing \cup Defending => d.acd.ip # NoAddr

\* Only a client that is backing off may still have a declined address on offer.  It
\* has not sent anything in that state, and the detector will not call it to bind.
Good(d, D) ==
  /\ Core(d, D)
  /\ d.st = "BACKING_OFF" => d.tries = 0 /\ d.acd.st \in {"OFF", "RATE_LIMIT"}
  /\ d.st # "BACKING_OFF" => d.offered \notin D

DhcpInv ==
  /\ Good(dhcp, declined) /\ dhcp.out = {}
  /\ NoAddr \notin declined
  /\ \A m \in net : MsgGood(m, declined)

\* dhcp_set_state resets the tries when the state changes, and nothing else.
LEMMA SetState ==
  ASSUME NEW d, NEW D, NEW s, Core(d, D)
  PROVE  LET e == dhcp_set_state(d, s)
         IN  /\ Core(e, D) /\ e.st = s /\ (s = d.st \/ e.tries = 0) /\ (s = d.st => e.tries = d.tries)
             /\ e.offered = d.offered /\ e.addr = d.addr /\ e.acd = d.acd /\ e.out = d.out
BY Zenon DEF Core, IsClient, ClientFields, dhcp_set_state

\* Messages of an abandoned exchange stay good,
LEMMA StaleGood ==
  ASSUME NEW D, NEW ms, \A m \in ms : MsgGood(m, D)
  PROVE  \A m \in Stale(ms) : MsgGood(m, D)
BY DEF MsgGood, IsMessage, Stale

\* whatever is declined afterwards.
LEMMA StaleSafe ==
  ASSUME NEW D, NEW E, NEW ms, \A m \in ms : MsgGood(m, D)
  PROVE  \A m \in Stale(ms) : MsgGood(m, E)
BY DEF MsgGood, IsMessage, Stale

\* Sending a message about an address that is not declined,
LEMMA CreateMsg ==
  ASSUME NEW d, NEW D, NEW type, NEW a, Core(d, D), a \notin D,
         type \in {"DISCOVER", "REQUEST", "RELEASE", "DECLINE"}
  PROVE  /\ Core(dhcp_create_msg(d, type, a), D)
         /\ dhcp_create_msg(d, type, a).st = d.st
         /\ dhcp_create_msg(d, type, a).offered = d.offered
<1> DEFINE renew == (type # "REQUEST" \/ d.st = "REBOOTING") /\ d.tries = 0
           m == [type |-> type, addr |-> a, cur |-> TRUE]
           msgs == IF d.link /\ type \in {"DISCOVER", "REQUEST"} THEN {m} ELSE {}
           O == (IF renew THEN Stale(d.out) ELSE d.out) \cup msgs
           F == d.fresh \/ renew
           e == dhcp_create_msg(d, type, a)
<1>1. MsgGood(m, D)
  BY DEF MsgGood, IsMessage
<1>2. \A x \in O : MsgGood(x, D)
  BY Zenon, <1>1, StaleGood DEF Core
<1>3. e = [d EXCEPT !.out = O, !.fresh = F]
  BY DEF dhcp_create_msg
<1> HIDE DEF O, F, e
<1>4. /\ IsClient(e) /\ e.out = O /\ e.st = d.st /\ e.tries = d.tries
      /\ e.offered = d.offered /\ e.addr = d.addr /\ e.acd = d.acd
  BY Zenon, <1>3 DEF Core, IsClient, ClientFields
<1> QED
  BY <1>2, <1>4 DEF Core, e

\* or the DECLINE itself, which names no address to use, changes only what is sent.
LEMMA DeclineCore ==
  ASSUME NEW d, NEW D, Core(d, D), NoAddr \notin D
  PROVE  /\ Core(dhcp_create_msg(d, "DECLINE", NoAddr), D)
         /\ dhcp_create_msg(d, "DECLINE", NoAddr).st = d.st
BY CreateMsg

\* A DECLINE is not answered, and starts a new exchange.
LEMMA DeclineFresh ==
  ASSUME NEW d, NEW D, Core(d, D), d.tries = 0, d.out = {}
  PROVE  LET e == dhcp_create_msg(d, "DECLINE", NoAddr)
         IN  e.out = {} /\ e.fresh = TRUE /\ e.tries = 0 /\ e.acd = d.acd
BY Zenon DEF Core, IsClient, ClientFields, dhcp_create_msg, Stale

\* So does counting a try.
LEMMA TriedGood ==
  ASSUME NEW d, NEW D, Core(d, D)
  PROVE  LET e == Tried(d)
         IN  /\ Core(e, D) /\ e.st = d.st /\ e.offered = d.offered /\ e.addr = d.addr /\ e.acd = d.acd
             /\ e.out = d.out
BY Zenon DEF Core, IsClient, ClientFields, Tried

\* A request: the client is in the state that sends it, and nothing declined is on offer.
LEMMA RequestGood ==
  ASSUME NEW d, NEW D, NEW s, NEW type, NEW a,
         Core(d, D), a \notin D, d.offered \notin D, type \in {"DISCOVER", "REQUEST"}, s # "BACKING_OFF"
  PROVE  Good(Tried(dhcp_create_msg(dhcp_set_state(d, s), type, a)), D)
<1> DEFINE e == dhcp_set_state(d, s)
           f == dhcp_create_msg(e, type, a)
           g == Tried(f)
<1>1. Core(e, D) /\ e.st = s /\ e.offered = d.offered
  BY SetState
<1> HIDE DEF e
<1>2. Core(f, D) /\ f.st = e.st /\ f.offered = e.offered
  BY <1>1, CreateMsg
<1> HIDE DEF f
<1>3. Core(g, D) /\ g.st = f.st /\ g.offered = f.offered
  BY <1>2, TriedGood
<1> HIDE DEF g
<1>4. Good(g, D)
  BY <1>1, <1>2, <1>3 DEF Good
<1> QED
  BY <1>4 DEF e, f, g

\* dhcp_discover begins a new exchange without an offered address.
LEMMA DiscoverGood ==
  ASSUME NEW d, NEW D, Core(d, D), NoAddr \notin D
  PROVE  Good(dhcp_discover(d), D)
<1> DEFINE e == [d EXCEPT !.offered = NoAddr]
<1>1. Core(e, D) /\ e.offered = NoAddr
  BY DEF Core, IsClient, ClientFields
<1> HIDE DEF e
<1>2. Good(Tried(dhcp_create_msg(dhcp_set_state(e, "SELECTING"), "DISCOVER",
                                               NoAddr)), D)
  BY <1>1, RequestGood
<1> QED
  BY <1>2 DEF e, dhcp_discover

\* dhcp_select requests the offered address,
LEMMA SelectGood ==
  ASSUME NEW d, NEW D, Core(d, D), d.offered \notin D
  PROVE  Good(dhcp_select(d), D)
BY RequestGood DEF dhcp_select

\* dhcp_renew and dhcp_rebind the one in use,
LEMMA RenewGood ==
  ASSUME NEW d, NEW D, Core(d, D), d.offered \notin D
  PROVE  Good(dhcp_renew(d), D) /\ Good(dhcp_rebind(d), D)
<1>1. d.addr \notin D
  BY DEF Core
<1> QED
  BY <1>1, RequestGood DEF dhcp_renew, dhcp_rebind

\* and dhcp_reboot the last one.
LEMMA RebootGood ==
  ASSUME NEW d, NEW D, Core(d, D), d.offered \notin D
  PROVE  Good(dhcp_reboot(d), D)
BY SMTT(40), RequestGood DEF dhcp_reboot

\* Fields no argument is about.
LEMMA PlainFields ==
  ASSUME NEW d, NEW D, NEW v, Good(d, D)
  PROVE  /\ Good([d EXCEPT !.armed = v], D) /\ Good([d EXCEPT !.t1r = v], D)
         /\ Good([d EXCEPT !.t2r = v], D) /\ Good([d EXCEPT !.used = v], D)
         /\ Good([d EXCEPT !.link = v], D) /\ Good([d EXCEPT !.tries = 0], D)
         /\ [d EXCEPT !.armed = v].st = d.st /\ [d EXCEPT !.t1r = v].st = d.st
         /\ [d EXCEPT !.t2r = v].st = d.st /\ [d EXCEPT !.used = v].st = d.st
         /\ [d EXCEPT !.link = v].st = d.st /\ [d EXCEPT !.tries = 0].st = d.st
BY Zenon DEF Good, Core, IsClient, ClientFields

\* A bound client uses the address on offer.
LEMMA BindGood ==
  ASSUME NEW d, NEW D, Core(d, D), d.offered \notin D
  PROVE  Good(dhcp_bind(d), D)
<1> DEFINE e == [d EXCEPT !.used = 0,
                          !.t0 = Timer(d.lease.t0, @),
                          !.t1r = Timer(d.lease.t1, @),
                          !.t2 = Timer(d.lease.t2, @),
                          !.t2r = Timer(d.lease.t2, @)]
           f == dhcp_set_state(e, "BOUND")
           g == [f EXCEPT !.addr = d.offered]
<1>1. Core(e, D) /\ e.offered = d.offered
  BY Zenon DEF Core, IsClient, ClientFields
<1> HIDE DEF e
<1>2. Core(f, D) /\ f.st = "BOUND" /\ f.offered = d.offered
  BY <1>1, SetState
<1> HIDE DEF f
<1>3. Good(g, D)
  BY <1>2 DEF Good, Core, IsClient, ClientFields
<1> QED
  BY <1>3 DEF e, f, g, dhcp_bind

\* dhcp_start forgets what was offered.
LEMMA StartGood ==
  ASSUME NEW d, NEW D, d.addr \notin D, \A m \in d.out : MsgGood(m, D), NoAddr \notin D
  PROVE  Good(dhcp_start(d), D)
<1> DEFINE y == Zeroed(d.addr, d.link)
           z == [y EXCEPT !.listed = TRUE, !.pcb = 1, !.out = d.out, !.fresh = d.fresh]
<1>1. /\ IsClient(y) /\ y.addr = d.addr /\ y.offered = NoAddr /\ y.st = "OFF"
      /\ y.acd = AcdOff
  BY Zenon DEF Zeroed, IsClient, ClientFields
<1> HIDE DEF y
<1>2. /\ IsClient(z) /\ z.addr = d.addr /\ z.offered = NoAddr /\ z.out = d.out
      /\ z.acd = AcdOff
  BY Zenon, <1>1 DEF IsClient, ClientFields
<1> HIDE DEF z
<1>3. /\ IsAcd(AcdOff) /\ AcdOff.st = "OFF"
      /\ "OFF" \notin Probing \cup Defending
  BY DEF IsAcd, AcdOff, Probing, Defending
<1>4. Core(z, D)
  BY <1>2, <1>3 DEF Core
<1>5. Good(dhcp_discover(z), D)
  BY <1>4, DiscoverGood
<1>6. Good(dhcp_set_state(z, "INIT"), D)
  BY <1>2, <1>4, SetState DEF Good
<1> QED
  BY <1>5, <1>6 DEF y, z, dhcp_start

\* dhcp_release_and_stop gives the address back.
LEMMA ReleaseGood ==
  ASSUME NEW d, NEW D, Core(d, D), NoAddr \notin D
  PROVE  Core(dhcp_release_and_stop(d), D)
<1> DEFINE z == [d EXCEPT !.offered = NoAddr, !.lease = NoLease, !.used = 0,
                          !.t0 = 0, !.t1r = 0, !.t2r = 0]
           e == dhcp_set_state(z, "OFF")
           f == dhcp_create_msg(e, "RELEASE", NoAddr)
           s == IF dhcp_supplied_address(d) THEN [f EXCEPT !.addr = NoAddr] ELSE e
<1>1. Core(z, D)
  BY Zenon DEF Core, IsClient, ClientFields
<1> HIDE DEF z
<1>2. Core(e, D)
  BY <1>1, SetState
<1> HIDE DEF e
<1>3. Core(f, D)
  BY <1>2, CreateMsg
<1> HIDE DEF f
<1>4. Core([f EXCEPT !.addr = NoAddr], D)
  BY <1>3 DEF Core, IsClient, ClientFields
<1>5. Core(s, D)
  BY <1>2, <1>4
<1> HIDE DEF s
<1>6. Core([s EXCEPT !.listed = FALSE, !.pcb = 0], D)
  BY Zenon, <1>5 DEF Core, IsClient, ClientFields
<1> QED
  BY <1>6 DEF dhcp_release_and_stop, s, f, e, z

\* dhcp_recv takes only messages of the current exchange.
LEMMA RecvGood ==
  ASSUME NEW d, NEW D, NEW m, NEW lease, Good(d, D), MsgGood(m, D), NoAddr \notin D
  PROVE  Good(dhcp_recv(d, m, lease), D)
<1> SUFFICES ASSUME d.pcb # 0, m.cur PROVE Good(dhcp_recv(d, m, lease), D)
  BY DEF dhcp_recv
<1>0. m.addr \notin D /\ Core(d, D)
  BY DEF MsgGood, Good
<1> DEFINE k == dhcp_handle_ack(d, m.addr, lease)
<1>1. Core(k, D) /\ k.offered = m.addr /\ k.acd = d.acd
  BY Zenon, <1>0 DEF Core, IsClient, ClientFields, dhcp_handle_ack
<1> HIDE DEF k
<1>2. m.type = "ACK" => Good(dhcp_check(k), D)
  <2> SUFFICES ASSUME m.type = "ACK" PROVE Good(dhcp_check(k), D)
    OBVIOUS
  <2> DEFINE e == dhcp_set_state(k, "CHECKING")
             a == acd_start(e.acd, k.offered)
  <2>1. Core(e, D) /\ e.st = "CHECKING" /\ e.offered = m.addr
    BY <1>1, SetState
  <2> HIDE DEF e
  <2>2. IsAcd(a) /\ a.ip = m.addr
    BY Zenon, <1>1, <2>1 DEF Core, IsAcd, acd_start
  <2>3. m.addr # NoAddr
    BY DEF MsgGood
  <2> HIDE DEF a
  <2>4. Good([e EXCEPT !.acd = a], D)
    BY <1>0, <2>1, <2>2, <2>3 DEF Good, Core, IsClient, ClientFields
  <2> QED BY <2>4 DEF e, a, dhcp_check
<1>3. Good(dhcp_bind(k), D)
  BY <1>0, <1>1, BindGood
<1>4. Good(dhcp_handle_nak(d), D)
  <2> DEFINE e == dhcp_set_state(d, "BACKING_OFF")
  <2>1. Core(e, D)
    BY <1>0, SetState
  <2> HIDE DEF e
  <2>2. Core([e EXCEPT !.addr = NoAddr], D)
    BY <2>1 DEF Core, IsClient, ClientFields
  <2> QED BY <2>2, DiscoverGood DEF e, dhcp_handle_nak
<1>5. Good(dhcp_handle_offer(d, m.addr), D)
  <2> DEFINE e == [d EXCEPT !.armed = FALSE, !.offered = m.addr]
  <2>1. Core(e, D) /\ e.offered = m.addr
    BY Zenon, <1>0 DEF Core, IsClient, ClientFields
  <2> HIDE DEF e
  <2>2. Good(dhcp_select(e), D)
    BY <1>0, <2>1, SelectGood
  <2> QED BY <2>2 DEF e, dhcp_handle_offer
<1> QED
  BY <1>2, <1>3, <1>4, <1>5 DEF dhcp_recv, k

\* dhcp_timeout repeats the request, begins anew or binds what was checked.
LEMMA TimeoutGood ==
  ASSUME NEW d, NEW D, Good(d, D), NoAddr \notin D
  PROVE  Good(dhcp_timeout(d), D)
<1> DEFINE e == [d EXCEPT !.armed = FALSE]
<1>1. Good(e, D) /\ e.st = d.st
  BY ZenonT(60), PlainFields
<1> HIDE DEF e
<1>2. Core(e, D) /\ (d.st # "BACKING_OFF" => e.offered \notin D)
  BY <1>1 DEF Good
<1>3. Good(dhcp_discover(e), D)
  BY <1>2, DiscoverGood
<1>4. d.st # "BACKING_OFF" => Good(dhcp_select(e), D) /\ Good(dhcp_reboot(e), D)
  BY <1>2, SelectGood, RebootGood
<1>5. Good(dhcp_start(dhcp_release_and_stop(e)), D)
  BY <1>2, ReleaseGood, StartGood DEF Core
<1> QED
  BY <1>1, <1>3, <1>4, <1>5 DEF dhcp_timeout, e

\* dhcp_coarse_tmr renews, rebinds, or begins anew when the lease is over.
LEMMA CoarseGood ==
  ASSUME NEW d, NEW D, Good(d, D), NoAddr \notin D
  PROVE  Good(dhcp_coarse_tmr(d), D)
<1>1. ASSUME NEW x, Good(x, D)
      PROVE  Good(dhcp_t1_timeout(x), D) /\ Good(dhcp_t2_timeout(x), D)
  <2>1. Core(x, D) /\ (x.st # "BACKING_OFF" => x.offered \notin D)
    BY <1>1 DEF Good
  <2>2. x.st # "BACKING_OFF" => Good(dhcp_renew(x), D) /\ Good(dhcp_rebind(x), D)
    BY <2>1, RenewGood
  <2>3. Good(dhcp_t1_timeout(x), D)
    BY Zenon, <1>1, <2>2, PlainFields DEF dhcp_t1_timeout
  <2>4. Good(dhcp_t2_timeout(x), D)
    BY Zenon, <1>1, <2>2, PlainFields DEF dhcp_t2_timeout
  <2> QED BY <2>3, <2>4
<1> DEFINE e == [d EXCEPT !.used = IF d.t0 > 0 THEN @ + 1 ELSE @]
           f == [e EXCEPT !.t2r = IF @ > 0 THEN @ - 1 ELSE @]
           g == [f EXCEPT !.t1r = IF @ > 0 THEN @ - 1 ELSE @]
<1>2. Good(e, D)
  BY Zenon, PlainFields
<1> HIDE DEF e
<1>3. Good(f, D)
  BY Zenon, <1>2, PlainFields
<1> HIDE DEF f
<1>4. Good(g, D)
  BY Zenon, <1>3, PlainFields
<1> HIDE DEF g
<1>5. Good(dhcp_start(dhcp_release_and_stop(e)), D)
  BY Zenon, <1>2, ReleaseGood, StartGood DEF Good, Core
<1> QED
  BY <1>1, <1>3, <1>4, <1>5 DEF dhcp_coarse_tmr, e, f, g

\* dhcp_network_changed_link_up reboots or begins anew.
LEMMA LinkUpGood ==
  ASSUME NEW d, NEW D, Good(d, D), NoAddr \notin D
  PROVE  Good(dhcp_network_changed_link_up(d), D)
<1> DEFINE e == [d EXCEPT !.tries = 0]
<1>1. Good(e, D) /\ e.st = d.st
  BY Zenon, PlainFields
<1> HIDE DEF e
<1>2. Core(e, D) /\ (d.st # "BACKING_OFF" => e.offered \notin D)
  BY <1>1 DEF Good
<1>3. Good(dhcp_discover(e), D) /\ (d.st # "BACKING_OFF" => Good(dhcp_reboot(e), D))
  BY <1>2, DiscoverGood, RebootGood
<1> QED
  BY <1>3 DEF dhcp_network_changed_link_up, e

\* What acd_tmr may do: step through its probes and announcements, or call the client.
LEMMA AcdTmrCases ==
  ASSUME NEW a, IsAcd(a)
  PROVE  LET r == acd_tmr(a)
         IN  /\ IsAcd(r.acd) /\ r.acd.ip = a.ip
             /\ \/ r.calls = <<>> /\ (a.st \in {"OFF", "RATE_LIMIT"} => r.acd = a)
                   /\ (a.st \notin Waiting \cup Defending => r.acd = a)
                \/ r.calls = <<"IP_OK">> /\ a.st \in {"ANNOUNCE_WAIT", "ANNOUNCING"}
                \/ r.calls = <<"RESTART">> /\ r.acd.st = "OFF"
<1>1. CASE a.st \in {"PROBE_WAIT", "PROBING"}
  BY Zenon, <1>1 DEF IsAcd, acd_tmr, ProbeTick, Waiting, Probing
<1>2. CASE a.st \in {"ANNOUNCE_WAIT", "ANNOUNCING"}
  BY ZenonT(60), <1>2 DEF IsAcd, acd_tmr, AnnounceTick, Waiting, Probing
<1>3. CASE a.st = "RATE_LIMIT"
  BY <1>3 DEF IsAcd, acd_tmr, acd_stop
<1>4. CASE a.st \notin {"PROBE_WAIT", "PROBING", "ANNOUNCE_WAIT", "ANNOUNCING", "RATE_LIMIT"}
  BY <1>4 DEF IsAcd, acd_tmr
<1> QED
  BY <1>1, <1>2, <1>3, <1>4

\* A conflicting ARP reply is ignored, or the address is declined.
LEMMA AcdConflictCases ==
  ASSUME NEW a, IsAcd(a), a.st \in Probing \cup Defending
  PROVE  LET r == acd_arp_reply(a)
         IN  /\ IsAcd(r.acd)
             /\ \/ r.calls = <<>> /\ r.acd.ip = a.ip /\ r.acd.st = a.st
                \/ r.calls = <<"DECLINE">> /\ r.acd.st = "RATE_LIMIT"
                \/ r.calls = <<"DECLINE", "RESTART">> /\ r.acd.st = "OFF"
<1> DEFINE q == acd_restart(a)
<1>1. /\ IsAcd(q.acd)
      /\ \/ q.calls = <<"DECLINE">> /\ q.acd.st = "RATE_LIMIT"
         \/ q.calls = <<"DECLINE", "RESTART">> /\ q.acd.st = "OFF"
  BY Zenon DEF IsAcd, acd_restart, acd_stop
<1> DEFINE u == [acd |-> [a EXCEPT !.defended = TRUE], calls |-> <<>>]
<1>2. IsAcd(u.acd) /\ u.calls = <<>> /\ u.acd.ip = a.ip /\ u.acd.st = a.st
  BY Zenon DEF IsAcd
<1>3. acd_arp_reply(a) \in {q, u}
  BY DEF acd_arp_reply, acd_handle_arp_conflict
<1> HIDE DEF q, u
<1> QED
  BY <1>1, <1>2, <1>3

\* acd_tmr calls the client at most once.
LEMMA AcdTmrGood ==
  ASSUME NEW d, NEW D, Good(d, D), NoAddr \notin D
  PROVE  Good(Called(d, acd_tmr(d.acd)), D)
<1> DEFINE r == acd_tmr(d.acd)
           e == [d EXCEPT !.acd = r.acd]
<1>0. Core(d, D) /\ IsAcd(d.acd)
  BY DEF Good, Core
<1>1. /\ IsAcd(r.acd) /\ r.acd.ip = d.acd.ip
      /\ \/ r.calls = <<>> /\ (d.acd.st \in {"OFF", "RATE_LIMIT"} => r.acd = d.acd)
            /\ (d.acd.st \notin Waiting \cup Defending => r.acd = d.acd)
         \/ r.calls = <<"IP_OK">> /\ d.acd.st \in {"ANNOUNCE_WAIT", "ANNOUNCING"}
         \/ r.calls = <<"RESTART">> /\ r.acd.st = "OFF"
  BY <1>0, AcdTmrCases
<1>2. Called(d, r) =
        CASE r.calls = <<>> -> e
          [] Len(r.calls) = 1 -> dhcp_conflict_callback(e, r.calls[1])
          [] OTHER -> dhcp_conflict_callback(dhcp_conflict_callback(e, r.calls[1]), r.calls[2])
  BY DEF Called
<1> HIDE DEF r
<1>3. /\ IsClient(e) /\ e.acd = r.acd /\ e.addr = d.addr /\ e.out = d.out /\ e.st = d.st
      /\ e.tries = d.tries /\ e.offered = d.offered
  BY <1>0 DEF Core, IsClient, ClientFields
<1> HIDE DEF e
<1>4. CASE r.calls = <<>> /\ (d.acd.st \in {"OFF", "RATE_LIMIT"} => r.acd = d.acd)
           /\ (d.acd.st \notin Waiting \cup Defending => r.acd = d.acd)
  <2>1. r.acd.st \in Probing \cup Defending => d.acd.st \in Probing \cup Defending
    BY <1>4 DEF Waiting, Probing, Defending
  <2>2. Good(e, D)
    BY <1>1, <1>3, <1>4, <2>1 DEF Good, Core
  <2> QED BY <1>2, <1>4, <2>2 DEF r
<1>5. CASE r.calls = <<"IP_OK">> /\ d.acd.st \in {"ANNOUNCE_WAIT", "ANNOUNCING"}
  <2>1. Core(e, D) /\ e.offered \notin D
    BY <1>1, <1>3, <1>5 DEF Good, Core, Probing, Defending
  <2>2. r.calls # <<>> /\ Len(r.calls) = 1 /\ r.calls[1] = "IP_OK"
    BY <1>5
  <2>3. Called(d, r) = dhcp_conflict_callback(e, "IP_OK")
    BY <1>2, <2>2
  <2>4. Good(dhcp_conflict_callback(e, "IP_OK"), D)
    BY <2>1, BindGood DEF dhcp_conflict_callback
  <2> QED BY <2>3, <2>4 DEF r
<1>6. CASE r.calls = <<"RESTART">> /\ r.acd.st = "OFF"
  <2>1. Core(e, D)
    BY <1>1, <1>3, <1>6 DEF Good, Core, Probing, Defending
  <2>2. r.calls # <<>> /\ Len(r.calls) = 1 /\ r.calls[1] = "RESTART"
    BY <1>6
  <2>3. Called(d, r) = [dhcp_set_state(e, "BACKING_OFF") EXCEPT !.armed = TRUE]
    BY <1>2, <2>2 DEF dhcp_conflict_callback
  <2> DEFINE f == dhcp_set_state(e, "BACKING_OFF")
  <2>4. Core(f, D) /\ f.st = "BACKING_OFF" /\ f.tries = 0 /\ f.acd = r.acd
    BY <1>3, <2>1, SetState DEF Good
  <2> HIDE DEF f
  <2>5. Good([f EXCEPT !.armed = TRUE], D)
    BY Zenon, <1>6, <2>4 DEF Good, Core, IsClient, ClientFields
  <2> QED BY <2>3, <2>5 DEF f, r
<1> QED
  BY <1>1, <1>4, <1>5, <1>6

\* A conflict that is not defended: the client gives the address up, and every message
\* that is still under way belongs to an old exchange.
LEMMA ConflictGood ==
  ASSUME NEW d, NEW D, NEW E, Good(d, D), d.out = {}, NoAddr \notin D, NoAddr \notin E,
         d.acd.st \in Probing \cup Defending
  PROVE  LET r == acd_arp_reply(d.acd)
             g == Called(d, r)
         IN  /\ r.calls = <<>> => Good(g, D) /\ g.out = {}
             /\ r.calls # <<>> => Good(g, E) /\ g.out = {} /\ g.fresh = TRUE
<1> DEFINE r == acd_arp_reply(d.acd)
           e == [d EXCEPT !.acd = r.acd]
           h == [e EXCEPT !.addr = NoAddr]
           k == dhcp_set_state(h, "BACKING_OFF")
           l == dhcp_create_msg(k, "DECLINE", NoAddr)
           n == dhcp_set_state(l, "BACKING_OFF")
<1>0. Core(d, D) /\ IsAcd(d.acd)
  BY DEF Good, Core
<1>1. /\ IsAcd(r.acd)
      /\ \/ r.calls = <<>> /\ r.acd.ip = d.acd.ip /\ r.acd.st = d.acd.st
         \/ r.calls = <<"DECLINE">> /\ r.acd.st = "RATE_LIMIT"
         \/ r.calls = <<"DECLINE", "RESTART">> /\ r.acd.st = "OFF"
  BY <1>0, AcdConflictCases
<1>2. Called(d, r) =
        CASE r.calls = <<>> -> e
          [] Len(r.calls) = 1 -> dhcp_conflict_callback(e, r.calls[1])
          [] OTHER -> dhcp_conflict_callback(dhcp_conflict_callback(e, r.calls[1]), r.calls[2])
  BY DEF Called
<1> HIDE DEF r
<1>3. /\ IsClient(e) /\ e.acd = r.acd /\ e.addr = d.addr /\ e.out = {} /\ e.st = d.st
      /\ e.tries = d.tries /\ e.offered = d.offered
  BY <1>0 DEF Core, IsClient, ClientFields
<1>4. dhcp_conflict_callback(e, "DECLINE") = l
  BY DEF dhcp_conflict_callback, dhcp_decline
<1>5. dhcp_conflict_callback(l, "RESTART") = [n EXCEPT !.armed = TRUE]
  BY DEF dhcp_conflict_callback
<1> HIDE DEF e
<1>6. CASE r.calls = <<>>
  <2>1. r.acd.ip = d.acd.ip /\ r.acd.st = d.acd.st
    BY <1>1, <1>6
  <2>2. Good(e, D) /\ e.out = {}
    BY <1>1, <1>3, <2>1 DEF Good, Core
  <2>3. Called(d, r) = e
    BY SMTT(40), <1>2, <1>6
  <2> QED BY <1>6, <2>2, <2>3 DEF r
<1>7. CASE r.calls # <<>>
  <2>0. "OFF" \notin Probing \cup Defending /\ "RATE_LIMIT" \notin Probing \cup Defending
    BY DEF Probing, Defending
  <2>1. Core(h, E) /\ h.out = {} /\ h.acd = r.acd /\ h.st = d.st /\ h.tries = d.tries
    BY <1>1, <1>3, <1>7, <2>0 DEF Core, IsClient, ClientFields
  <2> HIDE DEF h
  <2>2. /\ Core(k, E) /\ k.st = "BACKING_OFF" /\ k.tries = 0 /\ k.acd = r.acd /\ k.out = {}
    BY <2>1, SetState DEF Good
  <2> HIDE DEF k
  <2>3. /\ Core(l, E) /\ l.st = "BACKING_OFF" /\ l.tries = 0 /\ l.acd = r.acd /\ l.out = {}
        /\ l.fresh = TRUE
    <3>0. Core(k, E) /\ k.st = "BACKING_OFF"
      BY <2>2
    <3>1. Core(l, E) /\ l.st = "BACKING_OFF"
      BY <3>0, DeclineCore
    <3>2. l.tries = 0 /\ l.acd = r.acd /\ l.out = {} /\ l.fresh = TRUE
      BY Zenon, <2>2, DeclineFresh
    <3> QED BY <3>1, <3>2
  <2> HIDE DEF l
  <2>4. n = l
    BY <2>3 DEF dhcp_set_state
  <2>5. r.acd.st \in {"OFF", "RATE_LIMIT"}
    BY <1>1, <1>7
  <2>6. Good(l, E)
    BY <2>3, <2>5 DEF Good
  <2>7. CASE r.calls = <<"DECLINE">>
    <3>1. r.calls # <<>> /\ Len(r.calls) = 1 /\ r.calls[1] = "DECLINE"
      BY <2>7
    <3>2. Called(d, r) = l
      BY <1>2, <1>4, <3>1
    <3> QED BY <2>3, <2>6, <3>1, <3>2 DEF r
  <2>8. CASE r.calls = <<"DECLINE", "RESTART">>
    <3>1. r.calls # <<>> /\ Len(r.calls) = 2 /\ r.calls[1] = "DECLINE" /\ r.calls[2] = "RESTART"
      BY <2>8
    <3>2. Called(d, r) = [l EXCEPT !.armed = TRUE]
      BY <1>2, <1>4, <1>5, <2>4, <3>1
    <3>3. Good([l EXCEPT !.armed = TRUE], E)
      BY Zenon, <2>6, PlainFields
    <3>4. [l EXCEPT !.armed = TRUE].out = {} /\ [l EXCEPT !.armed = TRUE].fresh = TRUE
      BY <2>3 DEF Core, IsClient, ClientFields
    <3> QED BY <3>1, <3>2, <3>3, <3>4 DEF r
  <2> QED BY Zenon, <1>1, <1>7, <2>7, <2>8
<1> QED
  BY Zenon, <1>6, <1>7 DEF r

\* A step that leaves the client good and keeps good messages keeps the invariant.
LEMMA StepInv ==
  ASSUME DhcpInv, NEW d, NEW kept, NEW E, declined' = E,
         Good(d, E), NoAddr \notin E, Step(d, kept),
         \/ \A m \in kept : MsgGood(m, E)
         \/ d.fresh = TRUE /\ \A m \in kept : MsgGood(m, declined)
  PROVE  DhcpInv'
<1>1. dhcp' = [d EXCEPT !.out = {}, !.fresh = FALSE]
  BY DEF Step
<1>2. net' = (IF d.fresh THEN Stale(kept) ELSE kept) \cup d.out
  BY DEF Step
<1>3. \A m \in d.out : MsgGood(m, E)
  BY DEF Good, Core
<1>4. \A m \in net' : MsgGood(m, E)
  BY Zenon, <1>2, <1>3, StaleGood, StaleSafe
<1>5. Good([d EXCEPT !.out = {}, !.fresh = FALSE], E) /\ [d EXCEPT !.out = {}, !.fresh = FALSE].out = {}
  BY ZenonT(60) DEF Good, Core, IsClient, ClientFields
<1> QED
  BY <1>1, <1>4, <1>5 DEF DhcpInv

\* A server that answers keeps it: what it offers anew is no longer declined.
LEMMA AnswerInv ==
  ASSUME DhcpInv, NoAddr \notin Addrs, NEW m \in net, Answer(m)
  PROVE  DhcpInv'
<1>0. MsgGood(m, declined) /\ UNCHANGED dhcp
  BY Zenon DEF DhcpInv, Answer
<1>1. CASE \E a \in Addrs :
             /\ net' = (net \ {m}) \cup {[m EXCEPT !.type = "OFFER", !.addr = a]}
             /\ declined' = declined \ {a}
  <2>1. PICK a \in Addrs :
          /\ net' = (net \ {m}) \cup {[m EXCEPT !.type = "OFFER", !.addr = a]}
          /\ declined' = declined \ {a}
    BY ZenonT(60), <1>1
  <2>2. MsgGood([m EXCEPT !.type = "OFFER", !.addr = a], declined')
    BY Zenon, <1>0, <2>1 DEF MsgGood, IsMessage
  <2>3. \A x \in net : MsgGood(x, declined')
    BY <2>1 DEF DhcpInv, MsgGood
  <2>4. Good(dhcp, declined')
    BY <2>1 DEF DhcpInv, Good, Core, MsgGood
  <2> QED BY SMTT(40), <1>0, <2>1, <2>2, <2>3, <2>4 DEF DhcpInv
<1>2. CASE /\ net' = (net \ {m}) \cup
                     (IF m.addr = NoAddr THEN {} ELSE {[m EXCEPT !.type = "ACK"]})
           /\ UNCHANGED declined
  <2>1. m.addr # NoAddr => MsgGood([m EXCEPT !.type = "ACK"], declined)
    BY <1>0 DEF MsgGood, IsMessage
  <2> QED BY <1>0, <1>2, <2>1 DEF DhcpInv
<1>3. CASE /\ net' = (net \ {m}) \cup {[m EXCEPT !.type = "NAK"]}
           /\ UNCHANGED declined
  <2>1. MsgGood([m EXCEPT !.type = "NAK"], declined)
    BY <1>0 DEF MsgGood, IsMessage
  <2> QED BY <1>0, <1>3, <2>1 DEF DhcpInv
<1> QED
  BY Zenon, <1>1, <1>2, <1>3 DEF Answer

\* Every step of client, servers, timers and link keeps the invariant.
LEMMA DhcpNextInv ==
  ASSUME NoAddr \notin Addrs
  PROVE  DhcpInv /\ [DhcpNext]_dhcpVars => DhcpInv'
<1> SUFFICES ASSUME DhcpInv, [DhcpNext]_dhcpVars PROVE DhcpInv'
  OBVIOUS
<1>0. Good(dhcp, declined) /\ NoAddr \notin declined /\ \A m \in net : MsgGood(m, declined)
  BY DEF DhcpInv
<1>1. ASSUME NEW m \in net, Receive(m) PROVE DhcpInv'
  <2>1. PICK lease \in Leases, kept \in SUBSET net : Step(dhcp_recv(dhcp, m, lease), kept)
    BY <1>1 DEF Receive
  <2>2. Good(dhcp_recv(dhcp, m, lease), declined) /\ UNCHANGED declined
    BY <1>0, <1>1, RecvGood DEF Receive
  <2>3. \A x \in kept : MsgGood(x, declined)
    BY <1>0
  <2> QED BY Zenon, <1>0, <2>1, <2>2, <2>3, StepInv
<1>2. ASSUME NEW m \in net, Lose(m) PROVE DhcpInv'
  BY <1>2 DEF Lose, DhcpInv
<1>3. CASE FineTmr
  <2>1. Step(dhcp_timeout(dhcp), net) /\ UNCHANGED declined
    BY <1>3 DEF FineTmr
  <2>2. Good(dhcp_timeout(dhcp), declined)
    BY <1>0, TimeoutGood
  <2> QED BY Zenon, <1>0, <2>1, <2>2, StepInv
<1>4. CASE CoarseTmr
  <2>1. Step(dhcp_coarse_tmr(dhcp), net) /\ UNCHANGED declined
    BY <1>4 DEF CoarseTmr
  <2>2. Good(dhcp_coarse_tmr(dhcp), declined)
    BY <1>0, CoarseGood
  <2> QED BY Zenon, <1>0, <2>1, <2>2, StepInv
<1>5. CASE AcdTmr
  <2>1. Step(Called(dhcp, acd_tmr(dhcp.acd)), net) /\ UNCHANGED declined
    BY <1>5 DEF AcdTmr
  <2>2. Good(Called(dhcp, acd_tmr(dhcp.acd)), declined)
    BY <1>0, AcdTmrGood
  <2> QED BY Zenon, <1>0, <2>1, <2>2, StepInv
<1>6. CASE DefendEnds
  <2>1. dhcp' = [dhcp EXCEPT !.acd.defended = FALSE] /\ UNCHANGED <<net, declined>>
    BY <1>6 DEF DefendEnds
  <2> DEFINE a == [dhcp.acd EXCEPT !.defended = FALSE]
  <2>2. IsAcd(a) /\ a.st = dhcp.acd.st /\ a.ip = dhcp.acd.ip
    BY ZenonT(60), <1>0 DEF Good, Core, IsAcd
  <2>3. dhcp' = [dhcp EXCEPT !.acd = a]
    BY <2>1
  <2> HIDE DEF a
  <2>4. Good([dhcp EXCEPT !.acd = a], declined) /\ [dhcp EXCEPT !.acd = a].out = dhcp.out
    BY <1>0, <2>2 DEF Good, Core, IsClient, ClientFields
  <2> QED BY Zenon, <1>0, <2>1, <2>3, <2>4 DEF DhcpInv
<1>7. CASE Conflict
  <2> DEFINE r == acd_arp_reply(dhcp.acd)
             E == declined \cup {dhcp.acd.ip}
             g == Called(dhcp, r)
  <2>1. /\ dhcp.acd.st \in Probing \cup Defending
        /\ Step(g, net)
        /\ declined' = IF r.calls = <<>> THEN declined ELSE E
    BY <1>7 DEF Conflict
  <2>2. NoAddr \notin E
    BY <1>0, <2>1 DEF Good, Core
  <2>3. dhcp.out = {}
    BY SMTT(40) DEF DhcpInv
  <2> HIDE DEF E
  <2>4. /\ r.calls = <<>> => Good(g, declined)
        /\ r.calls # <<>> => Good(g, E) /\ g.fresh = TRUE
    BY Zenon, <1>0, <2>1, <2>2, <2>3, ConflictGood
  <2> HIDE DEF r, g
  <2>5. CASE r.calls = <<>>
    BY Zenon, <1>0, <2>1, <2>4, <2>5, StepInv
  <2>6. CASE r.calls # <<>>
    BY Zenon, <1>0, <2>1, <2>2, <2>4, <2>6, StepInv
  <2> QED BY <2>5, <2>6
<1>8. CASE LinkDown
  <2> DEFINE a == IF dhcp.listed THEN acd_stop(dhcp.acd) ELSE dhcp.acd
  <2>1. /\ dhcp' = [dhcp EXCEPT !.link = FALSE, !.acd = IF dhcp.listed THEN acd_stop(@) ELSE @]
        /\ net' = {} /\ UNCHANGED declined
    BY <1>8 DEF LinkDown
  <2>2. IsAcd(a) /\ a.st \in {dhcp.acd.st, "OFF"} /\ a.ip = dhcp.acd.ip
    BY <1>0 DEF Good, Core, IsAcd, acd_stop
  <2>3. dhcp' = [dhcp EXCEPT !.link = FALSE, !.acd = a]
    BY <1>0, <2>1 DEF Good, Core, IsClient, ClientFields
  <2> HIDE DEF a
  <2>4. "OFF" \notin Probing \cup Defending
    BY DEF Probing, Defending
  <2>5. Good([dhcp EXCEPT !.link = FALSE, !.acd = a], declined)
        /\ [dhcp EXCEPT !.link = FALSE, !.acd = a].out = dhcp.out
    BY Zenon, <1>0, <2>2, <2>4 DEF Good, Core, IsClient, ClientFields
  <2> QED BY <1>0, <2>1, <2>3, <2>5 DEF DhcpInv
<1>9. CASE LinkUp
  <2> DEFINE d == [dhcp EXCEPT !.link = TRUE]
  <2>1. Step(dhcp_network_changed_link_up(d), net) /\ UNCHANGED declined
    BY <1>9 DEF LinkUp
  <2>2. Good(d, declined)
    BY ZenonT(60), <1>0, PlainFields
  <2> HIDE DEF d
  <2>3. Good(dhcp_network_changed_link_up(d), declined)
    BY <1>0, <2>2, LinkUpGood
  <2> QED BY Zenon, <1>0, <2>1, <2>3, StepInv
<1>10. CASE UNCHANGED dhcpVars
  BY <1>10 DEF dhcpVars, DhcpInv
<1> QED
  BY <1>1, <1>2, <1>3, <1>4, <1>5, <1>6, <1>7, <1>8, <1>9, <1>10, AnswerInv DEF DhcpNext

\* An address the client declined is not requested, checked or used again before the
\* server offers it anew, for any server, any losses and any conflicts.
THEOREM DhcpNoDeclinedAddress ==
  ASSUME NoAddr \notin Addrs
  PROVE  DhcpSpec => []NoDeclinedAddress
<1>1. DhcpInit => DhcpInv
  <2> SUFFICES ASSUME DhcpInit PROVE DhcpInv
    OBVIOUS
  <2>1. PICK link \in BOOLEAN :
          LET d == dhcp_start(Zeroed(NoAddr, link))
          IN  dhcp = [d EXCEPT !.out = {}, !.fresh = FALSE] /\ net = d.out /\ declined = {}
    BY Zenon DEF DhcpInit
  <2> DEFINE z == Zeroed(NoAddr, link)
             d == dhcp_start(z)
  <2>2. z.out = {}
    BY DEF Zeroed
  <2> HIDE DEF z
  <2>3. Good(d, {})
    BY <2>2, StartGood
  <2>4. dhcp = [d EXCEPT !.out = {}, !.fresh = FALSE] /\ net = d.out /\ declined = {}
    BY <2>1 DEF z
  <2> HIDE DEF d
  <2>5. Good([d EXCEPT !.out = {}, !.fresh = FALSE], {}) /\ [d EXCEPT !.out = {}, !.fresh = FALSE].out = {}
    BY Zenon, <2>3 DEF Good, Core, IsClient, ClientFields
  <2>6. \A m \in net : MsgGood(m, declined)
    BY <2>3, <2>4 DEF Good, Core
  <2> QED BY <2>4, <2>5, <2>6 DEF DhcpInv
<1>2. DhcpInv /\ [DhcpNext]_dhcpVars => DhcpInv'
  BY DhcpNextInv
<1>3. DhcpInv => NoDeclinedAddress
  BY DEF DhcpInv, Good, NoDeclinedAddress
<1> QED
  BY <1>1, <1>2, <1>3, PTL DEF DhcpSpec
=============================================================================
