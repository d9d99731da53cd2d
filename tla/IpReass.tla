------------------------------- MODULE IpReass ------------------------------
(***************************************************************************)
(* IPv4 fragmentation and reassembly (ip4_frag.c): a sender cuts datagrams *)
(* with ip4_frag, the network delivers the fragments in any order, some    *)
(* twice and some never, and ip4_reass puts them together again within its *)
(* limits on datagrams (MEMP_NUM_REASSDATA) and buffers                    *)
(* (IP_REASS_MAX_PBUFS).                                                   *)
(*                                                                         *)
(* A fragment is its extent in the datagram; `clen` is the length of its   *)
(* pbuf chain.  A datagram may reach the receiver over two paths with      *)
(* different MTUs, so fragments may overlap.  Identifications are not used *)
(* again while fragments live, and the length checks at 64 KiB are left    *)
(* out: no datagram the sender cuts reaches them.                          *)
(***************************************************************************)
EXTENDS Integers, SequencesExt

CONSTANTS Sizes,        \* payload length of each datagram, by identification
          Rooms,        \* mtu - IP_HLEN of the paths
          Unit,         \* fragment offsets count units of 8 bytes
          Chain,        \* pbuf_clen of a fragment, by its start
          MaxDatagrams, \* MEMP_NUM_REASSDATA
          MaxPbufs,     \* IP_REASS_MAX_PBUFS
          MaxTimer,     \* IP_REASS_MAXAGE
          Repeats       \* bound on repeated fragments

VARIABLES wire, reassdatagrams, pbufcount, got, repeats

reassVars == <<wire, reassdatagrams, pbufcount, got, repeats>>

Ids == DOMAIN Sizes

----------------------------------------------------------------------------
(* Sending.                                                                *)

\* ip4_frag: every fragment but the last carries nfb whole units.  Running out
\* of memory on the way leaves the rest unsent, which is a loss.
ip4_frag(id, room) ==
  LET step == (room \div Unit) * Unit
      starts == {o \in 0..(Sizes[id] - 1) : o % step = 0}
  IN  {[id |-> id, start |-> o,
        end |-> IF Sizes[id] - o < step THEN Sizes[id] ELSE o + step,
        mf |-> Sizes[id] - o > room, clen |-> Chain[o]] : o \in starts}

----------------------------------------------------------------------------
(* Receiving, on a state s of the list, the buffer count and the datagram  *)
(* that was completed, if any.                                             *)

Buffers(r) == FoldSeq(LAMBDA f, n : f.clen + n, 0, r.frags)

\* The list is searched from its head, where new datagrams are put.
IndexOf(rs, id) ==
  IF \E i \in DOMAIN rs : rs[i].id = id THEN CHOOSE i \in DOMAIN rs : rs[i].id = id ELSE 0

ip_reass_dequeue_datagram(s, i) == [s EXCEPT !.list = RemoveAt(@, i)]

ip_reass_free_complete_datagram(s, i) ==
  [ip_reass_dequeue_datagram(s, i) EXCEPT !.count = @ - Buffers(s.list[i])]

\* The other datagram with the least time left, the last of those in the list.
OldestOther(s, id) ==
  LET others == {i \in DOMAIN s.list : s.list[i].id # id}
  IN  CHOOSE i \in others : \A j \in others :
        \/ s.list[i].timer < s.list[j].timer
        \/ s.list[i].timer = s.list[j].timer /\ j <= i

Others(s, id) == Cardinality({i \in DOMAIN s.list : s.list[i].id # id})

RECURSIVE ip_reass_remove_oldest_datagram(_, _, _, _)
ip_reass_remove_oldest_datagram(s, id, needed, freed) ==
  IF Others(s, id) = 0 THEN [s |-> s, freed |-> freed]
  ELSE LET i == OldestOther(s, id)
           now == freed + Buffers(s.list[i])
           t == ip_reass_free_complete_datagram(s, i)
       IN  IF now < needed /\ Others(s, id) > 1
             THEN ip_reass_remove_oldest_datagram(t, id, needed, now)
             ELSE [s |-> t, freed |-> now]

\* The fragment goes before the first one that starts after it.
Place(r, f) ==
  LET later == {k \in DOMAIN r.frags : f.start < r.frags[k].start}
  IN  IF later = {} THEN Len(r.frags) + 1 ELSE CHOOSE k \in later : \A l \in later : k <= l

\* The overlap checks of the chain walk: with the fragments on either side.
Overlaps(r, f) ==
  LET k == Place(r, f)
  IN  \/ k > 1 /\ f.start < r.frags[k - 1].end
      \/ k <= Len(r.frags) /\ f.end > r.frags[k].start

\* Slips one could make in this code.
MutantContiguous(frags) ==
  \A k \in 1..(Len(frags) - 1) : frags[k].end = frags[k + 1].start

Contiguous(frags) ==
  /\ frags[1].start = 0
  /\ \A k \in 1..(Len(frags) - 1) : frags[k].end = frags[k + 1].start

\* "dropped", "finished" or "queued", and the datagram with the fragment in it.
ip_reass_chain_frag_into_datagram_and_validate(r, f) ==
  LET chained == InsertAt(r.frags, Place(r, f), f)
  IN  IF Overlaps(r, f) THEN [valid |-> "dropped", r |-> r]
      ELSE [valid |-> IF (~f.mf \/ r.last) /\ Contiguous(chained) THEN "finished" ELSE "queued",
            r |-> [r EXCEPT !.frags = chained, !.last = @ \/ ~f.mf,
                            !.len = IF f.mf THEN @ ELSE f.end]]

\* Room for the fragment's buffers, if need be from the oldest datagram.
MakeRoom(s, f) ==
  IF s.count + f.clen <= MaxPbufs THEN [s |-> s, ok |-> TRUE]
  ELSE LET o == ip_reass_remove_oldest_datagram(s, f.id, f.clen, 0)
       IN  [s |-> o.s, ok |-> o.freed > 0 /\ o.s.count + f.clen <= MaxPbufs]

NewDatagram(id) ==
  [id |-> id, frags |-> <<>>, last |-> FALSE, len |-> 0, timer |-> MaxTimer]

\* A record for a new datagram, if need be that of the oldest one.
ip_reass_enqueue_new_datagram(s, f) ==
  LET o == ip_reass_remove_oldest_datagram(s, f.id, f.clen, 0)
      t == IF Len(s.list) < MaxDatagrams THEN s ELSE o.s
  IN  IF Len(s.list) < MaxDatagrams \/ o.freed >= f.clen
        THEN [s |-> [t EXCEPT !.list = <<NewDatagram(f.id)>> \o @], ok |-> TRUE]
        ELSE [s |-> t, ok |-> FALSE]

\* The fragment joins datagram i of the list.  A first fragment that is dropped
\* takes its empty record with it.
Join(s, i, f) ==
  LET v == ip_reass_chain_frag_into_datagram_and_validate(s.list[i], f)
      t == [s EXCEPT !.list[i] = v.r, !.count = @ + f.clen]
  IN  CASE v.valid = "dropped" ->
             IF s.list[i].frags = <<>> THEN ip_reass_dequeue_datagram(s, i) ELSE s
        [] v.valid = "queued" -> t
        [] OTHER -> [ip_reass_dequeue_datagram(t, i)
                     EXCEPT !.count = @ - Buffers(v.r),
                            !.done = {[id |-> v.r.id, len |-> v.r.len, frags |-> v.r.frags]}]

ip4_reass(s, f) ==
  LET a == MakeRoom(s, f)
      b == ip_reass_enqueue_new_datagram(a.s, f)
      i == IndexOf(a.s.list, f.id)
  IN  IF ~a.ok THEN a.s
      ELSE IF i # 0 THEN Join(a.s, i, f)
      ELSE IF b.ok THEN Join(b.s, 1, f) ELSE b.s

----------------------------------------------------------------------------
(* The system.                                                             *)

\* ip4_input gives ip4_reass only what has an offset or more to follow.
Fragmented(f) == f.mf \/ f.start > 0

ReassInit ==
  /\ wire = {f \in UNION {ip4_frag(id, room) : id \in Ids, room \in Rooms} : Fragmented(f)}
  /\ reassdatagrams = <<>>
  /\ pbufcount = 0
  /\ got = {}
  /\ repeats = Repeats

\* A fragment arrives; one that is repeated stays on the wire.
Arrive(f) ==
  LET s == ip4_reass([list |-> reassdatagrams, count |-> pbufcount, done |-> {}], f)
  IN  /\ reassdatagrams' = s.list
      /\ pbufcount' = s.count
      /\ got' = got \cup s.done
      /\ \/ wire' = wire \ {f} /\ UNCHANGED repeats
         \/ repeats > 0 /\ repeats' = repeats - 1 /\ UNCHANGED wire

\* Datagrams whose time has run out are freed, the others have a tick less.
ip_reass_tmr ==
  LET old(r) == r.timer = 0
  IN  /\ reassdatagrams # <<>>
      /\ pbufcount' = pbufcount - FoldSeq(LAMBDA r, n : Buffers(r) + n, 0,
                                          SelectSeq(reassdatagrams, old))
      /\ reassdatagrams' = LET kept == SelectSeq(reassdatagrams, LAMBDA r : ~old(r))
                           IN  [i \in DOMAIN kept |-> [kept[i] EXCEPT !.timer = @ - 1]]
      /\ UNCHANGED <<wire, got, repeats>>

ReassNext == (\E f \in wire : Arrive(f)) \/ ip_reass_tmr

ReassSpec == ReassInit /\ [][ReassNext]_reassVars

----------------------------------------------------------------------------
(* Properties.                                                             *)

\* What is handed up is what was sent: the datagram's own fragments, each byte
\* in exactly one of them, and of the length the sender gave it, however
\* the fragments were reordered, repeated, cut twice or thrown out for room.
DatagramExact ==
  \A g \in got :
    /\ g.len = Sizes[g.id]
    /\ \A o \in 0..(g.len - 1) :
         Cardinality({k \in DOMAIN g.frags : g.frags[k].start <= o /\ o < g.frags[k].end}) = 1
    /\ \A f \in ToSet(g.frags) : f.id = g.id

\* ip_reass_pbufcount is the number of buffers the queued fragments hold, it
\* stays within IP_REASS_MAX_PBUFS, and no datagram without a fragment is left
\* in the list (ip_reass_free_complete_datagram reads its first one).
BuffersAccounted ==
  /\ pbufcount = FoldSeq(LAMBDA r, n : Buffers(r) + n, 0, reassdatagrams)
  /\ pbufcount <= MaxPbufs /\ Len(reassdatagrams) <= MaxDatagrams
  /\ \A i \in DOMAIN reassdatagrams : reassdatagrams[i].frags # <<>>
=============================================================================
