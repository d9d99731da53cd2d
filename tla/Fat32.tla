------------------------------- MODULE Fat32 -------------------------------
(* Open files and directories of the read-only FAT32 driver: fat32Read,        *)
(* fat32Seek, fat32Getdents64 and the cache of FAT sectors they share         *)
(* (fat32.rs, fat32-fat.rs, fat32-dirs.rs).                                   *)
(*                                                                            *)
(* Each process works on its own descriptor; the cache belongs to the mount   *)
(* and nothing locks it, so a process may be preempted between any two        *)
(* accesses to it: those are the steps.  What is on the disk never changes:   *)
(* a byte is <<cluster, offset>> and the contents of a cached sector are the  *)
(* number of the sector they were read from.                                  *)
EXTENDS Integers, Sequences, FiniteSets, FiniteSetsExt

CONSTANTS
  Procs,
  Fat,          \* the table: per cluster number the next one, or a mark
  BadCluster,   \* 0x0FFFFFF7; what is above it ends a chain
  PerSector,    \* entries of the table in a sector
  CacheMax,     \* FAT32_CACHE_MAX
  Bpc,          \* bytes_per_cluster
  Files,        \* directory entries of files, [dir, first, size]
  Dirs,         \* directory entries of directories
  Listing,      \* per cluster of a directory the kinds of its entries
  PerCluster,   \* directory entries in a cluster
  Limits,       \* how many bytes a read may ask for
  Rooms         \* how many names a listing call has room for

VARIABLES
  cacheBase,    \* per slot, the sector it is said to hold
  cache,        \* per slot, the sector its bytes come from
  cacheCurr,    \* the slot to fill next
  fd,           \* per process, the open descriptor
  pc, call,     \* per process, where it is, and the call's locals
  torn          \* a slot was taken or read while another call was half way with it

vars == <<cacheBase, cache, cacheCurr, fd, pc, call, torn>>

None == -1
Slots == 1 .. CacheMax
NoEnt == [dir |-> FALSE, first |-> 0, size |-> 0]
\* ptr and directoryCurr of FAT32OpenFd, the names a listing gave so far, and
\* whether a seek has left directoryCurr at another place than ptr.
NoFd == [ent |-> NoEnt, ptr |-> 0, curr |-> 0, got |-> <<>>, lost |-> FALSE]
NoCall == [op |-> "none", limit |-> 0, needed |-> 0, chain |-> <<>>, i |-> 0, start |-> None,
           from |-> 0, data |-> <<>>, left |-> 0, lfn |-> FALSE, added |-> 0,
           want |-> 0, idx |-> 0, bytes |-> None]

Open_(e) == [NoFd EXCEPT !.ent = e, !.curr = e.first]
IsOpen(p) == fd[p].ent # NoEnt
Idle(p) == IsOpen(p) /\ pc[p] = "idle"

Init ==
  /\ cacheBase = [s \in Slots |-> None]
  /\ cache = [s \in Slots |-> None]
  /\ cacheCurr = 1
  /\ fd = [p \in Procs |-> NoFd]
  /\ pc = [p \in Procs |-> "idle"]
  /\ call = [p \in Procs |-> NoCall]
  /\ torn = FALSE

-----------------------------------------------------------------------------
\* Slips one could make in this code.
MutantFollows(c) == {TRUE}
-----------------------------------------------------------------------------
\* The sector of the table with the entry of a cluster, and what fat32FATtraverse
\* makes of that entry in the bytes of some sector; a slot never filled is zero.
SectorOf(cl) == cl \div PerSector
Masked(v) == IF v >= BadCluster THEN 0 ELSE v
EntryIn(sector, cl) == IF sector = None THEN 0 ELSE Masked(Fat[sector * PerSector + (cl % PerSector)])

\* fat32FATcacheLookup
Cached(sector) == {s \in Slots : cacheBase[s] = sector}

\* The slot fat32FATcacheAdd takes.
NextSlot(curr) == IF curr > CacheMax THEN 1 ELSE curr

Going(p, where) == pc' = [pc EXCEPT ![p] = where]

\* Another call is between naming a slot and filling it, or finding and copying it.
Filling(p, s) == \E q \in Procs \ {p} : pc[q] = "fill" /\ call[q].idx = s
Copying(p, s) == \E q \in Procs \ {p} : pc[q] = "hit" /\ call[q].idx = s

\* fat32FATfetch begins: the lookup, and on a miss the sector from the disk.
Lookup(p) ==
  LET sector == SectorOf(call[p].want)
      s == Min(Cached(sector))
  IN /\ pc[p] = "lookup"
     /\ \/ /\ Cached(sector) # {}
           /\ call' = [call EXCEPT ![p].idx = s]
           /\ torn' = (torn \/ Filling(p, s))
           /\ Going(p, "hit")
        \/ /\ Cached(sector) = {}
           /\ call' = [call EXCEPT ![p].bytes = sector]
           /\ Going(p, "miss")
           /\ UNCHANGED torn
     /\ UNCHANGED <<cacheBase, cache, cacheCurr, fd>>

\* fat32FATcacheAdd names the slot, ...
Miss(p) ==
  LET s == NextSlot(cacheCurr)
  IN /\ pc[p] = "miss"
     /\ cacheCurr' = s
     /\ cacheBase' = [cacheBase EXCEPT ![s] = call[p].bytes]
     /\ call' = [call EXCEPT ![p].idx = s]
     /\ torn' = (torn \/ Filling(p, s) \/ Copying(p, s))
     /\ Going(p, "fill")
     /\ UNCHANGED <<cache, fd>>

\* ... and fills it.
Fill(p) ==
  /\ pc[p] = "fill"
  /\ cache' = [cache EXCEPT ![call[p].idx] = call[p].bytes]
  /\ cacheCurr' = cacheCurr + 1
  /\ Going(p, "fetched")
  /\ UNCHANGED <<cacheBase, fd, call, torn>>

Hit(p) ==
  /\ pc[p] = "hit"
  /\ call' = [call EXCEPT ![p].bytes = cache[call[p].idx]]
  /\ Going(p, "fetched")
  /\ UNCHANGED <<cacheBase, cache, cacheCurr, fd, torn>>

\* fat32FATtraverse returns to fat32FATchain, fat32Seek or fat32Getdents64.
Fetched(p) ==
  LET cl == EntryIn(call[p].bytes, call[p].want)
      c == [call[p] EXCEPT !.want = cl, !.idx = 0, !.bytes = None]
  IN /\ pc[p] = "fetched"
     /\ \/ /\ c.op = "read"
           /\ call' = [call EXCEPT ![p] = [c EXCEPT !.chain = Append(@, cl)]]
           /\ Going(p, IF Len(c.chain) = c.needed THEN "loop" ELSE "lookup")
           /\ UNCHANGED fd
        \/ /\ c.op = "seek"
           /\ fd' = [fd EXCEPT ![p].curr = cl]
           /\ call' = [call EXCEPT ![p] = [c EXCEPT !.left = @ - 1]]
           /\ Going(p, IF cl = 0 \/ c.left = 1 THEN "return" ELSE "lookup")
        \/ /\ c.op = "dents"
           /\ fd' = [fd EXCEPT ![p].curr = cl]
           /\ call' = [call EXCEPT ![p] = c]
           /\ Going(p, IF cl = 0 THEN "return" ELSE "scan")
     /\ UNCHANGED <<cacheBase, cache, cacheCurr, torn>>

Return(p) ==
  /\ pc[p] = "return"
  /\ call' = [call EXCEPT ![p] = NoCall]
  /\ Going(p, "idle")
  /\ UNCHANGED <<cacheBase, cache, cacheCurr, fd, torn>>

-----------------------------------------------------------------------------
\* fat32Read: the chain of clusters from directoryCurr, one more than needed.
Read(p, limit) ==
  LET needed == (limit + Bpc - 1) \div Bpc
  IN /\ Idle(p) /\ ~fd[p].ent.dir
     /\ call' = [call EXCEPT ![p] = [NoCall EXCEPT
                   !.op = "read", !.limit = limit, !.needed = needed, !.from = fd[p].ptr,
                   !.chain = <<fd[p].curr>>, !.want = fd[p].curr]]
     /\ Going(p, IF needed = 0 THEN "loop" ELSE "lookup")
     /\ UNCHANGED <<cacheBase, cache, cacheCurr, fd, torn>>

\* What the comparison with the next link of the chain may give: behind the last
\* link it reads past the end of the array.
Follows(c) ==
  IF c.i + 2 <= Len(c.chain) THEN {c.chain[c.i + 2] = c.chain[c.i + 1] + 1} ELSE BOOLEAN

\* The bytes copied from n clusters that begin with cl on the disk.
Copied(p, cl, n) ==
  LET offset == fd[p].ptr % Bpc
      count == Min({n * Bpc - offset, call[p].limit - Len(call[p].data), fd[p].ent.size - fd[p].ptr})
  IN [k \in 1 .. count |-> <<cl + (offset + k - 1) \div Bpc, (offset + k - 1) % Bpc>>]

\* One turn of the loop: clusters that follow each other on the disk are put off
\* and read together; the call ends when the caller or the file has had enough.
Loop(p) ==
  LET c == call[p]
      cl == c.chain[c.i + 1]
      last == c.i = c.needed - 1
      start == IF c.start = None THEN c.i ELSE c.start
      n == c.i - start + 1
      bytes == Copied(p, c.chain[start + 1], n)
      full == Len(bytes) = n * Bpc - (fd[p].ptr % Bpc)
      more == c.i < c.needed
  IN /\ pc[p] = "loop"
     /\ \/ /\ cl = 0
           /\ Going(p, "return")
           /\ UNCHANGED <<fd, call>>
        \/ /\ cl # 0 /\ ~last /\ TRUE \in Follows(c)
           /\ fd' = [fd EXCEPT ![p].curr = cl]
           /\ call' = [call EXCEPT ![p].i = @ + 1, ![p].start = start]
           /\ Going(p, IF more THEN "loop" ELSE "return")
        \/ /\ cl # 0 /\ (last \/ FALSE \in Follows(c))
           /\ fd' = [fd EXCEPT ![p].curr = cl, ![p].ptr = @ + Len(bytes)]
           /\ call' = [call EXCEPT ![p].i = @ + 1, ![p].start = None, ![p].data = @ \o bytes]
           /\ Going(p, IF more /\ full THEN "loop" ELSE "return")
     /\ UNCHANGED <<cacheBase, cache, cacheCurr, torn>>

-----------------------------------------------------------------------------
\* fat32Seek within the file: the difference of the cluster numbers is unsigned,
\* so after a step back over a cluster the loop runs to the end of the chain.
Seek(p, to, cur) ==
  LET old == fd[p].ptr
      target == IF cur THEN to + old ELSE to
      skip == target \div Bpc - old \div Bpc
      curr == IF old > target THEN fd[p].ent.first ELSE fd[p].curr
  IN /\ Idle(p) /\ ~fd[p].ent.dir /\ target <= fd[p].ent.size
     /\ fd' = [fd EXCEPT ![p].ptr = target, ![p].curr = curr,
                         ![p].lost = IF old > target THEN old >= Bpc ELSE @]
     /\ \/ /\ skip = 0
           /\ UNCHANGED <<pc, call>>
        \/ /\ skip # 0
           /\ call' = [call EXCEPT ![p] = [NoCall EXCEPT
                         !.op = "seek", !.want = curr, !.left = IF skip > 0 THEN skip ELSE Cardinality(DOMAIN Fat)]]
           /\ Going(p, "lookup")
     /\ UNCHANGED <<cacheBase, cache, cacheCurr, torn>>

-----------------------------------------------------------------------------
\* fat32Getdents64 with room for so many names; at the end it gives nothing.
Getdents(p, room) ==
  /\ Idle(p) /\ fd[p].ent.dir /\ fd[p].curr # 0
  /\ call' = [call EXCEPT ![p] = [NoCall EXCEPT !.op = "dents", !.left = room]]
  /\ Going(p, "scan")
  /\ UNCHANGED <<cacheBase, cache, cacheCurr, fd, torn>>

\* Where the loop is behind entry k of the cluster: after the last one the next
\* cluster is looked up.
Behind(k) == IF k = PerCluster THEN "lookup" ELSE "scan"

\* One directory entry: a piece of a long name is kept, a name is handed out if
\* there is room, anything else is passed over.
Scan(p) ==
  LET c == call[p]
      k == (fd[p].ptr % PerCluster) + 1
      kind == Listing[fd[p].curr][k]
      name == [at |-> <<fd[p].curr, k>>, long |-> c.lfn, first |-> c.added = 0]
  IN /\ pc[p] = "scan"
     /\ \/ /\ kind = "name" /\ c.left = 0
           /\ Going(p, "return")
           /\ UNCHANGED <<fd, call>>
        \/ /\ kind = "name" /\ c.left > 0
           /\ fd' = [fd EXCEPT ![p].ptr = @ + 1, ![p].got = Append(@, name)]
           /\ call' = [call EXCEPT ![p].lfn = FALSE, ![p].left = @ - 1, ![p].added = @ + 1, ![p].want = fd[p].curr]
           /\ Going(p, Behind(k))
        \/ /\ kind # "name"
           /\ fd' = [fd EXCEPT ![p].ptr = @ + 1]
           /\ call' = [call EXCEPT ![p].lfn = @ \/ kind = "lfn", ![p].want = fd[p].curr]
           /\ Going(p, Behind(k))
     /\ UNCHANGED <<cacheBase, cache, cacheCurr, torn>>

-----------------------------------------------------------------------------
\* fat32Open of a path that fat32TraversePath finds, fat32Close, and the copy a
\* fork makes with fat32DuplicateNodeUnsafe.
Open(p, e) ==
  /\ ~IsOpen(p)
  /\ fd' = [fd EXCEPT ![p] = Open_(e)]
  /\ UNCHANGED <<cacheBase, cache, cacheCurr, pc, call, torn>>

Close(p) ==
  /\ Idle(p)
  /\ fd' = [fd EXCEPT ![p] = NoFd]
  /\ UNCHANGED <<cacheBase, cache, cacheCurr, pc, call, torn>>

Duplicate(p, q) ==
  /\ Idle(p) /\ ~IsOpen(q)
  /\ fd' = [fd EXCEPT ![q] = fd[p]]
  /\ UNCHANGED <<cacheBase, cache, cacheCurr, pc, call, torn>>

Step(p) ==
  \/ Lookup(p) \/ Miss(p) \/ Fill(p) \/ Hit(p) \/ Fetched(p) \/ Return(p) \/ Loop(p) \/ Scan(p)

MaxSize == Max({e.size : e \in Files})

Next ==
  \E p \in Procs :
    \/ \E e \in Files \cup Dirs : Open(p, e)
    \/ \E limit \in Limits : Read(p, limit)
    \/ \E to \in 0 .. MaxSize, cur \in BOOLEAN : Seek(p, to, cur)
    \/ \E room \in Rooms : Getdents(p, room)
    \/ Close(p)
    \/ \E q \in Procs : Duplicate(p, q)
    \/ Step(p)

Spec == Init /\ [][Next]_vars

-----------------------------------------------------------------------------
\* The clusters of a file or directory, in order.
Nth[e \in Files \cup Dirs, n \in 0 .. Cardinality(DOMAIN Fat)] ==
  IF n = 0 THEN e.first ELSE LET cl == Nth[e, n - 1] IN IF cl = 0 THEN 0 ELSE Masked(Fat[cl])

ByteOf(e, k) == <<Nth[e, k \div Bpc], k % Bpc>>

\* fat32Read returns the bytes of the file from its position on, whatever reads and
\* seeks led there and whoever else used the cache, and no fewer than it was asked
\* for, or the file has, but for the part of the first cluster that was already
\* read.  Left out: a cache slot was torn, or the last seek back came from beyond
\* the first cluster.
ReadExact ==
  ~torn =>
    \A p \in Procs :
      LET c == call[p]
          e == fd[p].ent
          due == Min({c.limit, e.size - c.from})
      IN pc[p] = "return" /\ c.op = "read" /\ ~fd[p].lost =>
           /\ c.data = [k \in 1 .. Len(c.data) |-> ByteOf(e, c.from + k - 1)]
           /\ fd[p].ptr = c.from + Len(c.data)
           /\ Len(c.data) >= due - (c.from % Bpc)
           /\ due > 0 => c.data # <<>>

\* The names of a directory as they lie on the disk.
EntryNames(e) ==
  {<<Nth[e, n], k>> : n \in 0 .. Cardinality(DOMAIN Fat), k \in 1 .. PerCluster} \cap
  {at \in (DOMAIN Listing) \X (1 .. PerCluster) : Listing[at[1]][at[2]] = "name"}

Before(e, at) ==
  LET n == CHOOSE i \in 0 .. Cardinality(DOMAIN Fat) : Nth[e, i] = at[1]
  IN IF at[2] > 1 THEN Listing[at[1]][at[2] - 1]
     ELSE IF n = 0 THEN "none" ELSE Listing[Nth[e, n - 1]][PerCluster]

\* However small the buffers, fat32Getdents64 gives every name once, and all of them by
\* the time it ends; a long name is missed only where a call had just stopped.
DirListed ==
  ~torn =>
    \A p \in Procs :
      LET f == fd[p]
      IN IsOpen(p) /\ f.ent.dir =>
           /\ \A i, j \in DOMAIN f.got : f.got[i].at = f.got[j].at => i = j
           /\ {f.got[i].at : i \in DOMAIN f.got} \subseteq EntryNames(f.ent)
           /\ f.curr = 0 => {f.got[i].at : i \in DOMAIN f.got} = EntryNames(f.ent)
           /\ \A i \in DOMAIN f.got :
                \/ f.got[i].long = (Before(f.ent, f.got[i].at) = "lfn")
                \/ f.got[i].first /\ ~f.got[i].long
=============================================================================
