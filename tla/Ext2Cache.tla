------------------------------ MODULE Ext2Cache ------------------------------
(* The page cache of one ext2 file and the list of open objects               *)
(* (ext2-cache.rs).  ext2CacheAddSecurely runs under the object's WLOCK_CACHE *)
(* but gives the lock up between clearing overlapping ranges and trying       *)
(* again; ext2CachePush moves an object to the front of a doubly linked list  *)
(* under LOCK_OBJECT after a look at the list without it.                     *)
EXTENDS Integers, Sequences, FiniteSets, FiniteSetsExt, SequencesExt

CONSTANTS
  Procs,
  FileBlocks,         \* block indices of a file
  MaxRange,      \* bound: blocks of one range
  MaxAdds,        \* bound: ranges ever added
  Objects, NoObject

VARIABLES
  cache,          \* firstCacheObj and its followers, in list order
  blocksCached,   \* mnt.blocksCached
  freed,          \* buffers given back with VirtualFree, in order
  adds,           \* buffers handed to the cache so far
  cpc, adding,    \* per process, where it is and the range it adds,
  pushing,        \* or the object it pushes
  cpanicked,       \* "blockIndex already cached" or "invalid cache insert state"
  first, next, prev,  \* the objects' list
  stale           \* a push went on although its unlocked look was out of date

cvars == <<cache, blocksCached, freed, adds, cpc, adding, pushing, cpanicked, first, next, prev, stale>>

NoRange == [blockIndex |-> 0, blocks |-> 0, buff |-> 0]

\* The open objects stand in the list in some order, here the one of `order`.
Init ==
  /\ cache = <<>> /\ blocksCached = 0 /\ freed = <<>> /\ adds = 0
  /\ cpc = [p \in Procs |-> "idle"]
  /\ adding = [p \in Procs |-> NoRange]
  /\ pushing = [p \in Procs |-> NoObject]
  /\ cpanicked = FALSE /\ stale = FALSE
  /\ LET order == SetToSeq(Objects)
         pos(o) == CHOOSE i \in DOMAIN order : order[i] = o
         at(i) == IF i \in DOMAIN order THEN order[i] ELSE NoObject
     IN /\ first = order[1]
        /\ next = [o \in Objects |-> at(pos(o) + 1)]
        /\ prev = [o \in Objects |-> at(pos(o) - 1)]

-----------------------------------------------------------------------------
\* Slips one could make in this code.
MutantCounted(r) == 1
-----------------------------------------------------------------------------
\* A cached range counts as overlapping when it starts inside the new one.
Starts(c, r) == c.blockIndex >= r.blockIndex /\ c.blockIndex < r.blockIndex + r.blocks

Overlapping(r) == {i \in DOMAIN cache : Starts(cache[i], r)}

\* What adding a range adds to blocksCached.
Counted(r) == r.blocks

\* The place in the list: before the first range that starts behind the new one.
Position(r) == Min({Len(cache) + 1} \cup {i \in DOMAIN cache : cache[i].blockIndex >= r.blockIndex})

AddCall(p, i, n) ==
  /\ cpc[p] = "idle" /\ adds < MaxAdds /\ ~cpanicked
  /\ adds' = adds + 1
  /\ adding' = [adding EXCEPT ![p] = [blockIndex |-> i, blocks |-> n, buff |-> adds + 1]]
  /\ cpc' = [cpc EXCEPT ![p] = "add"]
  /\ UNCHANGED <<cache, blocksCached, freed, pushing, cpanicked, first, next, prev, stale>>

\* No range starts inside the new one: link it in, in order.  One that starts at
\* the same block would be a panic.
Insert(p) ==
  LET r == adding[p]
  IN /\ cpc[p] = "add" /\ ~cpanicked /\ Overlapping(r) = {}
     /\ cpanicked' = \E i \in DOMAIN cache : cache[i].blockIndex = r.blockIndex
     /\ cache' = InsertAt(cache, Position(r), r)
     /\ blocksCached' = blocksCached + Counted(r)
     /\ cpc' = [cpc EXCEPT ![p] = "idle"]
     /\ adding' = [adding EXCEPT ![p] = NoRange]
     /\ UNCHANGED <<freed, adds, pushing, first, next, prev, stale>>

\* The run of ranges from the first overlapping one is unlinked and freed; then
\* the lock is released and the call begins again.
Evict(p) ==
  LET r == adding[p]
      from == Min(Overlapping(r))
      to == Min({j \in from .. Len(cache) : j = Len(cache) \/ ~Starts(cache[j + 1], r)})
      run == SubSeq(cache, from, to)
  IN /\ cpc[p] = "add" /\ ~cpanicked /\ Overlapping(r) # {}
     /\ cache' = SubSeq(cache, 1, from - 1) \o SubSeq(cache, to + 1, Len(cache))
     /\ blocksCached' = blocksCached - MapThenSumSet(LAMBDA j : run[j].blocks, DOMAIN run)
     /\ freed' = freed \o [j \in DOMAIN run |-> run[j].buff]
     /\ UNCHANGED <<adds, cpc, adding, pushing, cpanicked, first, next, prev, stale>>

-----------------------------------------------------------------------------
\* ext2CachePush: the look at the head of the list, without the lock.
PushLook(p, o) ==
  /\ cpc[p] = "idle" /\ ~cpanicked /\ first # o
  /\ pushing' = [pushing EXCEPT ![p] = o]
  /\ cpc' = [cpc EXCEPT ![p] = "push"]
  /\ UNCHANGED <<cache, blocksCached, freed, adds, adding, cpanicked, first, next, prev, stale>>

\* The back pointers once o has been taken out of its place.
Relinked(o) ==
  LET alone == [prev EXCEPT ![o] = NoObject]
  IN IF next[o] = NoObject THEN alone ELSE [alone EXCEPT ![next[o]] = prev[o]]

\* Under LOCK_OBJECT: out of its place and in at the front.
PushMove(p) ==
  LET o == pushing[p]
      front == [next EXCEPT ![o] = first]
  IN /\ cpc[p] = "push" /\ ~cpanicked
     /\ next' = IF prev[o] = NoObject THEN front ELSE [front EXCEPT ![prev[o]] = next[o]]
     /\ prev' = IF next'[o] = NoObject THEN Relinked(o) ELSE [Relinked(o) EXCEPT ![next'[o]] = o]
     /\ first' = o
     /\ stale' = (stale \/ first = o)
     /\ cpc' = [cpc EXCEPT ![p] = "idle"]
     /\ pushing' = [pushing EXCEPT ![p] = NoObject]
     /\ UNCHANGED <<cache, blocksCached, freed, adds, adding, cpanicked>>

Next ==
  \E p \in Procs :
    \/ \E i \in FileBlocks, n \in 1 .. MaxRange : AddCall(p, i, n)
    \/ Insert(p)
    \/ Evict(p)
    \/ \E o \in Objects : PushLook(p, o)
    \/ PushMove(p)

Spec == Init /\ [][Next]_cvars

-----------------------------------------------------------------------------
\* However additions interleave at the point where the lock is given up: the list
\* stays in the order of block indices, the panics are out of reach, the count of
\* cached blocks is exact, and a buffer is freed once and not while it is listed.
CacheSound ==
  /\ ~cpanicked
  /\ \A i, j \in DOMAIN cache : i < j => cache[i].blockIndex < cache[j].blockIndex
  /\ blocksCached = MapThenSumSet(LAMBDA i : cache[i].blocks, DOMAIN cache)
  /\ IsInjective(freed \o [i \in DOMAIN cache |-> cache[i].buff])

\* The objects stay one doubly linked list with every object in it, as long as no
\* push has acted on an unlocked look that was out of date.
ObjectsListed ==
  LET n == Cardinality(Objects)
      at[k \in 1 .. n] == IF k = 1 THEN first ELSE IF at[k - 1] = NoObject THEN NoObject ELSE next[at[k - 1]]
  IN ~stale => /\ {at[k] : k \in 1 .. n} = Objects /\ next[at[n]] = NoObject
               /\ \A o \in Objects : prev[o] = IF o = first THEN NoObject ELSE CHOOSE q \in Objects : next[q] = o
=============================================================================
