--------------------------- MODULE Ext2InodesProofs ---------------------------
(* The inode allocator, for any number of callers, block groups and inodes per *)
(* group, and any bitmaps the volume is mounted with.                          *)
EXTENDS Ext2Inodes, FiniteSetTheorems, WellFoundedInduction, TLAPS

-----------------------------------------------------------------------------
(* Numbers of inodes                                                         *)

\* The groups, the bits of a bitmap and the processes are finite and numbered.
LEMMA GroupsOfInodes ==
  /\ BlockGroups \in Nat /\ BlockGroups > 0 /\ PerGroup \in Nat /\ PerGroup > 0
  /\ \A g \in Groups : g \in Nat /\ g < BlockGroups
  /\ \A b \in Bits : b \in Nat /\ b < PerGroup
  /\ IsFiniteSet(Bits) /\ IsFiniteSet(Groups) /\ IsFiniteSet(Procs)
BY Ext2InodesAssumption, FS_Interval DEF Groups, Bits

\* An inode's number gives its group and its bit back.
LEMMA InodeOfBit ==
  ASSUME NEW g \in Groups, NEW b \in Bits
  PROVE  /\ InodeNumber(g, b) \in Inodes
         /\ INODE_TO_BLOCK_GROUP(InodeNumber(g, b)) = g
         /\ INODE_TO_INDEX(InodeNumber(g, b)) = b
<1> DEFINE n == PerGroup
           m == g * n
<1>1. g \in Nat /\ b \in Nat /\ n \in Nat /\ n > 0 /\ b < n /\ BlockGroups \in Nat /\ g + 1 <= BlockGroups
  BY GroupsOfInodes
<1>2. m \in Nat
  BY <1>1
<1>3. (m + b) \div n = g /\ (m + b) % n = b
  BY <1>1
<1>4. m + n <= BlockGroups * n
  BY <1>1
<1>5. m + b + 1 \in 1 .. BlockGroups * n
  BY <1>1, <1>2, <1>4
<1> DEFINE k == InodeNumber(g, b)
<1>6. k \in Inodes /\ k - 1 = m + b
  BY <1>1, <1>2, <1>5 DEF InodeNumber, Inodes
<1> HIDE DEF k, m
<1>7. (k - 1) \div n = g /\ (k - 1) % n = b
  BY <1>3, <1>6
<1> QED
  BY <1>6, <1>7 DEF INODE_TO_BLOCK_GROUP, INODE_TO_INDEX, k

\* Every inode is a bit of a group.
LEMMA BitOfInode ==
  ASSUME NEW i \in Inodes
  PROVE  /\ INODE_TO_BLOCK_GROUP(i) \in Groups /\ INODE_TO_INDEX(i) \in Bits
         /\ InodeNumber(INODE_TO_BLOCK_GROUP(i), INODE_TO_INDEX(i)) = i
<1> DEFINE n == PerGroup
           d == (i - 1) \div n
           r == (i - 1) % n
<1>1. i \in Nat /\ i >= 1 /\ i <= BlockGroups * n /\ n \in Nat /\ n > 0 /\ BlockGroups \in Nat
  BY GroupsOfInodes DEF Inodes
<1>2. d \in Nat /\ r \in 0 .. n - 1 /\ i - 1 = n * d + r
  BY <1>1
<1>3. d < BlockGroups
  BY <1>1, <1>2
<1> HIDE DEF d, r
<1>4. d \in 0 .. BlockGroups - 1 /\ d * n + r + 1 = i
  BY <1>1, <1>2, <1>3
<1> QED
  BY <1>2, <1>4 DEF INODE_TO_BLOCK_GROUP, INODE_TO_INDEX, InodeNumber, Groups, Bits, d, r

-----------------------------------------------------------------------------
(* The inductive invariant                                                   *)

PCs == {"idle", "look", "lock", "find", "delete", "write", "bgdt", "super", "unlock"}

Typed ==
  /\ used \in [Groups -> SUBSET Bits]
  /\ free_inodes \in [Groups -> Int] /\ sfree \in Int
  /\ lock \in [Groups -> Procs \cup {NoProc}]
  /\ ipc \in [Procs -> PCs] /\ call \in [Procs -> Calls]
  /\ owned \in [Procs -> SUBSET Inodes]

\* What the steps of a call know.  From the read of the bitmap to the return the
\* caller has its group's lock; the copy to be written differs from the bitmap in
\* the one bit the call is about, which a find found clear; and an inode that is
\* being deleted is no longer its caller's own.
CallSound(p) ==
  LET g == call[p].group
      b == call[p].bit
  IN /\ ipc[p] \in {"find", "delete", "write", "bgdt", "super", "unlock"} => lock[g] = p
     /\ ipc[p] \in {"look", "find"} => call[p].op = "find"
     /\ ipc[p] = "delete" => call[p].op = "delete"
     /\ ipc[p] = "write" /\ call[p].op = "find" => b \notin used[g] /\ call[p].buff = used[g] \cup {b}
     /\ ipc[p] = "write" /\ call[p].op = "delete" => call[p].buff = used[g] \ {b}
     /\ ipc[p] \in {"lock", "delete", "write"} /\ call[p].op = "delete" => InodeNumber(g, b) \notin owned[p]

\* A find that gives up lets go of the lock before it stops the kernel.
IInv ==
  /\ Typed /\ (~panicked => \A p \in Procs : CallSound(p))
  /\ InodeUnique /\ CountersTrack

\* A step of p leaves the other callers where they are.
OthersRest(p) ==
  \A q \in Procs : q # p => ipc'[q] = ipc[q] /\ call'[q] = call[q] /\ owned'[q] = owned[q]

-----------------------------------------------------------------------------
(* Counting                                                                  *)

\* Is the call of p one of those Pending counts?
Owes(p, pcs, op, gs) == ipc[p] \in pcs /\ call[p].op = op /\ call[p].group \in gs
One(yes) == IF yes THEN 1 ELSE 0

\* When one process moves, the calls between bitmap and counter change by its own.
LEMMA PendingStep ==
  ASSUME NEW p \in Procs, OthersRest(p), NEW pcs, NEW op, NEW gs
  PROVE  /\ Pending(pcs, op, gs) \in Nat
         /\ Pending(pcs, op, gs)' = Pending(pcs, op, gs) + One(Owes(p, pcs, op, gs)')
                                                         - One(Owes(p, pcs, op, gs))
<1> DEFINE S == {q \in Procs : Owes(q, pcs, op, gs)}
           T == {q \in Procs : Owes(q, pcs, op, gs)'}
<1>1. Pending(pcs, op, gs) = Cardinality(S) /\ Pending(pcs, op, gs)' = Cardinality(T)
  BY DEF Pending, Owes
<1>2. \A q \in Procs : q # p => (Owes(q, pcs, op, gs)' <=> Owes(q, pcs, op, gs))
  BY DEF OthersRest, Owes
<1>3. IsFiniteSet(S) /\ Cardinality(S) \in Nat
  <2>1. S \in SUBSET Procs
    OBVIOUS
  <2> QED BY <2>1, GroupsOfInodes, FS_Subset, FS_CardinalityType
<1>4. CASE Owes(p, pcs, op, gs)'
  <2>1. T = S \cup {p}
    BY <1>2, <1>4
  <2>2. p \in S <=> Owes(p, pcs, op, gs)
    OBVIOUS
  <2> HIDE DEF S, T
  <2>3. Cardinality(T) = IF p \in S THEN Cardinality(S) ELSE Cardinality(S) + 1
    BY <2>1, <1>3, FS_AddElement
  <2> QED BY <2>2, <2>3, <1>1, <1>3, <1>4 DEF One
<1>5. CASE ~Owes(p, pcs, op, gs)'
  <2>1. T = S \ {p}
    BY <1>2, <1>5
  <2>2. p \in S <=> Owes(p, pcs, op, gs)
    OBVIOUS
  <2> HIDE DEF S, T
  <2>3. Cardinality(T) = IF p \in S THEN Cardinality(S) - 1 ELSE Cardinality(S)
    BY Zenon, <2>1, <1>3, FS_RemoveElement
  <2> QED BY <2>2, <2>3, <1>1, <1>3, <1>5 DEF One
<1> QED BY <1>4, <1>5

\* The clear bits of a group, and of the volume, can be counted.
LEMMA ClearCounts ==
  /\ \A g \in Groups : Cardinality(Bits \ used[g]) \in Int
  /\ Cardinality(Clear) \in Int
<1>1. \A g \in Groups : Cardinality(Bits \ used[g]) \in Int
  <2> SUFFICES ASSUME NEW g \in Groups PROVE Cardinality(Bits \ used[g]) \in Int
    OBVIOUS
  <2>1. Bits \ used[g] \in SUBSET Bits
    OBVIOUS
  <2>2. Cardinality(Bits \ used[g]) \in Nat
    BY <2>1, GroupsOfInodes, FS_Subset, FS_CardinalityType
  <2> QED BY <2>2
<1>2. Cardinality(Clear) \in Int
  <2>1. IsFiniteSet(Groups \X Bits)
    BY GroupsOfInodes, FS_Product
  <2>2. Clear \in SUBSET (Groups \X Bits)
    BY DEF Clear
  <2>3. Cardinality(Clear) \in Nat
    BY <2>1, <2>2, FS_Subset, FS_CardinalityType
  <2> QED BY <2>3
<1> QED BY <1>1, <1>2

\* How many bits are clear, when one is set or cleared.
LEMMA ClearStep ==
  ASSUME Typed, NEW g \in Groups, NEW b \in Bits
  PROVE  /\ Cardinality(Bits \ used[g]) \in Int /\ Cardinality(Clear) \in Int
         /\ b \notin used[g] /\ used' = [used EXCEPT ![g] = used[g] \cup {b}] =>
              /\ Cardinality(Bits \ used'[g]) = Cardinality(Bits \ used[g]) - 1
              /\ Cardinality(Clear') = Cardinality(Clear) - 1
         /\ b \in used[g] /\ used' = [used EXCEPT ![g] = used[g] \ {b}] =>
              /\ Cardinality(Bits \ used'[g]) = Cardinality(Bits \ used[g]) + 1
              /\ Cardinality(Clear') = Cardinality(Clear) + 1
<1> DEFINE x == <<g, b>>
           F == Bits \ used[g]
<1>1. IsFiniteSet(F) /\ Cardinality(F) \in Nat
  <2>1. F \in SUBSET Bits
    OBVIOUS
  <2> QED BY <2>1, GroupsOfInodes, FS_Subset, FS_CardinalityType
<1>2. IsFiniteSet(Clear) /\ Cardinality(Clear) \in Nat
  <2>1. IsFiniteSet(Groups \X Bits)
    BY GroupsOfInodes, FS_Product
  <2>2. Clear \in SUBSET (Groups \X Bits)
    BY DEF Clear
  <2> QED BY <2>1, <2>2, FS_Subset, FS_CardinalityType
<1>3. x \in Groups \X Bits /\ (x \in Clear <=> b \notin used[g])
  BY DEF Clear
<1>4. ASSUME b \notin used[g], used' = [used EXCEPT ![g] = used[g] \cup {b}]
      PROVE  /\ Cardinality(Bits \ used'[g]) = Cardinality(F) - 1
             /\ Cardinality(Clear') = Cardinality(Clear) - 1
  <2>1. Bits \ used'[g] = F \ {b} /\ b \in F
    BY <1>4 DEF Typed
  <2>2. Clear' = Clear \ {x}
    BY <1>4 DEF Typed, Clear
  <2> HIDE DEF F, x
  <2>3. Cardinality(F \ {b}) = Cardinality(F) - 1
    BY Zenon, <1>1, <2>1, FS_RemoveElement
  <2>4. Cardinality(Clear \ {x}) = Cardinality(Clear) - 1
    BY SMTT(40), <1>2, <1>3, <1>4, FS_RemoveElement
  <2> QED BY <2>1, <2>2, <2>3, <2>4
<1>5. ASSUME b \in used[g], used' = [used EXCEPT ![g] = used[g] \ {b}]
      PROVE  /\ Cardinality(Bits \ used'[g]) = Cardinality(F) + 1
             /\ Cardinality(Clear') = Cardinality(Clear) + 1
  <2>1. Bits \ used'[g] = F \cup {b} /\ b \notin F
    BY <1>5 DEF Typed
  <2>2. Clear' = Clear \cup {x}
    BY <1>5 DEF Typed, Clear
  <2> HIDE DEF F, x
  <2>3. Cardinality(F \cup {b}) = Cardinality(F) + 1
    BY Zenon, <1>1, <2>1, FS_AddElement
  <2>4. Cardinality(Clear \cup {x}) = Cardinality(Clear) + 1
    BY Zenon, <1>2, <1>3, <1>5, FS_AddElement
  <2> QED BY <2>1, <2>2, <2>3, <2>4
<1> QED
  BY <1>1, <1>2, <1>4, <1>5

-----------------------------------------------------------------------------
(* What a step of one caller leaves to the others                            *)

\* A group that another caller has locked is not touched.
LocksRespected(p) ==
  \A g \in Groups : lock[g] \notin {p, NoProc} => lock'[g] = lock[g] /\ used'[g] = used[g]

\* A step that respects the group locks leaves the others' calls sound.
LEMMA OthersSound ==
  ASSUME IInv, ~panicked, NEW p \in Procs, OthersRest(p), LocksRespected(p)
  PROVE  \A q \in Procs : q # p => CallSound(q)'
<1> SUFFICES ASSUME NEW q \in Procs, q # p
             PROVE  CallSound(q)'
  OBVIOUS
<1>1. CallSound(q) /\ call[q] \in Calls /\ call[q].group \in Groups /\ q # NoProc
  BY Ext2InodesAssumption DEF IInv, Typed, Calls
<1>2. ipc'[q] = ipc[q] /\ call'[q] = call[q] /\ owned'[q] = owned[q]
  BY DEF OthersRest
<1>3. CASE ipc[q] \in {"find", "delete", "write", "bgdt", "super", "unlock"}
  <2>1. lock[call[q].group] = q
    BY <1>1, <1>3 DEF CallSound
  <2>2. lock'[call[q].group] = q /\ used'[call[q].group] = used[call[q].group]
    BY <1>1, <2>1 DEF LocksRespected
  <2> QED BY <1>1, <1>2, <2>2 DEF CallSound
<1>4. CASE ipc[q] \notin {"find", "delete", "write", "bgdt", "super", "unlock"}
  BY <1>1, <1>2, <1>4 DEF CallSound
<1> QED BY <1>3, <1>4

\* A step that changes no bitmap and no counter, and gives or takes no inode.
Quiet(p) ==
  /\ ~panicked /\ OthersRest(p)
  /\ used' = used /\ free_inodes' = free_inodes /\ sfree' = sfree
  /\ ipc[p] \notin {"bgdt", "super"} /\ ipc'[p] \notin {"bgdt", "super"}
  /\ Held(p)' = Held(p)

\* A step that changes no bitmap, counter or owner keeps both properties.
LEMMA QuietStep ==
  ASSUME IInv, NEW p \in Procs, Quiet(p)
  PROVE  InodeUnique' /\ CountersTrack'
<1>1. \A q \in Procs : Held(q)' = Held(q)
  BY DEF Quiet, OthersRest, Held
<1>2. InodeUnique'
  BY <1>1 DEF Quiet, IInv, InodeUnique
<1>3. ASSUME NEW pcs \in SUBSET {"bgdt", "super"}, NEW op, NEW gs
      PROVE  Pending(pcs, op, gs)' = Pending(pcs, op, gs)
  <2>1. ~Owes(p, pcs, op, gs) /\ ~Owes(p, pcs, op, gs)'
    BY Zenon, <1>3 DEF Quiet, Owes
  <2>2. OthersRest(p)
    BY DEF Quiet
  <2>3. /\ Pending(pcs, op, gs) \in Nat
        /\ Pending(pcs, op, gs)' = Pending(pcs, op, gs) + One(Owes(p, pcs, op, gs)')
                                                         - One(Owes(p, pcs, op, gs))
    BY <2>2, PendingStep
  <2> QED BY <2>1, <2>3 DEF One
<1>4. Clear' = Clear
  BY DEF Quiet, Clear
<1>5. CountersTrack'
  BY Zenon, <1>3, <1>4 DEF Quiet, IInv, CountersTrack
<1> QED BY <1>2, <1>5

\* The whole invariant after a quiet step.
LEMMA QuietInv ==
  ASSUME IInv, NEW p \in Procs, Quiet(p), LocksRespected(p), Typed', ~panicked' => CallSound(p)'
  PROVE  IInv'
<1>1. \A q \in Procs : q # p => CallSound(q)'
  BY OthersSound DEF Quiet
<1> QED
  BY <1>1, QuietStep DEF IInv

-----------------------------------------------------------------------------
(* Searches                                                                  *)

\* Min of a set of numbers is one of them.
LEMMA LeastMember ==
  ASSUME NEW S \in SUBSET Nat, S # {}
  PROVE  Min(S) \in S /\ \A y \in S : Min(S) <= y
<1>1. PICK k \in S : \A j \in S : ~(<<j, k>> \in OpToRel(<, Nat))
  BY NatLessThanWellFounded, WFMin, Zenon
<1>2. \A j \in S : ~(j < k)
  BY Zenon, <1>1 DEF OpToRel
<1>3. \E x \in S : \A y \in S : x <= y
  BY <1>2
<1> QED
  BY Zenon, <1>3 DEF Min

\* The bit a search finds is clear in the bitmap.
LEMMA FindBitClear ==
  ASSUME Typed, NEW g \in Groups, FindBit(g) # 0
  PROVE  FindBit(g) \in Bits /\ FindBit(g) \notin used[g]
<1> DEFINE clear == {b \in Bits \ used[g] : g = 0 => b >= FirstInode}
           found == IF 0 \in clear THEN {b \in clear : b >= ByteBits} ELSE clear
<1>1. found \in SUBSET (Bits \ used[g]) /\ found \in SUBSET Nat
  BY GroupsOfInodes
<1>2. FindBit(g) = IF found = {} THEN 0 ELSE Min(found)
  BY DEF FindBit
<1> HIDE DEF found
<1>3. found # {} /\ FindBit(g) = Min(found)
  BY <1>2
<1>4. Min(found) \in found
  BY <1>1, <1>3, LeastMember
<1> QED BY Zenon, <1>1, <1>3, <1>4

\* The group looked at next exists, or the search is over.
LEMMA NextGroupSound ==
  ASSUME NEW c \in Calls
  PROVE  NextGroup(c) \in 0 .. BlockGroups
<1> DEFINE S == {i \in c.at + 1 .. BlockGroups : i # c.hint}
<1>1. c.at \in -1 .. BlockGroups - 1 /\ c.hint \in 0 .. BlockGroups - 1 /\ BlockGroups \in Nat
  BY GroupsOfInodes DEF Calls, Groups
<1>2. BlockGroups \in S /\ S \in SUBSET Nat /\ S \in SUBSET (0 .. BlockGroups)
  BY <1>1
<1>3. NextGroup(c) = Min(S)
  BY DEF NextGroup
<1> HIDE DEF S
<1>4. Min(S) \in S
  BY <1>2, LeastMember
<1> QED BY Zenon, <1>2, <1>3, <1>4

-----------------------------------------------------------------------------
(* The steps of a call                                                       *)

\* What every step knows of its caller.
LEMMA CallerFacts ==
  ASSUME IInv, ~panicked, NEW p \in Procs
  PROVE  /\ Typed /\ CallSound(p) /\ p # NoProc
         /\ call[p] \in Calls /\ call[p].group \in Groups /\ call[p].bit \in Bits
         /\ call[p].op \in {"find", "delete"} /\ ipc[p] \in PCs
         /\ call[p] = [op |-> call[p].op, group |-> call[p].group, hint |-> call[p].hint,
                       at |-> call[p].at, bit |-> call[p].bit, buff |-> call[p].buff]
BY Ext2InodesAssumption DEF IInv, Typed, Calls

\* The empty call is a call.
LEMMA NoCallTyped == NoCall \in Calls
BY GroupsOfInodes DEF NoCall, Calls, Groups, Bits

\* The locals a call starts with, and what its steps set in them.
LEMMA LocalsSet ==
  ASSUME NEW c \in Calls, NEW g \in Groups, NEW b \in Bits
  PROVE  /\ [c EXCEPT !.group = g, !.hint = g] =
              [op |-> c.op, group |-> g, hint |-> g, at |-> c.at, bit |-> c.bit, buff |-> c.buff]
         /\ [c EXCEPT !.at = g, !.group = g] =
              [op |-> c.op, group |-> g, hint |-> c.hint, at |-> g, bit |-> c.bit, buff |-> c.buff]
         /\ [c EXCEPT !.op = "delete", !.group = g, !.bit = b] =
              [op |-> "delete", group |-> g, hint |-> c.hint, at |-> c.at, bit |-> b, buff |-> c.buff]
<1>1. g \in -1 .. BlockGroups - 1
  BY GroupsOfInodes DEF Groups
<1>2. [c EXCEPT !.group = g, !.hint = g] =
        [op |-> c.op, group |-> g, hint |-> g, at |-> c.at, bit |-> c.bit, buff |-> c.buff]
  <2> DEFINE d == [c EXCEPT !.group = g]
  <2>1. d \in Calls /\ d.op = c.op /\ d.group = g /\ d.at = c.at /\ d.bit = c.bit /\ d.buff = c.buff
    BY DEF Calls
  <2> SUFFICES [d EXCEPT !.hint = g] =
        [op |-> c.op, group |-> g, hint |-> g, at |-> c.at, bit |-> c.bit, buff |-> c.buff]
    OBVIOUS
  <2> HIDE DEF d
  <2> QED BY <2>1 DEF Calls
<1>3. [c EXCEPT !.at = g, !.group = g] =
        [op |-> c.op, group |-> g, hint |-> c.hint, at |-> g, bit |-> c.bit, buff |-> c.buff]
  <2> DEFINE d == [c EXCEPT !.at = g]
  <2>1. d \in Calls /\ d.op = c.op /\ d.hint = c.hint /\ d.at = g /\ d.bit = c.bit /\ d.buff = c.buff
    BY <1>1 DEF Calls
  <2> SUFFICES [d EXCEPT !.group = g] =
        [op |-> c.op, group |-> g, hint |-> c.hint, at |-> g, bit |-> c.bit, buff |-> c.buff]
    OBVIOUS
  <2> HIDE DEF d
  <2> QED BY <2>1 DEF Calls
<1>4. [c EXCEPT !.op = "delete", !.group = g, !.bit = b] =
        [op |-> "delete", group |-> g, hint |-> c.hint, at |-> c.at, bit |-> b, buff |-> c.buff]
  <2> DEFINE d == [c EXCEPT !.op = "delete"]
             e == [d EXCEPT !.group = g]
  <2>1. d \in Calls /\ d.op = "delete" /\ d.hint = c.hint /\ d.at = c.at /\ d.buff = c.buff
    BY DEF Calls
  <2> SUFFICES [e EXCEPT !.bit = b] =
        [op |-> "delete", group |-> g, hint |-> c.hint, at |-> c.at, bit |-> b, buff |-> c.buff]
    OBVIOUS
  <2> HIDE DEF d
  <2>2. e \in Calls /\ e.op = "delete" /\ e.group = g /\ e.hint = c.hint /\ e.at = c.at /\ e.buff = c.buff
    BY <2>1 DEF Calls
  <2> HIDE DEF e
  <2> QED BY <2>2 DEF Calls
<1> QED BY <1>2, <1>3, <1>4

\* What finding a bit changes in a call.
LEMMA FoundSet ==
  ASSUME NEW c \in Calls, NEW b \in Bits, NEW B \in SUBSET Bits
  PROVE  [c EXCEPT !.bit = b, !.buff = B] =
           [op |-> c.op, group |-> c.group, hint |-> c.hint, at |-> c.at, bit |-> b, buff |-> B]
<1> DEFINE d == [c EXCEPT !.bit = b]
<1>1. d \in Calls /\ d.op = c.op /\ d.group = c.group /\ d.hint = c.hint /\ d.at = c.at /\ d.bit = b
  BY DEF Calls
<1> SUFFICES [d EXCEPT !.buff = B] =
      [op |-> c.op, group |-> c.group, hint |-> c.hint, at |-> c.at, bit |-> b, buff |-> B]
  OBVIOUS
<1> HIDE DEF d
<1> QED BY <1>1 DEF Calls

\* Beginning ext2InodeFind keeps the invariant,
LEMMA FindCallInv ==
  ASSUME IInv, NEW p \in Procs, NEW hint \in Groups, FindCall(p, hint)
  PROVE  IInv'
<1> DEFINE c == [NoCall EXCEPT !.group = hint, !.hint = hint]
<1>t. ~panicked /\ Typed /\ CallSound(p) /\ ipc[p] = "idle"
  BY Zenon, CallerFacts DEF FindCall
<1>u. UNCHANGED <<used, free_inodes, sfree, lock, owned>>
  BY DEF FindCall
<1>l. LocksRespected(p)
  BY <1>u DEF LocksRespected
<1>1. CASE UNCHANGED <<ipc, call>>
  <2>1. Typed' /\ CallSound(p)'
    BY <1>1, <1>t, <1>u DEF Typed, CallSound
  <2>2. Quiet(p)
    BY <1>1, <1>t, <1>u DEF Quiet, OthersRest, Held
  <2> QED BY <2>1, <2>2, <1>l, QuietInv
<1>2. CASE ipc' = [ipc EXCEPT ![p] = "look"] /\ call' = [call EXCEPT ![p] = c]
  <2>0. c = [op |-> NoCall.op, group |-> hint, hint |-> hint, at |-> NoCall.at, bit |-> NoCall.bit,
             buff |-> NoCall.buff]
    BY Zenon, NoCallTyped, LocalsSet DEF Calls
  <2>1. c \in Calls /\ c.op = "find"
    BY <2>0, NoCallTyped DEF Calls, NoCall
  <2> HIDE DEF c
  <2>2. Typed'
    BY <1>2, <1>t, <1>u, <2>1 DEF Typed, PCs
  <2>3. ipc'[p] = "look" /\ call'[p] = c
    BY <1>2, <1>t DEF Typed
  <2>4. CallSound(p)'
    BY <2>1, <2>3 DEF CallSound
  <2>5. OthersRest(p)
    BY <1>2, <1>t, <1>u DEF OthersRest, Typed
  <2>6. Held(p)' = Held(p)
    BY <2>3, <1>t, <1>u DEF Held
  <2>7. Quiet(p)
    BY <2>3, <2>5, <2>6, <1>t, <1>u DEF Quiet
  <2> QED BY <2>2, <2>4, <2>7, <1>l, QuietInv
<1> QED
  BY <1>1, <1>2 DEF FindCall

\* Going on to the next group, or giving up.
LEMMA TryNextSound ==
  ASSUME Typed, NEW p \in Procs, TryNext(p)
  PROVE  /\ ipc' \in [Procs -> PCs] /\ call' \in [Procs -> Calls]
         /\ \A q \in Procs : q # p => ipc'[q] = ipc[q] /\ call'[q] = call[q]
         /\ call'[p].op = call[p].op
         /\ ipc'[p] = "look" \/ (ipc' = ipc /\ call' = call)
<1> DEFINE i == NextGroup(call[p])
           c == [op |-> call[p].op, group |-> i, hint |-> call[p].hint, at |-> i,
                 bit |-> call[p].bit, buff |-> call[p].buff]
<1>1. call[p] \in Calls /\ i \in 0 .. BlockGroups /\ BlockGroups \in Nat
  BY NextGroupSound, GroupsOfInodes DEF Typed
<1>2. CASE UNCHANGED <<ipc, call>>
  BY <1>2 DEF Typed
<1>3. CASE i < BlockGroups /\ ipc' = [ipc EXCEPT ![p] = "look"]
           /\ call' = [call EXCEPT ![p] = [@ EXCEPT !.at = i, !.group = i]]
  <2>1. i \in Groups /\ i \in -1 .. BlockGroups - 1
    BY <1>1, <1>3 DEF Groups
  <2> HIDE DEF i
  <2>2. c \in Calls
    BY <1>1, <2>1 DEF Calls
  <2>3. [call[p] EXCEPT !.at = i, !.group = i] = c
    BY Zenon, <1>1, <2>1, LocalsSet DEF Calls
  <2>4. call' = [call EXCEPT ![p] = c]
    BY Zenon, <1>3, <2>3 DEF Typed
  <2> QED BY Zenon, <1>3, <2>2, <2>4 DEF Typed, PCs
<1> QED
  BY <1>2, <1>3 DEF TryNext

\* looking at a group's counter without its lock does,
LEMMA LookInv ==
  ASSUME IInv, NEW p \in Procs, Look(p)
  PROVE  IInv'
<1>t. /\ ~panicked /\ Typed /\ CallSound(p) /\ ipc[p] = "look" /\ call[p].op = "find"
  BY Zenon, CallerFacts DEF Look, CallSound
<1>u. UNCHANGED <<used, free_inodes, sfree, lock, owned>>
  BY DEF Look
<1>l. LocksRespected(p)
  BY <1>u DEF LocksRespected
<1>1. /\ ipc' \in [Procs -> PCs] /\ call' \in [Procs -> Calls]
      /\ \A q \in Procs : q # p => ipc'[q] = ipc[q] /\ call'[q] = call[q]
      /\ call'[p].op = "find" /\ ipc'[p] \in {"look", "lock"}
  <2>1. CASE TryNext(p)
    BY <2>1, <1>t, TryNextSound
  <2>2. CASE ipc' = [ipc EXCEPT ![p] = "lock"] /\ call' = call
    BY <2>2, <1>t DEF Typed, PCs
  <2> QED BY <2>1, <2>2 DEF Look
<1>2. Typed'
  BY <1>1, <1>t, <1>u DEF Typed
<1>3. CallSound(p)'
  BY <1>1 DEF CallSound
<1>4. Held(p)' = Held(p)
  BY <1>1, <1>t, <1>u DEF Held
<1>5. Quiet(p)
  BY <1>1, <1>4, <1>t, <1>u DEF Quiet, OthersRest
<1> QED
  BY <1>2, <1>3, <1>5, <1>l, QuietInv

\* beginning ext2InodeDelete does,
LEMMA DeleteCallInv ==
  ASSUME IInv, NEW p \in Procs, NEW inode \in Inodes, DeleteCall(p, inode)
  PROVE  IInv'
<1> DEFINE g == INODE_TO_BLOCK_GROUP(inode)
           b == INODE_TO_INDEX(inode)
           c == [op |-> "delete", group |-> g, hint |-> 0, at |-> -1, bit |-> b, buff |-> {}]
<1>t. ~panicked /\ Typed /\ ipc[p] = "idle" /\ inode \in owned[p]
  BY Zenon, CallerFacts DEF DeleteCall
<1>n. g \in Groups /\ b \in Bits /\ InodeNumber(g, b) = inode
  BY BitOfInode
<1> HIDE DEF g, b
<1>u. UNCHANGED <<used, free_inodes, sfree, lock>>
  BY DEF DeleteCall
<1>l. LocksRespected(p)
  BY <1>u DEF LocksRespected
<1>0. [NoCall EXCEPT !.op = "delete", !.group = g, !.bit = b] = c
  <2>1. [NoCall EXCEPT !.op = "delete", !.group = g, !.bit = b] =
          [op |-> "delete", group |-> g, hint |-> NoCall.hint, at |-> NoCall.at, bit |-> b,
           buff |-> NoCall.buff]
    BY Zenon, <1>n, NoCallTyped, LocalsSet
  <2> QED BY <2>1 DEF NoCall
<1>1. /\ owned' = [owned EXCEPT ![p] = owned[p] \ {inode}]
      /\ call' = [call EXCEPT ![p] = c] /\ ipc' = [ipc EXCEPT ![p] = "lock"]
  BY Zenon, <1>0 DEF DeleteCall, g, b
<1>2. c \in Calls /\ c.op = "delete" /\ c.group = g /\ c.bit = b
  BY <1>n, GroupsOfInodes DEF Calls, Groups
<1> HIDE DEF c
<1>3. Typed'
  BY <1>1, <1>2, <1>t, <1>u DEF Typed, PCs
<1>4. ipc'[p] = "lock" /\ call'[p] = c /\ owned'[p] = owned[p] \ {inode}
  BY <1>1, <1>t DEF Typed
<1>5. CallSound(p)'
  BY <1>2, <1>4, <1>n DEF CallSound
<1>6. OthersRest(p)
  BY <1>1, <1>t DEF OthersRest, Typed
<1>7. Held(p)' = Held(p)
  BY <1>2, <1>4, <1>n, <1>t DEF Held
<1>8. Quiet(p)
  BY <1>4, <1>6, <1>7, <1>t, <1>u DEF Quiet
<1> QED
  BY <1>3, <1>5, <1>8, <1>l, QuietInv

\* taking the group's lock does,
LEMMA LockInv ==
  ASSUME IInv, NEW p \in Procs, Lock(p)
  PROVE  IInv'
<1> DEFINE g == call[p].group
<1>t. /\ ~panicked /\ Typed /\ CallSound(p) /\ ipc[p] = "lock" /\ g \in Groups /\ lock[g] = NoProc
      /\ call[p].op \in {"find", "delete"}
  BY Zenon, CallerFacts DEF Lock, Grantable
<1>1. /\ UNCHANGED <<used, free_inodes, sfree, call, owned>>
      /\ lock' = [lock EXCEPT ![g] = p] /\ ipc' = [ipc EXCEPT ![p] = call[p].op]
  BY DEF Lock
<1>2. Typed'
  BY <1>1, <1>t DEF Typed, PCs
<1>3. lock'[g] = p /\ ipc'[p] = call[p].op
  BY <1>1, <1>t DEF Typed
<1>4. CallSound(p)'
  BY <1>1, <1>3, <1>t DEF CallSound
<1>5. LocksRespected(p)
  BY <1>1, <1>t DEF LocksRespected, Typed
<1>6. Held(p)' = Held(p)
  BY <1>1, <1>3, <1>t DEF Held
<1>7. Quiet(p)
  BY <1>1, <1>3, <1>6, <1>t DEF Quiet, OthersRest, Typed
<1> QED
  BY <1>2, <1>4, <1>5, <1>7, QuietInv

\* setting the first clear bit of the bitmap on disk does,
LEMMA FindInv ==
  ASSUME IInv, NEW p \in Procs, Find(p)
  PROVE  IInv'
<1> DEFINE g == call[p].group
           b == FindBit(g)
           c == [op |-> call[p].op, group |-> g, hint |-> call[p].hint, at |-> call[p].at,
                 bit |-> b, buff |-> used[g] \cup {b}]
<1>t. /\ ~panicked /\ Typed /\ CallSound(p) /\ ipc[p] = "find" /\ g \in Groups
      /\ call[p].op = "find" /\ lock[g] = p /\ call[p] \in Calls
  BY Zenon, CallerFacts DEF Find, CallSound
<1>u. UNCHANGED <<used, free_inodes, sfree, owned>>
  BY DEF Find
<1>1. CASE /\ b # 0 /\ lock' = lock /\ ipc' = [ipc EXCEPT ![p] = "write"]
           /\ call' = [call EXCEPT ![p] = [@ EXCEPT !.bit = b, !.buff = used[g] \cup {b}]]
  <2>1. b \in Bits /\ b \notin used[g] /\ used[g] \cup {b} \in SUBSET Bits
    BY <1>1, <1>t, FindBitClear DEF Typed
  <2> HIDE DEF b
  <2>2. [call[p] EXCEPT !.bit = b, !.buff = used[g] \cup {b}] = c
    <3> DEFINE B == used[g] \cup {b}
    <3>1. B \in SUBSET Bits
      BY <2>1
    <3> HIDE DEF B
    <3>2. [call[p] EXCEPT !.bit = b, !.buff = B] =
            [op |-> call[p].op, group |-> g, hint |-> call[p].hint, at |-> call[p].at,
             bit |-> b, buff |-> B]
      BY ZenonT(60), <1>t, <2>1, <3>1, FoundSet
    <3> QED BY <3>2 DEF B
  <2>3. /\ c \in Calls /\ c.op = "find" /\ c.group = g /\ c.bit = b /\ c.buff = used[g] \cup {b}
    BY <1>t, <2>1 DEF Calls
  <2> HIDE DEF c
  <2>4. call' = [call EXCEPT ![p] = c]
    BY ZenonT(60), <1>1, <1>t, <2>2 DEF Typed
  <2>5. ipc'[p] = "write" /\ call'[p] = c
    BY <1>1, <1>t, <2>4 DEF Typed
  <2>6. Typed'
    BY <1>1, <1>t, <1>u, <2>3, <2>4 DEF Typed, PCs
  <2>7. CallSound(p)'
    BY <1>1, <1>t, <1>u, <2>1, <2>3, <2>5 DEF CallSound
  <2>8. OthersRest(p) /\ LocksRespected(p)
    BY <1>1, <1>t, <1>u, <2>4 DEF OthersRest, LocksRespected, Typed
  <2>9. Held(p)' = Held(p)
    BY <1>t, <1>u, <2>3, <2>5 DEF Held
  <2>10. Quiet(p)
    BY <1>t, <1>u, <2>5, <2>8, <2>9 DEF Quiet
  <2> QED BY <2>6, <2>7, <2>8, <2>10, QuietInv
<1>2. CASE lock' = [lock EXCEPT ![g] = NoProc] /\ TryNext(p)
  <2>1. /\ ipc' \in [Procs -> PCs] /\ call' \in [Procs -> Calls]
        /\ \A q \in Procs : q # p => ipc'[q] = ipc[q] /\ call'[q] = call[q]
        /\ call'[p].op = "find"
        /\ ipc'[p] = "look" \/ ipc'[p] = ipc[p]
    BY <1>2, <1>t, TryNextSound
  <2>2. ~panicked' => ipc'[p] = "look"
    BY <1>2, <1>t DEF TryNext, Typed
  <2>3. Typed'
    BY <1>2, <1>t, <1>u, <2>1 DEF Typed
  <2>4. ~panicked' => CallSound(p)'
    BY <2>1, <2>2 DEF CallSound
  <2>5. OthersRest(p) /\ LocksRespected(p)
    BY <1>2, <1>t, <1>u, <2>1 DEF OthersRest, LocksRespected, Typed
  <2>6. Held(p)' = Held(p)
    BY <1>t, <1>u, <2>1 DEF Held
  <2>7. Quiet(p)
    BY <1>t, <1>u, <2>1, <2>5, <2>6 DEF Quiet
  <2> QED BY <2>3, <2>4, <2>5, <2>7, QuietInv
<1> QED
  BY <1>1, <1>2 DEF Find

\* clearing the inode's bit does,
LEMMA DeleteInv ==
  ASSUME IInv, NEW p \in Procs, Delete(p)
  PROVE  IInv'
<1> DEFINE g == call[p].group
           B == used[g] \ {call[p].bit}
           c == [call[p] EXCEPT !.buff = B]
<1>t. /\ ~panicked /\ Typed /\ CallSound(p) /\ ipc[p] = "delete" /\ g \in Groups
      /\ call[p].op = "delete" /\ lock[g] = p /\ call[p] \in Calls
  BY Zenon, CallerFacts DEF Delete, CallSound
<1>u. UNCHANGED <<used, free_inodes, sfree, lock, owned>>
  BY DEF Delete
<1>1. ipc' = [ipc EXCEPT ![p] = "write"] /\ call' = [call EXCEPT ![p] = c]
  BY DEF Delete
<1>2. B \in SUBSET Bits
  BY <1>t DEF Typed
<1>3. c \in Calls /\ c.op = "delete" /\ c.group = g /\ c.bit = call[p].bit /\ c.buff = B
  BY <1>2, <1>t DEF Calls
<1> HIDE DEF c
<1>4. ipc'[p] = "write" /\ call'[p] = c
  BY <1>1, <1>t DEF Typed
<1>5. Typed'
  BY <1>1, <1>3, <1>t, <1>u DEF Typed, PCs
<1>6. CallSound(p)'
  BY <1>3, <1>4, <1>t, <1>u DEF CallSound
<1>7. OthersRest(p) /\ LocksRespected(p)
  BY <1>1, <1>t, <1>u DEF OthersRest, LocksRespected, Typed
<1>8. Held(p)' = Held(p)
  BY <1>3, <1>4, <1>t, <1>u DEF Held
<1>9. Quiet(p)
  BY SMTT(40), <1>4, <1>7, <1>8, <1>t, <1>u DEF Quiet
<1> QED
  BY <1>5, <1>6, <1>7, <1>9, QuietInv

\* and returning to the caller does.
LEMMA ReturnInv ==
  ASSUME IInv, NEW p \in Procs, Return(p)
  PROVE  IInv'
<1> DEFINE g == call[p].group
           b == call[p].bit
           mine == IF call[p].op = "find" THEN owned[p] \cup {InodeNumber(g, b)} ELSE owned[p]
<1>t. /\ ~panicked /\ Typed /\ CallSound(p) /\ ipc[p] = "unlock" /\ g \in Groups /\ b \in Bits
      /\ call[p].op \in {"find", "delete"} /\ lock[g] = p
  BY Zenon, CallerFacts DEF Return, CallSound
<1>1. /\ UNCHANGED <<used, free_inodes, sfree>>
      /\ lock' = [lock EXCEPT ![g] = NoProc] /\ owned' = [owned EXCEPT ![p] = mine]
      /\ ipc' = [ipc EXCEPT ![p] = "idle"] /\ call' = [call EXCEPT ![p] = NoCall]
  BY DEF Return
<1>2. mine \in SUBSET Inodes
  BY <1>t, InodeOfBit DEF Typed
<1>3. mine = Held(p)
  BY <1>t DEF Held
<1> HIDE DEF mine
<1>4. Typed'
  BY <1>1, <1>2, <1>t, NoCallTyped DEF Typed, PCs
<1>5. ipc'[p] = "idle" /\ owned'[p] = mine
  BY <1>1, <1>t DEF Typed
<1>6. CallSound(p)'
  BY <1>5 DEF CallSound
<1>7. OthersRest(p) /\ LocksRespected(p)
  BY <1>1, <1>t DEF OthersRest, LocksRespected, Typed
<1>8. Held(p)' = Held(p)
  BY <1>3, <1>5 DEF Held
<1>9. Quiet(p)
  BY <1>1, <1>5, <1>7, <1>8, <1>t DEF Quiet
<1> QED
  BY <1>4, <1>6, <1>7, <1>9, QuietInv

\* The write of the bitmap is where a find takes its inode and a delete gives it
\* up, and where the counters fall behind.
LEMMA WriteBitmapInv ==
  ASSUME IInv, NEW p \in Procs, WriteBitmap(p)
  PROVE  IInv'
<1> DEFINE g == call[p].group
           b == call[p].bit
           n == InodeNumber(g, b)
           c == [call[p] EXCEPT !.buff = {}]
           finds == call[p].op = "find"
           group(i) == INODE_TO_BLOCK_GROUP(i)
           bit(i) == INODE_TO_INDEX(i)
<1>t. /\ ~panicked /\ Typed /\ CallSound(p) /\ ipc[p] = "write" /\ g \in Groups /\ b \in Bits
      /\ call[p].op \in {"find", "delete"} /\ lock[g] = p /\ call[p] \in Calls
  BY Zenon, CallerFacts DEF WriteBitmap, CallSound
<1>n. n \in Inodes /\ group(n) = g /\ bit(n) = b
  BY <1>t, InodeOfBit
<1>d. ~finds => n \in Held(p) /\ n \notin owned[p] /\ b \in used[g]
  <2>1. ~finds => n \in Held(p) /\ n \notin owned[p]
    BY <1>t DEF Held, CallSound
  <2> QED BY <2>1, <1>n DEF IInv, InodeUnique
<1>1. /\ UNCHANGED <<free_inodes, sfree, lock, owned, panicked>>
      /\ used' = [used EXCEPT ![g] = call[p].buff]
      /\ ipc' = [ipc EXCEPT ![p] = "bgdt"] /\ call' = [call EXCEPT ![p] = c]
  BY DEF WriteBitmap
<1>2. /\ finds => b \notin used[g] /\ call[p].buff = used[g] \cup {b}
      /\ ~finds => call[p].buff = used[g] \ {b}
  BY <1>t DEF CallSound
<1>3. c \in Calls /\ c.op = call[p].op /\ c.group = g /\ c.bit = b
  BY <1>t DEF Calls
<1> HIDE DEF c
<1>4. ipc'[p] = "bgdt" /\ call'[p] = c
  BY <1>1, <1>t DEF Typed
<1>5. Typed'
  BY SMTT(40), <1>1, <1>3, <1>t DEF Typed, PCs, Calls
<1>6. CallSound(p)'
  BY <1>1, <1>3, <1>4, <1>t DEF CallSound
<1>7. OthersRest(p) /\ LocksRespected(p)
  BY <1>1, <1>t DEF OthersRest, LocksRespected, Typed
<1>8. \A q \in Procs : q # p => CallSound(q)'
  BY <1>7, <1>t, OthersSound
<1>h. \A q \in Procs : Held(q) \subseteq Inodes
  <2> SUFFICES ASSUME NEW q \in Procs PROVE Held(q) \subseteq Inodes
    OBVIOUS
  <2>1. InodeNumber(call[q].group, call[q].bit) \in Inodes
    BY ZenonT(60), <1>t, CallerFacts, InodeOfBit
  <2>2. owned[q] \subseteq Inodes
    BY <1>t DEF Typed
  <2> QED BY <2>1, <2>2 DEF Held
<1>q. \A q \in Procs : q # p => Held(q)' = Held(q)
  BY <1>7 DEF OthersRest, Held
<1>9. InodeUnique'
  <2> DEFINE marked(i) == bit(i) \in used[group(i)]
             marked1(i) == bit(i) \in used'[group(i)]
  <2>u. /\ \A q, r \in Procs : q # r => Held(q) \cap Held(r) = {}
        /\ \A q \in Procs : \A i \in Held(q) : marked(i)
    BY DEF IInv, InodeUnique
  <2>s. /\ \A i \in Inodes : group(i) \in Groups /\ bit(i) \in Bits
        /\ \A i \in Inodes : group(i) = g /\ bit(i) = b => i = n
    BY BitOfInode
  <2>1. CASE finds
    <3>1. Held(p)' = owned[p] \cup {n} /\ owned[p] = Held(p)
      BY SMTT(40), <2>1, <1>1, <1>3, <1>4, <1>t DEF Held
    <3>2. ~marked(n) /\ marked1(n)
      BY SMTT(40), <2>1, <1>1, <1>2, <1>n, <1>t DEF Typed
    <3>3. \A i \in Inodes : marked(i) => marked1(i)
      BY <2>1, <2>s, <1>1, <1>2, <1>t DEF Typed
    <3> HIDE DEF marked, marked1, n
    <3>4. \A q \in Procs : q # p => n \notin Held(q)
      BY <2>u, <3>2
    <3>5. \A q, r \in Procs : q # r => Held(q)' \cap Held(r)' = {}
      BY <2>u, <3>1, <3>4, <1>q
    <3>6. \A q \in Procs : \A i \in Held(q)' : marked1(i)
      BY SMTT(40), <2>u, <3>1, <3>2, <3>3, <1>q, <1>h
    <3> QED BY <3>5, <3>6 DEF InodeUnique, marked1
  <2>2. CASE ~finds
    <3>1. Held(p)' = owned[p] /\ owned[p] \subseteq Held(p)
      BY SMTT(40), <2>2, <1>1, <1>3, <1>4, <1>t DEF Held
    <3>2. \A i \in Inodes : marked(i) /\ i # n => marked1(i)
      BY <2>2, <2>s, <1>1, <1>2, <1>t DEF Typed
    <3> HIDE DEF marked, marked1, n
    <3>3. \A q \in Procs : n \notin Held(q)'
      BY <2>2, <2>u, <3>1, <1>d, <1>q
    <3>4. \A q, r \in Procs : q # r => Held(q)' \cap Held(r)' = {}
      BY <2>u, <3>1, <1>q
    <3>5. \A q \in Procs : Held(q)' \subseteq Held(q)
      BY <3>1, <1>q
    <3>6. \A q \in Procs : \A i \in Held(q)' : marked1(i)
      BY <2>u, <3>2, <3>3, <3>5, <1>h
    <3> QED BY <3>4, <3>6 DEF InodeUnique, marked1
  <2> QED BY <2>1, <2>2
<1>10. CountersTrack'
  <2>1. ASSUME NEW pcs \in {{"bgdt"}, {"bgdt", "super"}}, NEW op, NEW gs
        PROVE  /\ Pending(pcs, op, gs) \in Nat
               /\ Pending(pcs, op, gs)' = Pending(pcs, op, gs) + One(call[p].op = op /\ g \in gs)
    <3>1. ~Owes(p, pcs, op, gs) /\ (Owes(p, pcs, op, gs)' <=> call[p].op = op /\ g \in gs)
      BY <1>3, <1>4, <1>t DEF Owes
    <3>2. /\ Pending(pcs, op, gs) \in Nat
          /\ Pending(pcs, op, gs)' = Pending(pcs, op, gs) + One(Owes(p, pcs, op, gs)')
                                                         - One(Owes(p, pcs, op, gs))
      BY SMTT(40), <1>7, PendingStep
    <3> QED BY <3>1, <3>2 DEF One
  <2>2. /\ Cardinality(Bits \ used[g]) \in Int /\ Cardinality(Clear) \in Int
        /\ finds => /\ Cardinality(Bits \ used'[g]) = Cardinality(Bits \ used[g]) - 1
                    /\ Cardinality(Clear') = Cardinality(Clear) - 1
        /\ ~finds => /\ Cardinality(Bits \ used'[g]) = Cardinality(Bits \ used[g]) + 1
                     /\ Cardinality(Clear') = Cardinality(Clear) + 1
    <3>1. /\ finds => b \notin used[g] /\ used' = [used EXCEPT ![g] = used[g] \cup {b}]
          /\ ~finds => b \in used[g] /\ used' = [used EXCEPT ![g] = used[g] \ {b}]
      BY Zenon, <1>1, <1>2, <1>d
    <3> QED BY Zenon, <3>1, <1>t, ClearStep
  <2>3. \A h \in Groups : h # g => used'[h] = used[h]
    BY <1>1, <1>t DEF Typed
  <2>c. CountersTrack
    BY DEF IInv
  <2>4. ASSUME NEW h \in Groups
        PROVE  free_inodes'[h] = Cardinality(Bits \ used'[h]) + Pending({"bgdt"}, "find", {h})'
                                   - Pending({"bgdt"}, "delete", {h})'
    <3> DEFINE F == Pending({"bgdt"}, "find", {h})
               D == Pending({"bgdt"}, "delete", {h})
               k == Cardinality(Bits \ used[h])
               k1 == Cardinality(Bits \ used'[h])
    <3>1. F \in Nat /\ D \in Nat
      BY <2>1
    <3>2. F' = F + One(call[p].op = "find" /\ g \in {h}) /\ D' = D + One(call[p].op = "delete" /\ g \in {h})
      BY <2>1
    <3>3. free_inodes'[h] = k + F - D
      BY <2>c, <1>1 DEF CountersTrack
    <3>4. k \in Int /\ k1 = IF g = h THEN (IF finds THEN k - 1 ELSE k + 1) ELSE k
      BY Zenon, <2>2, <2>3, <1>t, ClearStep
    <3> HIDE DEF F, D, k, k1
    <3>5. free_inodes'[h] = k1 + F' - D'
      BY <3>1, <3>2, <3>3, <3>4, <1>t DEF One
    <3> QED BY <3>5 DEF F, D, k1
  <2>5. sfree' = Cardinality(Clear') + Pending({"bgdt", "super"}, "find", Groups)'
                                     - Pending({"bgdt", "super"}, "delete", Groups)'
    <3> DEFINE F == Pending({"bgdt", "super"}, "find", Groups)
               D == Pending({"bgdt", "super"}, "delete", Groups)
               k == Cardinality(Clear)
               k1 == Cardinality(Clear')
    <3>1. F \in Nat /\ D \in Nat
      BY <2>1
    <3>2. F' = F + One(call[p].op = "find" /\ g \in Groups) /\ D' = D + One(call[p].op = "delete" /\ g \in Groups)
      BY <2>1
    <3>3. sfree' = k + F - D
      BY <2>c, <1>1 DEF CountersTrack
    <3>4. k \in Int /\ k1 = IF finds THEN k - 1 ELSE k + 1
      BY <2>2
    <3> HIDE DEF F, D, k, k1
    <3>5. sfree' = k1 + F' - D'
      BY <3>1, <3>2, <3>3, <3>4, <1>t DEF One
    <3> QED BY <3>5 DEF F, D, k1
  <2> QED BY <2>4, <2>5 DEF CountersTrack
<1> QED
  BY <1>5, <1>6, <1>8, <1>9, <1>10 DEF IInv

\* A counter catches up with the bitmap: neither step changes a bitmap or who
\* holds which inode.
LEMMA CountInv ==
  ASSUME IInv, NEW p \in Procs, CountGroup(p) \/ CountSuper(p)
  PROVE  IInv'
<1> DEFINE g == call[p].group
           from == IF CountGroup(p) THEN "bgdt" ELSE "super"
           to == IF CountGroup(p) THEN "super" ELSE "unlock"
<1>t. /\ ~panicked /\ Typed /\ CallSound(p) /\ g \in Groups
      /\ call[p].op \in {"find", "delete"}
  BY Zenon, CallerFacts DEF CountGroup, CountSuper
<1>1. /\ UNCHANGED <<used, lock, call, owned, panicked>>
      /\ ipc[p] = from /\ ipc' = [ipc EXCEPT ![p] = to]
      /\ free_inodes' = IF CountGroup(p) THEN [free_inodes EXCEPT ![g] = @ + CounterStep(p)]
                        ELSE free_inodes
      /\ sfree' = IF CountGroup(p) THEN sfree ELSE sfree + CounterStep(p)
  BY DEF CountGroup, CountSuper
<1>2. CounterStep(p) \in Int /\ CounterStep(p) = IF call[p].op = "find" THEN -1 ELSE 1
  BY DEF CounterStep
<1>3. /\ from \in {"bgdt", "super"} /\ to \in {"super", "unlock"} /\ (from = "bgdt" <=> CountGroup(p))
      /\ (to = "super" <=> CountGroup(p))
  OBVIOUS
<1> HIDE DEF from, to
<1>4. ipc'[p] = to
  BY <1>1, <1>t DEF Typed
<1>5. Typed'
  BY <1>1, <1>2, <1>3, <1>t DEF Typed, PCs
<1>6. CallSound(p)'
  BY <1>1, <1>3, <1>4, <1>t DEF CallSound
<1>7. OthersRest(p) /\ LocksRespected(p)
  BY <1>1, <1>t DEF OthersRest, LocksRespected, Typed
<1>8. \A q \in Procs : q # p => CallSound(q)'
  BY <1>7, <1>t, OthersSound
<1>9. InodeUnique'
  <2>1. Held(p)' = Held(p)
    BY <1>1, <1>3, <1>4 DEF Held
  <2>2. \A q \in Procs : Held(q)' = Held(q)
    BY <2>1, <1>7 DEF OthersRest, Held
  <2> QED BY <2>2, <1>1 DEF IInv, InodeUnique
<1>c. CountersTrack
  BY DEF IInv
<1>10. CountersTrack'
  <2>1. ASSUME NEW h \in Groups
        PROVE  free_inodes'[h] = Cardinality(Bits \ used'[h]) + Pending({"bgdt"}, "find", {h})'
                                   - Pending({"bgdt"}, "delete", {h})'
    <3> DEFINE F == Pending({"bgdt"}, "find", {h})
               D == Pending({"bgdt"}, "delete", {h})
               k == Cardinality(Bits \ used[h])
               here == CountGroup(p) /\ g = h
    <3>1. /\ F \in Nat /\ F' = F + One(Owes(p, {"bgdt"}, "find", {h})') - One(Owes(p, {"bgdt"}, "find", {h}))
          /\ D \in Nat /\ D' = D + One(Owes(p, {"bgdt"}, "delete", {h})') - One(Owes(p, {"bgdt"}, "delete", {h}))
      BY <1>7, PendingStep
    <3>2. /\ ~Owes(p, {"bgdt"}, "find", {h})' /\ ~Owes(p, {"bgdt"}, "delete", {h})'
          /\ Owes(p, {"bgdt"}, "find", {h}) <=> here /\ call[p].op = "find"
          /\ Owes(p, {"bgdt"}, "delete", {h}) <=> here /\ call[p].op = "delete"
      BY <1>1, <1>3, <1>4 DEF Owes
    <3>3. free_inodes[h] = k + F - D /\ k \in Int
      BY <1>c, ClearCounts DEF CountersTrack
    <3>4. free_inodes'[h] = IF here THEN free_inodes[h] + CounterStep(p) ELSE free_inodes[h]
      BY <1>1, <1>t DEF Typed
    <3>5. used' = used
      BY <1>1
    <3> HIDE DEF F, D, k, here
    <3>6. free_inodes'[h] = k + F' - D'
      BY <3>1, <3>2, <3>3, <3>4, <1>2, <1>t DEF One
    <3> QED BY <3>5, <3>6 DEF F, D, k
  <2>2. sfree' = Cardinality(Clear') + Pending({"bgdt", "super"}, "find", Groups)'
                                     - Pending({"bgdt", "super"}, "delete", Groups)'
    <3> DEFINE pcs == {"bgdt", "super"}
               F == Pending(pcs, "find", Groups)
               D == Pending(pcs, "delete", Groups)
               k == Cardinality(Clear)
               one == CountGroup(p)
    <3>1. /\ F \in Nat /\ F' = F + One(Owes(p, pcs, "find", Groups)') - One(Owes(p, pcs, "find", Groups))
          /\ D \in Nat /\ D' = D + One(Owes(p, pcs, "delete", Groups)') - One(Owes(p, pcs, "delete", Groups))
      BY <1>7, PendingStep
    <3>2. /\ Owes(p, pcs, "find", Groups)' <=> one /\ call[p].op = "find"
          /\ Owes(p, pcs, "delete", Groups)' <=> one /\ call[p].op = "delete"
          /\ Owes(p, pcs, "find", Groups) <=> call[p].op = "find"
          /\ Owes(p, pcs, "delete", Groups) <=> call[p].op = "delete"
      BY <1>1, <1>3, <1>4, <1>t DEF Owes
    <3>3. sfree = k + F - D /\ k \in Int
      BY <1>c, ClearCounts DEF CountersTrack
    <3>4. sfree' = IF one THEN sfree ELSE sfree + CounterStep(p)
      BY <1>1
    <3>5. Clear' = Clear
      BY <1>1 DEF Clear
    <3> HIDE DEF F, D, k, one
    <3>6. sfree' = k + F' - D'
      BY <3>1, <3>2, <3>3, <3>4, <1>2, <1>t DEF One
    <3> QED BY <3>5, <3>6 DEF F, D, k
  <2> QED BY <2>1, <2>2 DEF CountersTrack
<1> QED
  BY <1>5, <1>6, <1>8, <1>9, <1>10 DEF IInv

-----------------------------------------------------------------------------
(* The theorem                                                               *)

\* A mounted file system, whose counters were right, satisfies the invariant.
LEMMA InitInv ==
  ASSUME Init
  PROVE  IInv
<1>1. used \in [Groups -> SUBSET Bits]
  BY Ext2InodesAssumption DEF Init
<1>2. (\A g \in Groups : Cardinality(Bits \ used[g]) \in Int) /\ Cardinality(Clear) \in Int
  BY ClearCounts
<1>4. Typed
  BY <1>1, <1>2, NoCallTyped DEF Init, Typed, PCs
<1>5. \A p \in Procs : CallSound(p)
  BY DEF Init, CallSound
<1>6. InodeUnique
  BY DEF Init, InodeUnique, Held
<1>7. ASSUME NEW pcs \in SUBSET {"bgdt", "super"}, NEW op, NEW gs
      PROVE  Pending(pcs, op, gs) = 0
  <2>1. {p \in Procs : ipc[p] \in pcs /\ call[p].op = op /\ call[p].group \in gs} = {}
    BY <1>7 DEF Init
  <2> QED BY <2>1, FS_EmptySet DEF Pending
<1>8. CountersTrack
  BY <1>2, <1>7 DEF Init, CountersTrack
<1> QED
  BY <1>4, <1>5, <1>6, <1>8 DEF IInv

\* No inode is given to two callers, an inode that a caller has is marked in its
\* group's bitmap, and the free counters of the groups and of the superblock
\* lose no update, whatever finds and deletes are under way.
THEOREM InodesSafe == Spec => []InodesSound
<1>1. Init => IInv
  BY InitInv
<1>2. IInv /\ [Next]_vars => IInv'
  <2> SUFFICES ASSUME IInv, [Next]_vars PROVE IInv'
    OBVIOUS
  <2>1. CASE UNCHANGED vars
    <3>1. Typed' /\ (~panicked' => \A p \in Procs : CallSound(p)')
      BY SMTT(40), <2>1 DEF vars, IInv, Typed, CallSound
    <3>2. InodeUnique'
      BY SMTT(40), <2>1 DEF vars, IInv, InodeUnique, Held
    <3>3. CountersTrack'
      BY <2>1 DEF vars, IInv, CountersTrack, Pending, Clear
    <3> QED BY SMTT(40), <3>1, <3>2, <3>3 DEF IInv
  <2>2. ASSUME NEW p \in Procs, Step(p) PROVE IInv'
    BY <2>2, LookInv, LockInv, FindInv, DeleteInv, WriteBitmapInv, CountInv, ReturnInv DEF Step
  <2> QED
    BY <2>1, <2>2, FindCallInv, DeleteCallInv DEF Next
<1>3. IInv => InodesSound
  BY DEF IInv, InodesSound
<1> QED
  BY <1>1, <1>2, <1>3, PTL DEF Spec
=============================================================================
