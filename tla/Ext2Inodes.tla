----------------------------- MODULE Ext2Inodes -----------------------------
(* The inode allocator of ext2-inode.rs: ext2InodeFind, ext2InodeFindL and     *)
(* ext2InodeDelete called by several processes on one mounted volume.         *)
(*                                                                            *)
(* A group's bitmap is read and written back under the group's write lock     *)
(* (WLOCKS_INODE), each free counter is changed under a lock of its own, and  *)
(* both counters are also tested without any lock: those are the steps.       *)
(* The search goes byte by byte, so a bitmap is a set of bit numbers cut into *)
(* bytes of ByteBits bits.                                                    *)
EXTENDS Integers, FiniteSets, FiniteSetsExt

CONSTANTS
  Procs,          \* callers
  BlockGroups,    \* blockGroups
  PerGroup,       \* inodes_per_group
  ByteBits,       \* bits of a byte of the bitmap
  FirstInode,     \* superblock.extended.first_inode
  Mounted,        \* the bitmaps a volume may have when it is mounted
  NoProc

Groups == 0 .. BlockGroups - 1
Bits == 0 .. PerGroup - 1

ASSUME Ext2InodesAssumption ==
  /\ IsFiniteSet(Procs) /\ NoProc \notin Procs
  /\ BlockGroups \in Nat \ {0} /\ PerGroup \in Nat \ {0} /\ ByteBits \in Nat \ {0}
  /\ FirstInode \in 1 .. PerGroup
  /\ \A m \in Mounted : m \in [Groups -> SUBSET Bits] /\ 0 .. FirstInode - 1 \subseteq m[0]

VARIABLES
  used,           \* per group, the bits set in its bitmap on disk
  free_inodes,    \* per group, bgdts[group].free_inodes
  sfree,          \* superblock.free_inodes
  lock,           \* per group, the holder of WLOCKS_INODE for writing
  ipc, call,      \* per process, where it is, and the call's locals
  owned,          \* per process, the inodes it was given and has not deleted
  panicked        \* ext2InodeFind found nothing and stopped the kernel

vars == <<used, free_inodes, sfree, lock, ipc, call, owned, panicked>>

INODE_TO_BLOCK_GROUP(inode) == (inode - 1) \div PerGroup
INODE_TO_INDEX(inode) == (inode - 1) % PerGroup
InodeNumber(g, b) == g * PerGroup + b + 1
Inodes == 1 .. BlockGroups * PerGroup

\* op: find or delete.  group: the one at hand, hint: groupSuggestion, at: how far
\* the loop over the other groups is (-1: not begun), bit: the bit found or freed,
\* buff: the copy of the group's bitmap that is written back.
Calls == [op : {"find", "delete"}, group : Groups, hint : Groups, at : -1 .. BlockGroups - 1, bit : Bits,
          buff : SUBSET Bits]
NoCall == [op |-> "find", group |-> 0, hint |-> 0, at |-> -1, bit |-> 0, buff |-> {}]

\* The clear bits of the whole volume.
Clear == {x \in Groups \X Bits : x[2] \notin used[x[1]]}

Init ==
  /\ used \in Mounted
  /\ free_inodes = [g \in Groups |-> Cardinality(Bits \ used[g])]
  /\ sfree = Cardinality(Clear)
  /\ lock = [g \in Groups |-> NoProc]
  /\ ipc = [p \in Procs |-> "idle"]
  /\ call = [p \in Procs |-> NoCall]
  /\ owned = [p \in Procs |-> {}]
  /\ panicked = FALSE

-----------------------------------------------------------------------------
\* Slips one could make in this code.
MutantGrantable(p, g) == TRUE
-----------------------------------------------------------------------------
\* spinlockCntWriteAcquire gets the group's lock.
Grantable(p, g) == lock[g] = NoProc

\* What a call adds to the free counters.
CounterStep(p) == IF call[p].op = "find" THEN -1 ELSE 1

\* The bit ext2InodeFindL settles on, 0 for none.  Bit 0 stands for "nothing yet":
\* when it is the first clear one, the rest of its byte is passed over.
FindBit(g) ==
  LET clear == {b \in Bits \ used[g] : g = 0 => b >= FirstInode}
      found == IF 0 \in clear THEN {b \in clear : b >= ByteBits} ELSE clear
  IN IF found = {} THEN 0 ELSE Min(found)

\* The next group of ext2InodeFind's loop, BlockGroups when there is none.
NextGroup(c) == Min({i \in c.at + 1 .. BlockGroups : i # c.hint})

\* ext2InodeFind: the unlocked look at the superblock.
FindCall(p, hint) ==
  /\ ipc[p] = "idle" /\ ~panicked
  /\ \/ /\ sfree < 1
        /\ panicked' = TRUE
        /\ UNCHANGED <<ipc, call>>
     \/ /\ sfree >= 1
        /\ ipc' = [ipc EXCEPT ![p] = "look"]
        /\ call' = [call EXCEPT ![p] = [NoCall EXCEPT !.group = hint, !.hint = hint]]
        /\ UNCHANGED panicked
  /\ UNCHANGED <<used, free_inodes, sfree, lock, owned>>

\* Nothing in this group: go on to the next one, or give up.
TryNext(p) ==
  LET i == NextGroup(call[p])
  IN \/ /\ i = BlockGroups
        /\ panicked' = TRUE
        /\ UNCHANGED <<ipc, call>>
     \/ /\ i < BlockGroups
        /\ ipc' = [ipc EXCEPT ![p] = "look"]
        /\ call' = [call EXCEPT ![p] = [@ EXCEPT !.at = i, !.group = i]]
        /\ UNCHANGED panicked

\* ext2InodeFindL: the unlocked look at the group's counter.
Look(p) ==
  /\ ipc[p] = "look" /\ ~panicked
  /\ \/ /\ free_inodes[call[p].group] < 1
        /\ TryNext(p)
     \/ /\ free_inodes[call[p].group] >= 1
        /\ ipc' = [ipc EXCEPT ![p] = "lock"]
        /\ UNCHANGED <<call, panicked>>
  /\ UNCHANGED <<used, free_inodes, sfree, lock, owned>>

DeleteCall(p, inode) ==
  /\ ipc[p] = "idle" /\ ~panicked /\ inode \in owned[p]
  /\ owned' = [owned EXCEPT ![p] = @ \ {inode}]
  /\ call' = [call EXCEPT ![p] = [NoCall EXCEPT !.op = "delete",
                                    !.group = INODE_TO_BLOCK_GROUP(inode),
                                    !.bit = INODE_TO_INDEX(inode)]]
  /\ ipc' = [ipc EXCEPT ![p] = "lock"]
  /\ UNCHANGED <<used, free_inodes, sfree, lock, panicked>>

Lock(p) ==
  /\ ipc[p] = "lock" /\ ~panicked /\ Grantable(p, call[p].group)
  /\ lock' = [lock EXCEPT ![call[p].group] = p]
  /\ ipc' = [ipc EXCEPT ![p] = call[p].op]
  /\ UNCHANGED <<used, free_inodes, sfree, call, owned, panicked>>

\* ext2InodeFindL reads the bitmap and sets the bit it finds in its copy; when it
\* finds none the lock is given back and the next group tried.
Find(p) ==
  LET g == call[p].group
      b == FindBit(g)
  IN /\ ipc[p] = "find" /\ ~panicked
     /\ \/ /\ b # 0
           /\ call' = [call EXCEPT ![p] = [@ EXCEPT !.bit = b, !.buff = used[g] \cup {b}]]
           /\ ipc' = [ipc EXCEPT ![p] = "write"]
           /\ UNCHANGED <<lock, panicked>>
        \/ /\ b = 0
           /\ lock' = [lock EXCEPT ![g] = NoProc]
           /\ TryNext(p)
     /\ UNCHANGED <<used, free_inodes, sfree, owned>>

\* ext2InodeDelete reads the bitmap and clears the bit in its copy.
Delete(p) ==
  /\ ipc[p] = "delete" /\ ~panicked
  /\ call' = [call EXCEPT ![p].buff = used[call[p].group] \ {call[p].bit}]
  /\ ipc' = [ipc EXCEPT ![p] = "write"]
  /\ UNCHANGED <<used, free_inodes, sfree, lock, owned, panicked>>

\* setDiskBytes writes the copy over the group's bitmap.
WriteBitmap(p) ==
  /\ ipc[p] = "write" /\ ~panicked
  /\ used' = [used EXCEPT ![call[p].group] = call[p].buff]
  /\ ipc' = [ipc EXCEPT ![p] = "bgdt"]
  /\ call' = [call EXCEPT ![p].buff = {}]
  /\ UNCHANGED <<free_inodes, sfree, lock, owned, panicked>>

\* The two counters, each under its own lock.
CountGroup(p) ==
  /\ ipc[p] = "bgdt" /\ ~panicked
  /\ free_inodes' = [free_inodes EXCEPT ![call[p].group] = @ + CounterStep(p)]
  /\ ipc' = [ipc EXCEPT ![p] = "super"]
  /\ UNCHANGED <<used, sfree, lock, call, owned, panicked>>

CountSuper(p) ==
  /\ ipc[p] = "super" /\ ~panicked
  /\ sfree' = sfree + CounterStep(p)
  /\ ipc' = [ipc EXCEPT ![p] = "unlock"]
  /\ UNCHANGED <<used, free_inodes, lock, call, owned, panicked>>

\* Unlock and return, from a find with the inode's number.
Return(p) ==
  LET c == call[p]
  IN /\ ipc[p] = "unlock" /\ ~panicked
     /\ lock' = [lock EXCEPT ![c.group] = NoProc]
     /\ owned' = [owned EXCEPT ![p] = IF c.op = "find" THEN @ \cup {InodeNumber(c.group, c.bit)} ELSE @]
     /\ ipc' = [ipc EXCEPT ![p] = "idle"]
     /\ call' = [call EXCEPT ![p] = NoCall]
     /\ UNCHANGED <<used, free_inodes, sfree, panicked>>

Step(p) == Look(p) \/ Lock(p) \/ Find(p) \/ Delete(p) \/ WriteBitmap(p)
           \/ CountGroup(p) \/ CountSuper(p) \/ Return(p)

Next ==
  \E p \in Procs :
    \/ \E hint \in Groups : FindCall(p, hint)
    \/ \E inode \in Inodes : DeleteCall(p, inode)
    \/ Step(p)

Spec == Init /\ [][Next]_vars

-----------------------------------------------------------------------------
TypeOK ==
  /\ used \in [Groups -> SUBSET Bits]
  /\ free_inodes \in [Groups -> 0 .. PerGroup]
  /\ sfree \in 0 .. BlockGroups * PerGroup
  /\ lock \in [Groups -> Procs \cup {NoProc}]
  /\ ipc \in [Procs -> {"idle", "look", "lock", "find", "delete", "write", "bgdt", "super", "unlock"}]
  /\ call \in [Procs -> Calls]
  /\ owned \in [Procs -> SUBSET Inodes]
  /\ panicked \in BOOLEAN

\* The inodes a process has, or is about to return, or has begun to delete.
Held(p) ==
  owned[p] \cup
  IF \/ ipc[p] \in {"bgdt", "super", "unlock"} /\ call[p].op = "find"
     \/ ipc[p] \in {"lock", "delete", "write"} /\ call[p].op = "delete"
  THEN {InodeNumber(call[p].group, call[p].bit)} ELSE {}

\* No inode is given to two callers, whatever finds and deletes are under way in
\* the same or other groups, and what a caller has is marked in its bitmap.
InodeUnique ==
  /\ \A p, q \in Procs : p # q => Held(p) \cap Held(q) = {}
  /\ \A p \in Procs : \A i \in Held(p) : INODE_TO_INDEX(i) \in used[INODE_TO_BLOCK_GROUP(i)]

\* The calls that have changed a bitmap but not yet the counter counted at pcs.
Pending(pcs, op, gs) == Cardinality({p \in Procs : ipc[p] \in pcs /\ call[p].op = op /\ call[p].group \in gs})

\* The free counters are right up to the calls that are between their bitmap and
\* the counter: no update is lost or repeated.
CountersTrack ==
  /\ \A g \in Groups :
       free_inodes[g] = Cardinality(Bits \ used[g]) + Pending({"bgdt"}, "find", {g}) - Pending({"bgdt"}, "delete", {g})
  /\ sfree = Cardinality(Clear) + Pending({"bgdt", "super"}, "find", Groups)
                               - Pending({"bgdt", "super"}, "delete", Groups)

\* An inode belongs to one caller at a time, its bit is set while it does, and the
\* free counters of group and superblock count the clear bits, less what calls
\* half way still owe (ext2InodeFind, ext2InodeDelete).
InodesSound == InodeUnique /\ CountersTrack
=============================================================================
