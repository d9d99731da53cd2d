--------------------------- MODULE PhysicalMemory ---------------------------
(* The physical page allocator: src/src/kernel/memory/pmm.rs on top of the    *)
(* bitmap of src/src/kernel/utilities/data_structures/bitmap.rs.  LOCK_PMM    *)
(* covers an allocation and a free; the first-fit scan of FindFreeRegion is   *)
(* kept as a loop, one step per block looked at.                              *)
EXTENDS Integers, Sequences, FiniteSets

CONSTANTS
  BLOCK_SIZE,   \* bytes per block
  Map,          \* boot memory map: sequence of [base, length, usable], in bytes
  MaxPages      \* bound: the largest request

\* What the Limine protocol guarantees of its map: usable entries are page
\* aligned and not empty, entries do not overlap, and page 0 is never usable.
EntryBytes(e) == e.base .. e.base + e.length - 1

ASSUME PhysicalMemoryAssumption ==
  /\ BLOCK_SIZE \in Nat \ {0}
  /\ MaxPages \in Nat \ {0}
  /\ Map \in Seq([base : Nat, length : Nat, usable : BOOLEAN])
  /\ \A i \in 1 .. Len(Map) : Map[i].usable =>
        /\ Map[i].base % BLOCK_SIZE = 0 /\ Map[i].length % BLOCK_SIZE = 0
        /\ Map[i].base >= BLOCK_SIZE /\ Map[i].length > 0
  /\ \A i, j \in 1 .. Len(Map) :
        i # j => EntryBytes(Map[i]) \cap EntryBytes(Map[j]) = {}

-----------------------------------------------------------------------------
\* Slips one could make in the definitions below, for checking that the properties
\* notice them; no behaviour uses them.
MutantMarkedBlocks(base, length, isUsed) ==
  LET first == IF isUsed THEN base \div BLOCK_SIZE
                         ELSE (base + BLOCK_SIZE - 1) \div BLOCK_SIZE
      size == (length + BLOCK_SIZE - 1) \div BLOCK_SIZE
  IN first .. first + size

MutantLowered(ldf, start) == ldf

-----------------------------------------------------------------------------
DivRoundUp(x, y) == (x + y - 1) \div y

\* Boot: the usable bytes fix the number of blocks the bitmap covers.
mmTotal ==
  LET total[i \in 0 .. Len(Map)] ==
        IF i = 0 THEN 0
        ELSE total[i - 1] + (IF Map[i].usable THEN Map[i].length ELSE 0)
  IN total[Len(Map)]

BitmapSizeInBlocks == DivRoundUp(mmTotal, BLOCK_SIZE)
BitmapSizeInBytes == DivRoundUp(BitmapSizeInBlocks, 8)
Blocks == 0 .. BitmapSizeInBlocks - 1

\* The sums above are usize values.
ASSUME BitmapSizeAssumption == BitmapSizeInBlocks \in Nat /\ BitmapSizeInBytes \in Nat

\* MarkRegion: a used region keeps the block its first byte is in, a free region
\* gives away only whole blocks.
MarkedBlocks(base, length, isUsed) ==
  LET first == IF isUsed THEN base \div BLOCK_SIZE ELSE DivRoundUp(base, BLOCK_SIZE)
      size == IF isUsed THEN DivRoundUp(length, BLOCK_SIZE) ELSE length \div BLOCK_SIZE
  IN first .. first + size - 1

\* The first usable entry that has room for the bitmap.
Candidates == {i \in 1 .. Len(Map) : Map[i].usable /\ Map[i].length >= BitmapSizeInBytes}
ChosenEntry == Map[CHOOSE i \in Candidates : \A j \in Candidates : i <= j]

MarkedFree == UNION {MarkedBlocks(Map[i].base, Map[i].length, FALSE) :
                       i \in {j \in 1 .. Len(Map) : Map[j].usable}}
MarkedUsed ==
  UNION {MarkedBlocks(Map[i].base, Map[i].length, TRUE) :
           i \in {j \in 1 .. Len(Map) : ~Map[j].usable}}
    \cup MarkedBlocks(ChosenEntry.base, BitmapSizeInBytes, TRUE)

-----------------------------------------------------------------------------
VARIABLES
  used,                    \* blocks whose bit is set
  lastDeepFragmented,
  allocatedSizeInBlocks,
  stray,                   \* blocks outside the bitmap whose bit was written
  reserved,                \* blocks used since boot
  owned,                   \* the regions handed out, <<first block, blocks>>
  pc, blocks, i, regionStart, regionSize    \* the allocation in progress

scan == <<pc, blocks, i, regionStart, regionSize>>
vars == <<used, lastDeepFragmented, allocatedSizeInBlocks, stray, reserved, owned, scan>>

Region(o) == o[1] .. o[1] + o[2] - 1

TypeOK ==
  /\ used \in SUBSET Blocks
  /\ lastDeepFragmented \in 0 .. BitmapSizeInBlocks
  /\ allocatedSizeInBlocks \in 0 .. BitmapSizeInBlocks
  /\ stray \cap Blocks = {}
  /\ reserved \in SUBSET Blocks
  /\ owned \in SUBSET (Blocks \X (1 .. MaxPages))
  /\ pc \in {"idle", "scan", "mark", "panic"}
  /\ blocks \in 0 .. MaxPages
  /\ i \in 0 .. BitmapSizeInBlocks
  /\ regionStart \in 0 .. BitmapSizeInBlocks
  /\ regionSize \in 0 .. BitmapSizeInBlocks

\* initiate_pmm: all used, then the usable entries free, then the others used, then
\* the bitmap's own memory used; it panics when no entry can hold the bitmap.
Init ==
  /\ Candidates # {}
  /\ used = Blocks \cap ((Blocks \ MarkedFree) \cup MarkedUsed)
  /\ stray = (MarkedFree \cup MarkedUsed) \ Blocks
  /\ reserved = used
  /\ lastDeepFragmented = 0
  /\ allocatedSizeInBlocks = 0
  /\ owned = {}
  /\ pc = "idle" /\ blocks = 0 /\ i = 0 /\ regionStart = 0 /\ regionSize = 0

\* physical_allocate takes the lock and FindFreeRegion starts at the hint.
Allocate(pages) ==
  /\ pc = "idle"
  /\ pc' = "scan"
  /\ blocks' = pages
  /\ i' = lastDeepFragmented
  /\ regionStart' = lastDeepFragmented
  /\ regionSize' = 0
  /\ UNCHANGED <<used, lastDeepFragmented, allocatedSizeInBlocks, stray, reserved, owned>>

ScanUsedBlock ==
  /\ pc = "scan" /\ i < BitmapSizeInBlocks /\ i \in used
  /\ regionSize' = 0
  /\ regionStart' = i + 1
  /\ i' = i + 1
  /\ UNCHANGED <<used, lastDeepFragmented, allocatedSizeInBlocks, stray, reserved,
                 owned, pc, blocks>>

\* A one-block request moves the hint past the block it is about to take.
Raised(start) == start + 1

ScanFreeBlock ==
  /\ pc = "scan" /\ i < BitmapSizeInBlocks /\ i \notin used
  /\ lastDeepFragmented' = IF blocks = 1 THEN Raised(regionStart) ELSE lastDeepFragmented
  /\ regionSize' = regionSize + 1
  /\ pc' = IF regionSize + 1 >= blocks THEN "mark" ELSE "scan"
  /\ i' = i + 1
  /\ UNCHANGED <<used, allocatedSizeInBlocks, stray, reserved, owned, blocks, regionStart>>

\* INVALID_BLOCK: BitmapAllocate returns null and physical_allocate panics.
ScanFails ==
  /\ pc = "scan" /\ i = BitmapSizeInBlocks
  /\ pc' = "panic"
  /\ UNCHANGED <<used, lastDeepFragmented, allocatedSizeInBlocks, stray, reserved,
                 owned, blocks, i, regionStart, regionSize>>

\* MarkBlocks with val true, then physical_allocate's test of the address: block 0
\* has address 0, which it takes for a failure.
Mark ==
  /\ pc = "mark"
  /\ used' = used \cup Region(<<regionStart, blocks>>)
  /\ allocatedSizeInBlocks' = allocatedSizeInBlocks + blocks
  /\ pc' = IF regionStart * BLOCK_SIZE = 0 THEN "panic" ELSE "idle"
  /\ owned' = owned \cup {<<regionStart, blocks>>}
  /\ UNCHANGED <<lastDeepFragmented, stray, reserved, blocks, i, regionStart, regionSize>>

\* MarkBlocks with val false lowers the hint to the first block given back.
Lowered(ldf, start) == IF start < ldf THEN start ELSE ldf

\* physical_free of a region that was handed out.
Free(o) ==
  /\ pc = "idle"
  /\ used' = used \ MarkedBlocks(o[1] * BLOCK_SIZE, o[2] * BLOCK_SIZE, FALSE)
  /\ lastDeepFragmented' = Lowered(lastDeepFragmented, o[1])
  /\ allocatedSizeInBlocks' = allocatedSizeInBlocks - o[2]
  /\ owned' = owned \ {o}
  /\ UNCHANGED <<stray, reserved, scan>>

Next ==
  \/ \E pages \in 1 .. MaxPages : Allocate(pages)
  \/ ScanUsedBlock \/ ScanFreeBlock \/ ScanFails \/ Mark
  \/ \E o \in owned : Free(o)

Spec == Init /\ [][Next]_vars

-----------------------------------------------------------------------------
\* The hint lastDeepFragmented never hides a free block: everything below it is
\* used, so starting the scan there loses nothing.
BelowHintIsUsed ==
  pc \in {"idle", "scan"} => \A b \in 0 .. lastDeepFragmented - 1 : b \in used

\* No block is handed out twice, and none that was reserved at boot is handed out.
AllocationsDisjoint ==
  /\ \A o, p \in owned : o # p => Region(o) \cap Region(p) = {}
  /\ \A o \in owned : Region(o) \subseteq used \ reserved

\* What is not free or reserved belongs to somebody: no block leaks, and
\* allocatedSizeInBlocks is exactly the number of blocks handed out.
AccountingExact ==
  /\ used \ reserved = UNION {Region(o) : o \in owned}
  /\ allocatedSizeInBlocks = Cardinality(used \ reserved)

\* What physical_allocate hands out is nobody else's, and the books balance.
AllocationsSound == AllocationsDisjoint /\ AccountingExact

\* The allocator says that memory ran out only when there really is no run of free
\* blocks as long as the request, anywhere.
PanicOnlyWhenFull ==
  pc = "panic" =>
    \A b \in Blocks : ~(b .. b + blocks - 1 \subseteq Blocks \ used)

=============================================================================
