--------------------------- MODULE AllocatorProofs --------------------------
(* What the kernel hands out has one holder. The page allocator is correct for *)
(* every memory map, block size and request size: no page is handed out twice, *)
(* the books balance, and it gives up only when no free run is long enough.    *)
(* The same for port numbers and for pseudo-terminal pairs.                    *)
EXTENDS HandedOut, FiniteSetTheorems, SequenceTheorems, WellFoundedInduction, TLAPS

\* Whole blocks convert to bytes and back without loss.
LEMMA WholeBlocks ==
  ASSUME NEW a \in Nat, NEW n \in Nat
  PROVE  MarkedBlocks(a * BLOCK_SIZE, n * BLOCK_SIZE, FALSE) = a .. a + n - 1
<1> USE PhysicalMemoryAssumption
<1>1. (n * BLOCK_SIZE) \div BLOCK_SIZE = n
  OBVIOUS
<1>2. (a * BLOCK_SIZE + BLOCK_SIZE - 1) \div BLOCK_SIZE = a
  OBVIOUS
<1> QED BY Zenon, <1>1, <1>2 DEF MarkedBlocks, DivRoundUp

\* Block 0 is never free: no usable entry covers it.
LEMMA BlockZeroNotFree == 0 \notin MarkedFree
<1> SUFFICES ASSUME NEW j \in 1 .. Len(Map), Map[j].usable,
                    0 \in MarkedBlocks(Map[j].base, Map[j].length, FALSE)
             PROVE  FALSE
  BY Zenon DEF MarkedFree
<1>1. /\ Map[j].base \in Nat /\ Map[j].length \in Nat
      /\ Map[j].base >= BLOCK_SIZE /\ BLOCK_SIZE \in Nat \ {0}
  <2>1. Map[j] \in [base : Nat, length : Nat, usable : BOOLEAN]
    BY Zenon, PhysicalMemoryAssumption, ElementOfSeq
  <2> QED BY Zenon, <2>1, PhysicalMemoryAssumption
<1> DEFINE b == Map[j].base
<1>2. (b + BLOCK_SIZE - 1) \div BLOCK_SIZE >= 1
  BY SMTT(40), <1>1
<1>3. (b + BLOCK_SIZE - 1) \div BLOCK_SIZE \in Int /\ Map[j].length \div BLOCK_SIZE \in Int
  BY <1>1
<1> QED BY <1>2, <1>3 DEF MarkedBlocks, DivRoundUp

-----------------------------------------------------------------------------
\* What the scan has established when it looks at block i: the blocks from
\* regionStart on are free, and every run that starts earlier meets a used block.
ScanInv ==
  pc = "scan" =>
    /\ blocks \in 1 .. MaxPages
    /\ regionStart <= i
    /\ regionSize = i - regionStart
    /\ regionSize < blocks
    /\ \A b \in regionStart .. i - 1 : b \notin used
    /\ \A b \in 0 .. regionStart - 1 : \E c \in b .. b + blocks - 1 : c \in used

\* What it hands to MarkBlocks: a free run, with only used blocks, or the run
\* itself, below the hint.
MarkInv ==
  pc = "mark" =>
    /\ blocks \in 1 .. MaxPages
    /\ regionStart + blocks <= BitmapSizeInBlocks
    /\ \A b \in regionStart .. regionStart + blocks - 1 : b \notin used
    /\ \A b \in 0 .. lastDeepFragmented - 1 :
          b \in used \/ b \in regionStart .. regionStart + blocks - 1

\* What boot reserved stays used, block 0 with it.
ReservedInv ==
  /\ reserved \subseteq used
  /\ 0 \in Blocks => 0 \in reserved

\* The inductive invariant: the four properties speak of the moments between two
\* calls, the scan and mark parts carry them through a call.
IInv ==
  /\ TypeOK
  /\ BelowHintIsUsed
  /\ AllocationsDisjoint
  /\ AccountingExact
  /\ PanicOnlyWhenFull
  /\ ScanInv
  /\ MarkInv
  /\ ReservedInv

\* Counting blocks of the bitmap.
LEMMA BlocksFinite ==
  /\ IsFiniteSet(Blocks) /\ Cardinality(Blocks) = BitmapSizeInBlocks
  /\ \A S \in SUBSET Blocks : /\ IsFiniteSet(S)
                              /\ Cardinality(S) \in 0 .. BitmapSizeInBlocks
<1>1. IsFiniteSet(Blocks) /\ Cardinality(Blocks) = BitmapSizeInBlocks
  <2>1. 0 \in Int /\ BitmapSizeInBlocks - 1 \in Int
    BY BitmapSizeAssumption
  <2>2. /\ IsFiniteSet(0 .. BitmapSizeInBlocks - 1)
        /\ Cardinality(0 .. BitmapSizeInBlocks - 1)
             = IF 0 > BitmapSizeInBlocks - 1 THEN 0 ELSE BitmapSizeInBlocks - 1 - 0 + 1
    BY Zenon, <2>1, FS_Interval
  <2> QED BY <2>2, BitmapSizeAssumption DEF Blocks
<1>2. ASSUME NEW S \in SUBSET Blocks
      PROVE  IsFiniteSet(S) /\ Cardinality(S) \in 0 .. BitmapSizeInBlocks
  <2>1. IsFiniteSet(S) /\ Cardinality(S) <= Cardinality(Blocks)
    BY Zenon, <1>1, FS_Subset
  <2>2. Cardinality(S) \in Nat
    BY Zenon, <2>1, FS_CardinalityType
  <2> QED BY <1>1, <2>1, <2>2, BitmapSizeAssumption
<1> QED BY Zenon, <1>1, <1>2

\* A run of n blocks added to, or taken from, a set of blocks changes its size by n.
LEMMA CountRun ==
  ASSUME NEW S \in SUBSET Blocks, NEW a \in Nat, NEW n \in Nat \ {0},
         a .. a + n - 1 \subseteq Blocks
  PROVE  /\ S \cap (a .. a + n - 1) = {} =>
              Cardinality(S \cup (a .. a + n - 1)) = Cardinality(S) + n
         /\ a .. a + n - 1 \subseteq S =>
              Cardinality(S \ (a .. a + n - 1)) = Cardinality(S) - n
<1> DEFINE R == a .. a + n - 1
<1>1. IsFiniteSet(S) /\ Cardinality(S) \in Nat
  BY BlocksFinite
<1>2. IsFiniteSet(R) /\ Cardinality(R) = n
  <2>1. a \in Int /\ a + n - 1 \in Int
    OBVIOUS
  <2>2. Cardinality(R) = IF a > a + n - 1 THEN 0 ELSE a + n - 1 - a + 1
    BY <2>1, FS_Interval
  <2> QED BY <2>1, <2>2, FS_Interval
<1> HIDE DEF R
<1>3. S \cap R = {} => Cardinality(S \cup R) = Cardinality(S) + n
  <2>1. Cardinality(S \cup R) = Cardinality(S) + Cardinality(R) - Cardinality(S \cap R)
    BY Zenon, <1>1, <1>2, FS_Union
  <2>2. S \cap R = {} => Cardinality(S \cap R) = 0
    BY Zenon, FS_EmptySet
  <2>3. ASSUME S \cap R = {} PROVE Cardinality(S \cup R) = Cardinality(S) + n
    BY <1>1, <1>2, <2>1, <2>2, <2>3
  <2> QED BY Zenon, <2>3
<1>4. R \subseteq S => Cardinality(S \ R) = Cardinality(S) - n
  <2>1. Cardinality(S \ R) = Cardinality(S) - Cardinality(S \cap R)
    BY Zenon, <1>1, FS_Difference
  <2>2. R \subseteq S => S \cap R = R
    BY Zenon
  <2> QED BY Zenon, <1>2, <2>1, <2>2
<1> QED BY Zenon, <1>3, <1>4 DEF R

\* Boot establishes the invariant.
LEMMA InitIInv == Init => IInv
<1> SUFFICES ASSUME Init PROVE IInv
  BY Zenon
<1>1. used \in SUBSET Blocks /\ reserved = used /\ used \ reserved = {}
  BY Zenon DEF Init
<1>2. 0 \in Blocks => 0 \in used
  BY Zenon, BlockZeroNotFree DEF Init
<1>3. TypeOK
  <2>1. 0 \in 0 .. BitmapSizeInBlocks /\ 0 \in 0 .. MaxPages
    BY PhysicalMemoryAssumption, BitmapSizeAssumption
  <2>2. stray \cap Blocks = {}
    BY Zenon DEF Init
  <2> QED BY Zenon, <1>1, <2>1, <2>2 DEF Init, TypeOK
<1>4. AccountingExact
  BY Zenon, <1>1, FS_EmptySet DEF Init, AccountingExact
<1>5. AllocationsDisjoint /\ BelowHintIsUsed
  BY DEF Init, AllocationsDisjoint, BelowHintIsUsed
<1> QED
  BY Zenon, <1>1, <1>2, <1>3, <1>4, <1>5
     DEF Init, IInv, PanicOnlyWhenFull, ScanInv, MarkInv, ReservedInv

\* Every step keeps it.
LEMMA NextIInv == IInv /\ [Next]_vars => IInv'
<1> SUFFICES ASSUME IInv, [Next]_vars PROVE IInv'
  BY Zenon
<1> USE DEF IInv
<1>0. BitmapSizeInBlocks \in Nat /\ MaxPages \in Nat \ {0} /\ BLOCK_SIZE \in Nat \ {0}
  BY Zenon, PhysicalMemoryAssumption, BitmapSizeAssumption
<1>1. ASSUME NEW pages \in 1 .. MaxPages, Allocate(pages) PROVE IInv'
  <2>1. TypeOK'
    BY <1>0, <1>1 DEF Allocate, TypeOK
  <2>2. ScanInv'
    BY <1>0, <1>1 DEF Allocate, TypeOK, ScanInv, BelowHintIsUsed
  <2> QED
    BY Zenon, <1>1, <2>1, <2>2 DEF Allocate, BelowHintIsUsed, AllocationsDisjoint,
          AccountingExact, PanicOnlyWhenFull, MarkInv, ReservedInv
<1>2. CASE ScanUsedBlock
  <2>1. TypeOK'
    BY <1>0, <1>2 DEF ScanUsedBlock, TypeOK
  <2>2. \A b \in 0 .. regionStart' - 1 : \E c \in b .. b + blocks - 1 : c \in used
    <3>1. TAKE b \in 0 .. regionStart' - 1
    <3>2. CASE b \in 0 .. regionStart - 1
      BY Zenon, <1>2, <3>2 DEF ScanUsedBlock, ScanInv
    <3>3. CASE b \notin 0 .. regionStart - 1
      <4>1. i \in b .. b + blocks - 1 /\ i \in used
        BY <1>0, <1>2, <3>3 DEF ScanUsedBlock, ScanInv, TypeOK
      <4> QED BY Zenon, <4>1
    <3> QED BY Zenon, <3>2, <3>3
  <2>3. ScanInv'
    BY <1>0, <1>2, <2>2 DEF ScanUsedBlock, TypeOK, ScanInv
  <2> QED
    BY Zenon, <1>2, <2>1, <2>3 DEF ScanUsedBlock, BelowHintIsUsed, AllocationsDisjoint,
          AccountingExact, PanicOnlyWhenFull, MarkInv, ReservedInv
<1>3. CASE ScanFreeBlock
  <2>0. /\ blocks \in 1 .. MaxPages /\ regionStart <= i /\ regionSize = i - regionStart
        /\ regionSize < blocks /\ i \in 0 .. BitmapSizeInBlocks - 1 /\ i \notin used
        /\ regionStart \in 0 .. BitmapSizeInBlocks /\ i' = i + 1
        /\ regionSize' = regionSize + 1 /\ regionStart' = regionStart /\ blocks' = blocks
        /\ \A b \in regionStart .. i - 1 : b \notin used
        /\ \A b \in 0 .. regionStart - 1 : \E c \in b .. b + blocks - 1 : c \in used
        /\ used' = used /\ pc = "scan"
    BY <1>0, <1>3 DEF ScanFreeBlock, ScanInv, TypeOK
  <2>1. TypeOK'
    BY <1>0, <1>3, <2>0 DEF ScanFreeBlock, TypeOK, Raised
  <2>2. \A b \in regionStart .. i' - 1 : b \notin used
    BY <1>0, <2>0
  <2>3. blocks = 1 => regionStart = i /\ \A b \in 0 .. regionStart - 1 : b \in used
    BY <1>0, <2>0
  <2>4. ScanInv'
    BY <1>0, <1>3, <2>0, <2>2 DEF ScanFreeBlock, ScanInv
  <2>5. MarkInv'
    <3>1. CASE pc' # "mark"
      BY Zenon, <3>1 DEF MarkInv
    <3>2. CASE pc' = "mark"
      <4>1. regionStart + blocks = i' /\ i' <= BitmapSizeInBlocks
        BY <1>0, <1>3, <2>0, <3>2 DEF ScanFreeBlock
      <4>2. \A b \in 0 .. lastDeepFragmented' - 1 :
                b \in used \/ b \in regionStart .. regionStart + blocks - 1
        <5>1. CASE blocks = 1
          BY <1>0, <1>3, <2>0, <2>3, <5>1 DEF ScanFreeBlock, Raised
        <5>2. CASE blocks # 1
          BY Zenon, <1>3, <2>0, <5>2 DEF ScanFreeBlock, BelowHintIsUsed
        <5> QED BY Zenon, <5>1, <5>2
      <4> QED BY <1>0, <2>0, <2>2, <4>1, <4>2 DEF MarkInv
    <3> QED BY Zenon, <3>1, <3>2
  <2>6. BelowHintIsUsed'
    <3>1. CASE blocks = 1
      <4>1. pc' = "mark"
        BY <1>0, <1>3, <2>0, <3>1 DEF ScanFreeBlock
      <4> QED BY Zenon, <4>1 DEF BelowHintIsUsed
    <3>2. CASE blocks # 1
      BY Zenon, <1>3, <2>0, <3>2 DEF ScanFreeBlock, BelowHintIsUsed
    <3> QED BY Zenon, <3>1, <3>2
  <2>7. PanicOnlyWhenFull'
    BY Zenon, <1>3 DEF ScanFreeBlock, PanicOnlyWhenFull
  <2> QED
    BY Zenon, <1>3, <2>1, <2>4, <2>5, <2>6, <2>7 DEF ScanFreeBlock, AllocationsDisjoint,
          AccountingExact, ReservedInv
<1>4. CASE ScanFails
  <2>1. TypeOK'
    BY Zenon, <1>4 DEF ScanFails, TypeOK
  <2>2. PanicOnlyWhenFull'
    <3>0. /\ blocks \in 1 .. MaxPages /\ regionSize = BitmapSizeInBlocks - regionStart
          /\ regionSize < blocks /\ regionStart \in 0 .. BitmapSizeInBlocks
          /\ \A b \in 0 .. regionStart - 1 : \E c \in b .. b + blocks - 1 : c \in used
          /\ UNCHANGED <<used, blocks>>
      BY Zenon, <1>4 DEF ScanFails, ScanInv, TypeOK
    <3>1. SUFFICES ASSUME NEW b \in Blocks, b .. b + blocks - 1 \subseteq Blocks \ used
                   PROVE  FALSE
      BY Zenon, <3>0 DEF PanicOnlyWhenFull
    <3>2. CASE b \in 0 .. regionStart - 1
      BY Zenon, <3>0, <3>1, <3>2
    <3>3. CASE b \notin 0 .. regionStart - 1
      <4>1. b + blocks - 1 \in b .. b + blocks - 1 /\ b + blocks - 1 \notin Blocks
        BY <1>0, <3>0, <3>3 DEF Blocks
      <4> QED BY Zenon, <3>1, <4>1
    <3> QED BY Zenon, <3>2, <3>3
  <2> QED
    BY Zenon, <1>4, <2>1, <2>2 DEF ScanFails, BelowHintIsUsed, AllocationsDisjoint,
          AccountingExact, ScanInv, MarkInv, ReservedInv
<1>5. CASE Mark
  <2> DEFINE o == <<regionStart, blocks>>
             R == regionStart .. regionStart + blocks - 1
  <2>0. /\ blocks \in 1 .. MaxPages /\ regionStart \in 0 .. BitmapSizeInBlocks
        /\ regionStart + blocks <= BitmapSizeInBlocks
        /\ \A b \in R : b \notin used
        /\ \A b \in 0 .. lastDeepFragmented - 1 : b \in used \/ b \in R
    BY Zenon, <1>5 DEF Mark, MarkInv, TypeOK
  <2>1. Region(o) = R /\ R \subseteq Blocks /\ R \cap used = {} /\ regionStart \in R
    BY <1>0, <2>0 DEF Region, Blocks
  <2>2. /\ used' = used \cup R /\ owned' = owned \cup {o}
        /\ allocatedSizeInBlocks' = allocatedSizeInBlocks + blocks
        /\ UNCHANGED <<lastDeepFragmented, stray, reserved, blocks, i, regionStart, regionSize>>
    BY Zenon, <1>5, <2>1 DEF Mark
  <2> HIDE DEF R
  <2>3. regionStart # 0 /\ pc' = "idle"
    <3>1. regionStart # 0
      BY Zenon, <1>0, <2>0, <2>1 DEF ReservedInv, Blocks
    <3>2. regionStart * BLOCK_SIZE # 0
      BY <1>0, <2>0, <3>1
    <3> QED BY Zenon, <1>5, <3>1, <3>2 DEF Mark
  <2>4. AllocationsDisjoint'
    <3>1. \A p \in owned : Region(p) \cap R = {}
      BY Zenon, <2>1 DEF AllocationsDisjoint
    <3>2. R \subseteq used' \ reserved'
      BY Zenon, <2>1, <2>2 DEF ReservedInv
    <3>3. \A p \in owned : Region(p) \subseteq used' \ reserved'
      BY Zenon, <2>2 DEF AllocationsDisjoint
    <3>4. \A p, q \in owned' : p # q => Region(p) \cap Region(q) = {}
      BY Zenon, <2>1, <2>2, <3>1 DEF AllocationsDisjoint
    <3>5. \A p \in owned' : Region(p) \subseteq used' \ reserved'
      BY Zenon, <2>1, <2>2, <3>2, <3>3
    <3> QED BY Zenon, <3>4, <3>5 DEF AllocationsDisjoint, Region
  <2>5. used' \ reserved' = (used \ reserved) \cup R
    BY Zenon, <2>1, <2>2 DEF ReservedInv
  <2>6. AccountingExact'
    <3>1. UNION {Region(p) : p \in owned'} = (UNION {Region(p) : p \in owned}) \cup R
      BY Zenon, <2>1, <2>2
    <3>2. (used \ reserved) \cap R = {} /\ used \ reserved \in SUBSET Blocks
      BY Zenon, <2>1 DEF TypeOK
    <3>3. regionStart \in Nat /\ blocks \in Nat \ {0}
      BY <1>0, <2>0
    <3>4. Cardinality((used \ reserved) \cup R) = Cardinality(used \ reserved) + blocks
      BY ZenonT(60), <2>1, <3>2, <3>3, CountRun DEF R
    <3>5. allocatedSizeInBlocks' = Cardinality(used' \ reserved')
      BY Zenon, <2>2, <2>5, <3>4 DEF AccountingExact
    <3>6. used' \ reserved' = UNION {Region(p) : p \in owned'}
      BY Zenon, <2>5, <3>1 DEF AccountingExact
    <3> QED BY Zenon, <3>5, <3>6 DEF AccountingExact, Region
  <2>7. TypeOK'
    <3>1. used' \in SUBSET Blocks /\ used' \ reserved' \in SUBSET Blocks
      BY Zenon, <2>1, <2>2 DEF TypeOK
    <3>2. allocatedSizeInBlocks' \in 0 .. BitmapSizeInBlocks
      BY Zenon, <2>6, <3>1, BlocksFinite DEF AccountingExact
    <3>3. o \in Blocks \X (1 .. MaxPages)
      BY Zenon, <2>0, <2>1
    <3> QED BY Zenon, <2>2, <2>3, <3>1, <3>2, <3>3 DEF TypeOK
  <2>8. BelowHintIsUsed'
    BY Zenon, <2>0, <2>2 DEF BelowHintIsUsed
  <2> QED
    BY Zenon, <2>2, <2>3, <2>4, <2>6, <2>7, <2>8 DEF PanicOnlyWhenFull, ScanInv, MarkInv, ReservedInv
<1>6. ASSUME NEW o \in owned, Free(o) PROVE IInv'
  <2>0. /\ o \in Blocks \X (1 .. MaxPages) /\ o[1] \in Nat /\ o[2] \in Nat \ {0}
        /\ o[1] \in Blocks /\ pc = "idle"
    BY <1>0, <1>6 DEF TypeOK, Free, Blocks
  <2>1. Region(o) = MarkedBlocks(o[1] * BLOCK_SIZE, o[2] * BLOCK_SIZE, FALSE)
    BY Zenon, <2>0, WholeBlocks DEF Region
  <2>2. /\ used' = used \ Region(o) /\ owned' = owned \ {o}
        /\ lastDeepFragmented' = Lowered(lastDeepFragmented, o[1])
        /\ allocatedSizeInBlocks' = allocatedSizeInBlocks - o[2]
        /\ UNCHANGED <<stray, reserved, scan>>
    BY Zenon, <1>6, <2>1 DEF Free
  <2>3. Region(o) \subseteq used \ reserved
    BY Zenon, <1>6 DEF AllocationsDisjoint
  <2>4. \A p \in owned' : Region(p) \cap Region(o) = {}
    BY Zenon, <1>6, <2>2 DEF AllocationsDisjoint
  <2>5. AllocationsDisjoint'
    <3>1. \A p, q \in owned' : p # q => Region(p) \cap Region(q) = {}
      BY Zenon, <2>2 DEF AllocationsDisjoint
    <3>2. \A p \in owned' : Region(p) \subseteq used' \ reserved'
      BY Zenon, <2>2, <2>4 DEF AllocationsDisjoint
    <3> QED BY Zenon, <3>1, <3>2 DEF AllocationsDisjoint, Region
  <2>6. used' \ reserved' = (used \ reserved) \ Region(o)
    BY Zenon, <2>2
  <2>7. AccountingExact'
    <3>1. (UNION {Region(p) : p \in owned}) \ Region(o) = UNION {Region(p) : p \in owned'}
      BY Zenon, <1>6, <2>2, <2>4
    <3>2. Cardinality((used \ reserved) \ Region(o)) = Cardinality(used \ reserved) - o[2]
      <4>1. used \ reserved \in SUBSET Blocks /\ Region(o) \subseteq Blocks
        BY Zenon, <2>3 DEF TypeOK
      <4> QED BY Zenon, <2>0, <2>3, <4>1, CountRun DEF Region
    <3>3. allocatedSizeInBlocks' = Cardinality(used' \ reserved')
      BY Zenon, <2>2, <2>6, <3>2 DEF AccountingExact
    <3>4. used' \ reserved' = UNION {Region(p) : p \in owned'}
      BY Zenon, <2>6, <3>1 DEF AccountingExact
    <3> QED BY Zenon, <3>3, <3>4 DEF AccountingExact, Region
  <2>8. TypeOK'
    <3>1. used' \in SUBSET Blocks /\ used' \ reserved' \in SUBSET Blocks
      BY Zenon, <2>2 DEF TypeOK
    <3>2. allocatedSizeInBlocks' \in 0 .. BitmapSizeInBlocks
      BY Zenon, <2>7, <3>1, BlocksFinite DEF AccountingExact
    <3>3. lastDeepFragmented' \in 0 .. BitmapSizeInBlocks
      BY <1>0, <2>0, <2>2 DEF Lowered, TypeOK, Blocks
    <3> QED BY Zenon, <2>2, <3>1, <3>2, <3>3 DEF TypeOK, scan
  <2>9. BelowHintIsUsed'
    <3>1. \A b \in 0 .. lastDeepFragmented' - 1 : b \in used /\ b \notin Region(o)
      BY <1>0, <2>0, <2>2 DEF Lowered, TypeOK, Blocks, BelowHintIsUsed, Region
    <3> QED BY Zenon, <2>2, <3>1 DEF BelowHintIsUsed
  <2> QED
    BY Zenon, <2>0, <2>2, <2>3, <2>5, <2>7, <2>8, <2>9
       DEF PanicOnlyWhenFull, ScanInv, MarkInv, ReservedInv, scan
<1>7. CASE UNCHANGED vars
  BY Zenon, <1>7 DEF vars, scan, TypeOK, BelowHintIsUsed, AllocationsDisjoint,
        AccountingExact, PanicOnlyWhenFull, ScanInv, MarkInv, ReservedInv
<1> QED
  BY Zenon, <1>1, <1>2, <1>3, <1>4, <1>5, <1>6, <1>7 DEF Next

\* No page is handed out twice and the books balance, for every memory map.
THEOREM AllocatorSafe ==
  Spec => [](TypeOK /\ BelowHintIsUsed /\ AllocationsSound)
<1>1. IInv => TypeOK /\ BelowHintIsUsed /\ AllocationsSound
  BY Zenon DEF IInv, AllocationsSound
<1> QED BY <1>1, InitIInv, NextIInv, PTL DEF Spec

\* physical_allocate panics only when no free run is long enough, for every
\* memory map: the hint costs no memory and block 0 is never what is found.
THEOREM AllocatorComplete == Spec => []PanicOnlyWhenFull
<1>1. IInv => PanicOnlyWhenFull
  BY Zenon DEF IInv
<1> QED BY <1>1, InitIInv, NextIInv, PTL DEF Spec

-----------------------------------------------------------------------------
(* The port numbers of the network stack, for any set of sockets.             *)
\* A port is a u16 and the last u16 is not one of them; the random starts are
\* ephemeral ports.
PortConstants ==
  /\ NETPORTS_EPH_START \in Nat \ {0} /\ NETPORTS_AVAILABLE_PORTS \in Nat
  /\ StartSpan \in Nat \ {0} /\ PortWidth \in Nat
  /\ NETPORTS_EPH_START + StartSpan <= NETPORTS_AVAILABLE_PORTS
  /\ NETPORTS_AVAILABLE_PORTS < PortWidth

\* A port's bit is set exactly while some socket holds the port, and the scan never
\* starts outside the ephemeral ports.
PortsInv ==
  /\ ports \subseteq Indices \ {0} /\ held \in [Sockets -> Indices]
  /\ last_eph_port \in Int /\ exhausted \in BOOLEAN
  /\ ~exhausted => last_eph_port \in Ephemeral
  /\ PortsUnique
  /\ \A port \in ports : \E s \in Sockets : held[s] = port
  /\ PanicOnlyWhenHeld

\* A scan that goes up meets a first hit, if there is one.
LEMMA LeastHit ==
  ASSUME NEW S \in SUBSET Nat, S # {}
  PROVE  Lowest(S) \in S
<1>1. PICK k \in S : \A j \in S : ~(<<j, k>> \in OpToRel(<, Nat))
  BY NatLessThanWellFounded, WFMin, Zenon
<1>2. \A j \in S : ~(j < k)
  BY Zenon, <1>1 DEF OpToRel
<1>3. \E x \in S : \A y \in S : x <= y
  BY <1>2
<1> QED
  BY Zenon, <1>3 DEF Lowest

\* No port is held when the network comes up.
LEMMA PortsInvInit == ASSUME PortConstants PROVE PortsInit => PortsInv
<1> SUFFICES ASSUME PortsInit PROVE PortsInv
  BY Zenon
<1>1. /\ ports = {} /\ held = [s \in Sockets |-> 0] /\ exhausted = FALSE
      /\ last_eph_port \in Starts
  BY Zenon DEF PortsInit
<1>2. 0 \in Indices /\ Starts \subseteq Ephemeral /\ Ephemeral \subseteq Int
  BY DEF PortConstants, Indices, Starts, Ephemeral
<1>3. \A s \in Sockets : held[s] = 0
  BY Zenon, <1>1
<1> QED
  BY Zenon, <1>1, <1>2, <1>3 DEF PortsInv, PortsUnique, PanicOnlyWhenHeld

\* A socket without a port takes one whose bit is clear.
LEMMA TakePort ==
  ASSUME PortConstants, PortsInv, ~exhausted, NEW s \in Sockets, held[s] = 0,
         NEW port \in Indices \ {0}, port \notin ports,
         ports' = ports \cup {port}, held' = [held EXCEPT ![s] = port],
         last_eph_port' \in Ephemeral, exhausted' = exhausted
  PROVE  PortsInv'
<1>1. held'[s] = port /\ \A t \in Sockets : t # s => held'[t] = held[t]
  BY Zenon DEF PortsInv
<1>2. PortsUnique'
  BY <1>1 DEF PortsInv, PortsUnique
<1>3. \A q \in ports' : \E t \in Sockets : held'[t] = q
  BY Zenon, <1>1 DEF PortsInv
<1>4. last_eph_port' \in Int
  BY DEF PortConstants, Ephemeral
<1> QED
  BY Zenon, <1>2, <1>3, <1>4 DEF PortsInv, PanicOnlyWhenHeld

\* Taking, scanning for and freeing a port keep bitmap and holders together.
LEMMA PortsInvNext == ASSUME PortConstants PROVE PortsInv /\ [PortsNext]_portVars => PortsInv'
<1> SUFFICES ASSUME PortsInv, [PortsNext]_portVars PROVE PortsInv'
  BY Zenon
<1>1. ASSUME ~exhausted, NEW s \in Sockets, Gen(s) PROVE PortsInv'
  <2> DEFINE N == NETPORTS_AVAILABLE_PORTS
             E == NETPORTS_EPH_START
  <2>0. held[s] = 0
    BY Zenon, <1>1 DEF Gen
  <2>1. PICK from \in ScanStarts :
          \/ Higher(from) # {} /\ GenInner(s, Lowest(Higher(from)))
          \/ /\ Higher(from) = {} /\ Lower(from) # {}
             /\ GenInner(s, Lowest(Lower(from)))
          \/ /\ Higher(from) = {} /\ Lower(from) = {}
             /\ last_eph_port' = from /\ exhausted' = TRUE
             /\ UNCHANGED <<ports, held>>
    BY Zenon, <1>1 DEF Gen
  <2>2. from \in E .. N /\ E \in Nat /\ E > 0 /\ N \in Nat
    <3>1. last_eph_port \in E .. N - 1
      BY Zenon, <1>1 DEF PortsInv, Ephemeral
    <3>2. (last_eph_port + 1) % PortWidth = last_eph_port + 1
      BY <3>1 DEF PortConstants
    <3> QED BY <3>1, <3>2 DEF PortConstants, ScanStarts, Starts
  <2>3. ASSUME NEW S \in SUBSET (Ephemeral \ ports), S # {}, GenInner(s, Lowest(S))
        PROVE  PortsInv'
    <3> DEFINE port == Lowest(S)
    <3>1. S \subseteq Nat
      BY <2>2 DEF Ephemeral
    <3>2. port \in S
      BY Zenon, <2>3, <3>1, LeastHit
    <3>3. /\ ports' = ports \cup {port} /\ held' = [held EXCEPT ![s] = port]
          /\ last_eph_port' = port /\ exhausted' = exhausted
      BY Zenon, <2>3 DEF GenInner
    <3> HIDE DEF port
    <3>4. port \in Indices \ {0} /\ port \notin ports /\ port \in Ephemeral
      BY <3>2, <2>2 DEF Ephemeral, Indices
    <3> QED BY Zenon, <1>1, <2>0, <3>3, <3>4, TakePort
  <2>4. Higher(from) \subseteq Ephemeral \ ports
    BY <2>2 DEF Higher, Ephemeral
  <2>5. Lower(from) \subseteq Ephemeral \ ports
    BY <2>2 DEF Lower, Ephemeral
  <2>6. CASE /\ Higher(from) = {} /\ Lower(from) = {}
             /\ last_eph_port' = from /\ exhausted' = TRUE
             /\ UNCHANGED <<ports, held>>
    <3>1. Ephemeral \subseteq ports
      BY <2>2, <2>6 DEF Higher, Lower, Ephemeral
    <3>2. from \in Int
      BY <2>2
    <3> QED BY Zenon, <2>6, <3>1, <3>2 DEF PortsInv, PanicOnlyWhenHeld, PortsUnique
  <2> QED BY ZenonT(60), <2>1, <2>3, <2>4, <2>5, <2>6
<1>2. ASSUME ~exhausted, NEW s \in Sockets, FreePort(s) PROVE PortsInv'
  <2>1. /\ held[s] # 0 /\ ports' = ports \ {held[s]} /\ held' = [held EXCEPT ![s] = 0]
        /\ UNCHANGED <<last_eph_port, exhausted>>
    BY Zenon, <1>2 DEF FreePort
  <2>2. held'[s] = 0 /\ \A t \in Sockets : t # s => held'[t] = held[t]
    BY Zenon, <2>1 DEF PortsInv
  <2>3. \A t \in Sockets : held[t] = held[s] => t = s
    BY Zenon, <2>1 DEF PortsInv, PortsUnique
  <2>4. PortsUnique'
    BY <2>1, <2>2, <2>3 DEF PortsInv, PortsUnique
  <2>5. \A q \in ports' : \E t \in Sockets : held'[t] = q
    BY Zenon, <2>1, <2>2 DEF PortsInv
  <2>6. held' \in [Sockets -> Indices]
    BY <2>1 DEF PortsInv, PortConstants, Indices
  <2> QED
    BY Zenon, <1>2, <2>1, <2>4, <2>5, <2>6 DEF PortsInv, PanicOnlyWhenHeld
<1>3. ASSUME ~exhausted, NEW s \in Sockets, NEW port \in Indices \ {0}, MarkSafe(s, port)
      PROVE  PortsInv'
  BY ZenonT(60), <1>3, TakePort DEF MarkSafe, PortsInv
<1>4. CASE UNCHANGED portVars
  BY Zenon, <1>4 DEF portVars, PortsInv, PortsUnique, PanicOnlyWhenHeld
<1> QED
  BY Zenon, <1>1, <1>2, <1>3, <1>4 DEF PortsNext

\* No port is held by two sockets, the bit of a held port is set, so that free's
\* assertion holds, and gen panics only when every ephemeral port is held.
THEOREM PortsCorrect ==
  ASSUME PortConstants
  PROVE  PortsSpec => []PortsHeldOnce
<1>1. PortsInv => PortsHeldOnce
  BY Zenon DEF PortsInv, PortsHeldOnce
<1>2. PortsInit => PortsInv
  BY Zenon, PortsInvInit
<1>3. PortsInv /\ [PortsNext]_portVars => PortsInv'
  BY Zenon, PortsInvNext
<1> QED
  BY <1>1, <1>2, <1>3, PTL DEF PortsSpec

-----------------------------------------------------------------------------
(* The pseudo-terminal pairs, for any descriptors, places and number of ids.   *)
TerminalConstants == PTY_MAX \in Nat \ {0} /\ NoPair \notin Pairs /\ IsFiniteSet(Fds)

PairsTyped ==
  /\ ptyBitmap \subseteq Ids /\ dsPtyPair \subseteq Pairs /\ buffers \subseteq dsPtyPair
  /\ id \in [Pairs -> Ids] /\ masterFds \in [Pairs -> Int]
  /\ dir \in [Fds -> Pairs \cup {NoPair}] /\ decided \in [Fds -> Ids]
  /\ fdPc \in [Fds -> {"closed", "link", "open", "free", "remove", "unlink"}]
  /\ halted \in BOOLEAN

\* A descriptor has a pair from the end of its open to the end of its close; the
\* pair has its buffers exactly while a descriptor is open or about to free them.
DirsSound ==
  /\ \A f \in Fds : fdPc[f] \in {"closed", "link"} <=> dir[f] = NoPair
  /\ \A f \in Fds : dir[f] # NoPair => dir[f] \in dsPtyPair
  /\ \A f \in Fds : fdPc[f] \in {"open", "free"} => dir[f] \in buffers
  /\ \A p \in buffers : \E f \in Fds : fdPc[f] \in {"open", "free"} /\ dir[f] = p

\* A pair that is being torn down has no other descriptor.
OneCloser ==
  \A f, g \in Fds : fdPc[f] \in {"free", "remove", "unlink"} /\ dir[f] = dir[g] => f = g

UsesId(f, n) ==
  \/ fdPc[f] = "link" /\ decided[f] = n
  \/ fdPc[f] \in {"open", "free", "remove"} /\ id[dir[f]] = n

\* An id is taken exactly while a call or a pair uses it, and one call or one pair.
IdsSound ==
  /\ \A n \in Ids : n \in ptyBitmap <=> \E f \in Fds : UsesId(f, n)
  /\ \A f, g \in Fds, n \in Ids : UsesId(f, n) /\ UsesId(g, n) =>
       f = g \/ (dir[f] = dir[g] /\ dir[f] # NoPair)

Counted == \A p \in dsPtyPair : masterFds[p] = Cardinality(Openers(p))

TerminalsInv ==
  PairsTyped /\ DirsSound /\ OneCloser /\ IdsSound /\ Counted /\ PanicOnlyWhenTaken

\* A pair is open through finitely many descriptors, so that masterFds can count them.
LEMMA OpenersFinite ==
  ASSUME TerminalConstants, NEW p
  PROVE  IsFiniteSet(Openers(p)) /\ Cardinality(Openers(p)) \in Nat
<1>1. Openers(p) \subseteq Fds
  BY Zenon DEF Openers
<1> QED
  BY Zenon, <1>1, FS_Subset, FS_CardinalityType DEF TerminalConstants

\* With one pair per id, no two terminals share an id.
LEMMA TerminalsInvSafe == ASSUME TerminalConstants, TerminalsInv PROVE PairsHeldOnce
<1>1. ASSUME NEW f \in Fds, fdPc[f] = "open"
      PROVE  dir[f] \in dsPtyPair \cap buffers /\ id[dir[f]] \in ptyBitmap
  <2>1. dir[f] \in buffers /\ dir[f] \in dsPtyPair /\ dir[f] \in Pairs
    BY Zenon, <1>1 DEF TerminalsInv, DirsSound, PairsTyped
  <2>2. id[dir[f]] \in Ids
    BY Zenon, <2>1 DEF TerminalsInv, PairsTyped
  <2>3. UsesId(f, id[dir[f]])
    BY Zenon, <1>1 DEF UsesId
  <2> QED BY Zenon, <2>1, <2>2, <2>3 DEF TerminalsInv, IdsSound
<1>2. ASSUME NEW p \in buffers, NEW q \in buffers, id[p] = id[q] PROVE p = q
  <2>1. PICK f \in Fds : fdPc[f] \in {"open", "free"} /\ dir[f] = p
    BY Zenon DEF TerminalsInv, DirsSound
  <2>2. PICK g \in Fds : fdPc[g] \in {"open", "free"} /\ dir[g] = q
    BY Zenon DEF TerminalsInv, DirsSound
  <2>3. id[p] \in Ids
    BY Zenon DEF TerminalsInv, PairsTyped
  <2>4. UsesId(f, id[p]) /\ UsesId(g, id[p])
    BY Zenon, <1>2, <2>1, <2>2 DEF UsesId
  <2> QED BY Zenon, <2>1, <2>2, <2>3, <2>4 DEF TerminalsInv, IdsSound
<1>3. /\ \A p \in dsPtyPair : masterFds[p] = Cardinality(Openers(p))
      /\ \A f, g \in Fds : fdPc[f] \in {"free", "remove", "unlink"} /\ dir[f] = dir[g] => f = g
      /\ PanicOnlyWhenTaken
  BY SMTT(40) DEF TerminalsInv, Counted, OneCloser
<1>4. PairsSound
  BY SMTT(40), <1>1, <1>2, <1>3 DEF PairsSound
<1> QED
  BY Zenon, <1>3, <1>4 DEF PairsHeldOnce

\* At boot no id is taken and no pair exists.
LEMMA TerminalsInit == ASSUME TerminalConstants PROVE PtyInit => TerminalsInv
<1> SUFFICES ASSUME PtyInit PROVE TerminalsInv
  BY Zenon
<1>1. /\ ptyBitmap = {} /\ dsPtyPair = {} /\ buffers = {} /\ halted = FALSE
      /\ \A f \in Fds : dir[f] = NoPair /\ fdPc[f] = "closed"
  BY Zenon DEF PtyInit
<1>2. 0 \in Ids
  BY DEF TerminalConstants, Ids
<1>3. PairsTyped
  <2>1. ptyBitmap \subseteq Ids /\ dsPtyPair \subseteq Pairs /\ buffers \subseteq dsPtyPair
    BY Zenon, <1>1
  <2>2. id \in [Pairs -> Ids] /\ masterFds \in [Pairs -> Int]
    BY <1>2 DEF PtyInit
  <2>3. dir \in [Fds -> Pairs \cup {NoPair}] /\ decided \in [Fds -> Ids]
    BY Zenon, <1>2 DEF PtyInit
  <2>4. fdPc \in [Fds -> {"closed", "link", "open", "free", "remove", "unlink"}] /\ halted \in BOOLEAN
    BY Zenon DEF PtyInit
  <2> QED BY SMTT(40), <2>1, <2>2, <2>3, <2>4 DEF PairsTyped
<1>4. IdsSound
  BY Zenon, <1>1 DEF IdsSound, UsesId
<1> QED
  BY Zenon, <1>1, <1>3, <1>4 DEF TerminalsInv, DirsSound, OneCloser, Counted, PanicOnlyWhenTaken

\* Taking an id (ptyBitmapDecide) gives it to one call only.
LEMMA TerminalsDecide ==
  ASSUME TerminalConstants, TerminalsInv, ~halted, NEW f \in Fds, Decide(f)
  PROVE  TerminalsInv'
<1>0. fdPc[f] = "closed" /\ UNCHANGED <<dsPtyPair, id, masterFds, buffers, dir>>
  BY Zenon DEF Decide
<1>1. CASE FreeIds = {} /\ halted' = TRUE /\ UNCHANGED <<ptyBitmap, decided, fdPc>>
  <2>1. \A n \in Ids : n \in ptyBitmap
    BY Zenon, <1>1 DEF FreeIds
  <2>2. \A n \in Ids : \E g \in Fds : UsesId(g, n)
    BY Zenon, <2>1 DEF TerminalsInv, IdsSound
  <2>3. PanicOnlyWhenTaken'
    BY SMTT(40), <1>0, <1>1, <2>2 DEF PanicOnlyWhenTaken, UsesId, Ids
  <2>4. PairsTyped' /\ DirsSound' /\ OneCloser' /\ Counted'
    BY SMTT(40), <1>0, <1>1 DEF TerminalsInv, PairsTyped, DirsSound, OneCloser, Counted, Openers, Ids
  <2>5. IdsSound'
    BY ZenonT(60), <1>0, <1>1 DEF TerminalsInv, IdsSound, UsesId, Ids
  <2> QED BY Zenon, <2>3, <2>4, <2>5 DEF TerminalsInv
<1>2. CASE \E n \in FreeIds :
        /\ ptyBitmap' = ptyBitmap \cup {n}
        /\ decided' = [decided EXCEPT ![f] = n]
        /\ fdPc' = [fdPc EXCEPT ![f] = "link"]
        /\ UNCHANGED halted
  <2>1. PICK n \in FreeIds :
          /\ ptyBitmap' = ptyBitmap \cup {n}
          /\ decided' = [decided EXCEPT ![f] = n]
          /\ fdPc' = [fdPc EXCEPT ![f] = "link"]
          /\ UNCHANGED halted
    BY ZenonT(60), <1>2
  <2>2. n \in Ids /\ n \notin ptyBitmap
    BY Zenon DEF FreeIds
  <2>3. /\ fdPc'[f] = "link" /\ decided'[f] = n
        /\ \A g \in Fds : g # f => fdPc'[g] = fdPc[g] /\ decided'[g] = decided[g]
    BY Zenon, <2>1 DEF TerminalsInv, PairsTyped
  <2>4. PairsTyped'
    BY Zenon, <1>0, <2>1, <2>2 DEF TerminalsInv, PairsTyped, Ids
  <2>5. DirsSound' /\ OneCloser'
    BY SMTT(40), <1>0, <2>3 DEF TerminalsInv, DirsSound, OneCloser
  <2>6. \A g \in Fds : \A m : UsesId(g, m)' <=> (g = f /\ m = n) \/ (g # f /\ UsesId(g, m))
    BY Zenon, <1>0, <2>3 DEF UsesId
  <2>7. \A m : ~UsesId(f, m)
    BY Zenon, <1>0 DEF UsesId
  <2>8. IdsSound'
    BY SMTT(40), <1>0, <2>1, <2>2, <2>6, <2>7 DEF TerminalsInv, IdsSound, Ids
  <2>9. \A p : Openers(p)' = Openers(p)
    BY Zenon, <1>0, <2>3 DEF Openers
  <2>10. Counted'
    BY Zenon, <1>0, <2>9 DEF TerminalsInv, Counted
  <2> QED BY Zenon, <2>1, <2>4, <2>5, <2>8, <2>10 DEF TerminalsInv, PanicOnlyWhenTaken
<1> QED BY Zenon, <1>1, <1>2 DEF Decide

\* Linking the new pair hands the call's id over to it.
LEMMA TerminalsLink ==
  ASSUME TerminalConstants, TerminalsInv, ~halted, NEW f \in Fds, Link(f)
  PROVE  TerminalsInv'
<1>0. /\ fdPc[f] = "link" /\ fdPc' = [fdPc EXCEPT ![f] = "open"]
      /\ decided' = [decided EXCEPT ![f] = 0] /\ UNCHANGED <<ptyBitmap, halted>>
  BY Zenon DEF Link
<1>1. PICK p \in Pairs \ dsPtyPair :
        /\ dsPtyPair' = dsPtyPair \cup {p}
        /\ id' = [id EXCEPT ![p] = decided[f]]
        /\ masterFds' = [masterFds EXCEPT ![p] = 1]
        /\ buffers' = buffers \cup {p}
        /\ dir' = [dir EXCEPT ![f] = p]
  BY ZenonT(60) DEF Link
<1>2. 0 \in Ids /\ decided[f] \in Ids
  BY DEF TerminalConstants, Ids, TerminalsInv, PairsTyped
<1>3. PairsTyped'
  BY <1>0, <1>1, <1>2 DEF TerminalsInv, PairsTyped, Ids
<1>4. /\ fdPc'[f] = "open" /\ dir'[f] = p /\ id'[p] = decided[f] /\ masterFds'[p] = 1
      /\ \A g \in Fds : g # f => fdPc'[g] = fdPc[g] /\ decided'[g] = decided[g] /\ dir'[g] = dir[g]
      /\ \A q \in Pairs : q # p => id'[q] = id[q] /\ masterFds'[q] = masterFds[q]
  BY Zenon, <1>0, <1>1 DEF TerminalsInv, PairsTyped
<1>5. p # NoPair /\ \A g \in Fds : dir[g] # p
  BY <1>1 DEF TerminalConstants, TerminalsInv, DirsSound
<1>6. DirsSound'
  BY SMTT(40), <1>0, <1>1, <1>4, <1>5 DEF TerminalsInv, DirsSound
<1>7. OneCloser'
  <2> SUFFICES ASSUME NEW g \in Fds, NEW h \in Fds,
                      fdPc'[g] \in {"free", "remove", "unlink"}, dir'[g] = dir'[h]
               PROVE  g = h
    BY Zenon DEF OneCloser
  <2>1. g # f /\ fdPc[g] = fdPc'[g] /\ dir[g] = dir'[g]
    BY Zenon, <1>4
  <2>2. h # f /\ dir[h] = dir'[h]
    BY Zenon, <1>4, <1>5, <2>1
  <2> QED BY Zenon, <2>1, <2>2 DEF TerminalsInv, OneCloser
<1>8. \A g \in Fds : \A m : UsesId(g, m)' <=> UsesId(g, m)
  <2> SUFFICES ASSUME NEW g \in Fds, NEW m PROVE UsesId(g, m)' <=> UsesId(g, m)
    BY Zenon
  <2>1. CASE g = f
    BY SMTT(40), <2>1, <1>0, <1>4 DEF UsesId
  <2>2. CASE g # f /\ fdPc[g] \in {"open", "free", "remove"}
    <3>1. dir[g] \in Pairs /\ dir[g] # p
      BY SMTT(40), <2>2, <1>5 DEF TerminalsInv, DirsSound, PairsTyped
    <3> QED BY Zenon, <2>2, <3>1, <1>4 DEF UsesId
  <2>3. CASE g # f /\ fdPc[g] \notin {"open", "free", "remove"}
    BY ZenonT(60), <2>3, <1>4 DEF UsesId
  <2> QED BY Zenon, <2>1, <2>2, <2>3
<1>9. IdsSound'
  <2>1. \A g \in Fds, n \in Ids : UsesId(g, n) /\ UsesId(f, n) => g = f
    BY Zenon, <1>0 DEF TerminalsInv, DirsSound, IdsSound
  <2>2. \A n \in Ids : n \in ptyBitmap <=> \E g \in Fds : UsesId(g, n)'
    BY SMTT(40), <1>8 DEF TerminalsInv, IdsSound
  <2>3. \A g, h \in Fds, n \in Ids : UsesId(g, n)' /\ UsesId(h, n)' =>
          g = h \/ (dir'[g] = dir'[h] /\ dir'[g] # NoPair)
    <3> SUFFICES ASSUME NEW g \in Fds, NEW h \in Fds, NEW n \in Ids,
                        UsesId(g, n)', UsesId(h, n)', g # h
                 PROVE  dir'[g] = dir'[h] /\ dir'[g] # NoPair
      BY Zenon
    <3>1. UsesId(g, n) /\ UsesId(h, n)
      BY Zenon, <1>8
    <3>2. g # f /\ h # f
      BY Zenon, <2>1, <3>1
    <3>3. dir[g] = dir[h] /\ dir[g] # NoPair
      BY Zenon, <3>1 DEF TerminalsInv, IdsSound
    <3> QED BY ZenonT(60), <1>4, <3>2, <3>3
  <2> QED BY SMTT(40), <1>0, <2>2, <2>3 DEF IdsSound, Ids
<1>10. Counted'
  <2> SUFFICES ASSUME NEW q \in dsPtyPair' PROVE masterFds'[q] = Cardinality(Openers(q)')
    BY SMTT(40) DEF Counted
  <2>1. CASE q = p
    <3>1. Openers(q)' = {f}
      BY <2>1, <1>4, <1>5 DEF Openers
    <3> QED BY ZenonT(60), <2>1, <3>1, <1>4, FS_Singleton
  <2>2. CASE q # p
    <3>1. q \in dsPtyPair /\ q \in Pairs
      BY Zenon, <2>2, <1>1 DEF TerminalsInv, PairsTyped
    <3>2. Openers(q)' = Openers(q)
      BY Zenon, <2>2, <1>0, <1>4 DEF Openers
    <3> QED BY Zenon, <2>2, <3>1, <3>2, <1>4 DEF TerminalsInv, Counted
  <2> QED BY Zenon, <2>1, <2>2
<1> QED
  BY Zenon, <1>0, <1>3, <1>6, <1>7, <1>9, <1>10 DEF TerminalsInv, PanicOnlyWhenTaken

\* A duplicated descriptor is counted in masterFds.
LEMMA TerminalsDuplicate ==
  ASSUME TerminalConstants, TerminalsInv, ~halted, NEW f \in Fds, NEW new \in Fds,
         Duplicate(f, new)
  PROVE  TerminalsInv'
<1> DEFINE p == dir[f]
<1>0. /\ fdPc[f] = "open" /\ fdPc[new] = "closed"
      /\ dir' = [dir EXCEPT ![new] = p]
      /\ masterFds' = [masterFds EXCEPT ![p] = @ + 1]
      /\ fdPc' = [fdPc EXCEPT ![new] = "open"]
      /\ UNCHANGED <<ptyBitmap, dsPtyPair, id, buffers, decided, halted>>
  BY SMTT(40) DEF Duplicate
<1>1. p \in Pairs /\ p \in dsPtyPair /\ p \in buffers /\ p # NoPair /\ f # new /\ p = dir[f]
  BY SMTT(40), <1>0 DEF TerminalsInv, PairsTyped, DirsSound, TerminalConstants
<1> HIDE DEF p
<1>2. /\ fdPc'[new] = "open" /\ dir'[new] = p
      /\ \A g \in Fds : g # new => fdPc'[g] = fdPc[g] /\ dir'[g] = dir[g]
      /\ masterFds'[p] = masterFds[p] + 1
      /\ \A q \in Pairs : q # p => masterFds'[q] = masterFds[q]
  BY SMTT(40), <1>0, <1>1 DEF TerminalsInv, PairsTyped
<1>3. PairsTyped'
  BY SMTT(40), <1>0, <1>1 DEF TerminalsInv, PairsTyped, Ids
<1>4. DirsSound'
  BY SMTT(40), <1>0, <1>1, <1>2 DEF TerminalsInv, DirsSound
<1>5. OneCloser'
  BY SMTT(40), <1>0, <1>1, <1>2 DEF TerminalsInv, OneCloser
<1>6. \A g \in Fds : \A m : UsesId(g, m)' <=> (g = new /\ UsesId(f, m)) \/ (g # new /\ UsesId(g, m))
  BY SMTT(40), <1>0, <1>1, <1>2 DEF UsesId
<1>7. IdsSound'
  <2>1. \A m : ~UsesId(new, m)
    BY Zenon, <1>0 DEF UsesId
  <2>2. \A n \in Ids : n \in ptyBitmap <=> \E g \in Fds : UsesId(g, n)'
    BY SMTT(40), <1>1, <1>6, <2>1 DEF TerminalsInv, IdsSound
  <2>3. ASSUME NEW g \in Fds, NEW h \in Fds, NEW n \in Ids, UsesId(g, n)', UsesId(h, n)', g # h
        PROVE  dir'[g] = dir'[h] /\ dir'[g] # NoPair
    <3>1. \A k \in Fds : UsesId(k, n) => (k = f \/ dir[k] = dir[f]) \/ ~UsesId(f, n)
      BY Zenon DEF TerminalsInv, IdsSound
    <3> QED BY ZenonT(60), <1>1, <1>2, <1>6, <2>3, <3>1 DEF TerminalsInv, IdsSound
  <2> QED BY SMTT(40), <1>0, <2>2, <2>3 DEF IdsSound, Ids
<1>8. Counted'
  <2> SUFFICES ASSUME NEW q \in dsPtyPair PROVE masterFds'[q] = Cardinality(Openers(q)')
    BY Zenon, <1>0 DEF Counted
  <2>1. CASE q = p
    <3>1. Openers(q)' = Openers(q) \cup {new} /\ new \notin Openers(q)
      BY <2>1, <1>0, <1>2 DEF Openers
    <3>2. Cardinality(Openers(q)') = Cardinality(Openers(q)) + 1
      BY SMTT(40), <3>1, OpenersFinite, FS_AddElement
    <3> QED BY Zenon, <2>1, <3>2, <1>2 DEF TerminalsInv, Counted
  <2>2. CASE q # p
    <3>1. Openers(q)' = Openers(q)
      BY Zenon, <2>2, <1>0, <1>2 DEF Openers
    <3> QED BY SMTT(40), <2>2, <3>1, <1>2 DEF TerminalsInv, Counted, PairsTyped
  <2> QED BY Zenon, <2>1, <2>2
<1> QED
  BY SMTT(40), <1>0, <1>3, <1>4, <1>5, <1>7, <1>8 DEF TerminalsInv, PanicOnlyWhenTaken

\* The close that brings masterFds to zero is the only one to tear the pair down.
LEMMA TerminalsClose ==
  ASSUME TerminalConstants, TerminalsInv, ~halted, NEW f \in Fds, Close(f)
  PROVE  TerminalsInv'
<1> DEFINE p == dir[f]
<1>0. /\ fdPc[f] = "open" /\ masterFds' = [masterFds EXCEPT ![p] = @ - 1]
      /\ UNCHANGED <<ptyBitmap, dsPtyPair, id, buffers, decided, halted>>
  BY SMTT(40) DEF Close
<1>1. p \in Pairs /\ p \in dsPtyPair /\ p \in buffers /\ p # NoPair /\ p = dir[f]
  BY SMTT(40), <1>0 DEF TerminalsInv, PairsTyped, DirsSound, TerminalConstants
<1>2. \/ masterFds[p] = 1 /\ fdPc' = [fdPc EXCEPT ![f] = "free"] /\ UNCHANGED dir
      \/ masterFds[p] # 1 /\ fdPc' = [fdPc EXCEPT ![f] = "closed"] /\ dir' = [dir EXCEPT ![f] = NoPair]
  BY SMTT(40) DEF Close, Last
<1> HIDE DEF p
<1>3. /\ f \in Openers(p) /\ IsFiniteSet(Openers(p))
      /\ masterFds[p] = Cardinality(Openers(p))
  BY Zenon, <1>0, <1>1, OpenersFinite DEF Openers, TerminalsInv, Counted
<1>4. /\ \A g \in Fds : g # f => fdPc'[g] = fdPc[g] /\ dir'[g] = dir[g]
      /\ masterFds'[p] = masterFds[p] - 1 /\ masterFds[p] \in Int
      /\ \A q \in Pairs : q # p => masterFds'[q] = masterFds[q]
  BY Zenon, <1>0, <1>1, <1>2 DEF TerminalsInv, PairsTyped
<1>5. fdPc'[f] # "open" /\ PairsTyped'
  BY <1>0, <1>1, <1>2 DEF TerminalsInv, PairsTyped, Ids
<1>6. Counted'
  <2> SUFFICES ASSUME NEW q \in dsPtyPair PROVE masterFds'[q] = Cardinality(Openers(q)')
    BY SMTT(40), <1>0 DEF Counted
  <2>1. CASE q = p
    <3>1. Openers(q)' = Openers(q) \ {f}
      BY Zenon, <2>1, <1>4, <1>5 DEF Openers
    <3>2. Cardinality(Openers(q)') = Cardinality(Openers(q)) - 1
      BY ZenonT(60), <2>1, <3>1, <1>3, FS_RemoveElement
    <3> QED BY SMTT(40), <2>1, <3>2, <1>3, <1>4
  <2>2. CASE q # p
    <3>1. Openers(q)' = Openers(q)
      BY ZenonT(60), <2>2, <1>1, <1>4, <1>5 DEF Openers
    <3> QED BY Zenon, <2>2, <3>1, <1>4 DEF TerminalsInv, Counted, PairsTyped
  <2> QED BY Zenon, <2>1, <2>2
<1>7. CASE masterFds[p] = 1 /\ fdPc' = [fdPc EXCEPT ![f] = "free"] /\ UNCHANGED dir
  <2>1. fdPc'[f] = "free" /\ dir'[f] = p
    BY Zenon, <1>1, <1>7 DEF TerminalsInv, PairsTyped
  <2>2. \A g \in Fds : dir[g] = p => g = f
    <3>1. Openers(p) = {f}
      <4>1. PICK x : Openers(p) = {x}
        BY ZenonT(60), <1>3, <1>7, FS_Singleton
      <4> QED BY Zenon, <4>1, <1>3
    <3>2. \A g \in Fds : dir[g] = p => fdPc[g] \in {"open", "free", "remove", "unlink"}
      BY <1>1 DEF TerminalsInv, PairsTyped, DirsSound
    <3> QED BY Zenon, <1>0, <1>1, <3>1, <3>2 DEF Openers, TerminalsInv, OneCloser
  <2>3. DirsSound'
    BY <1>0, <1>1, <1>4, <1>7, <2>1 DEF TerminalsInv, DirsSound
  <2>4. OneCloser'
    BY SMTT(40), <1>1, <1>4, <1>7, <2>1, <2>2 DEF TerminalsInv, OneCloser
  <2>5. \A g \in Fds : \A m : UsesId(g, m)' <=> UsesId(g, m)
    BY Zenon, <1>0, <1>4, <1>7, <2>1 DEF UsesId
  <2>6. IdsSound'
    BY SMTT(40), <1>0, <1>7, <2>5 DEF TerminalsInv, IdsSound, Ids
  <2> QED BY Zenon, <1>0, <1>5, <1>6, <2>3, <2>4, <2>6 DEF TerminalsInv, PanicOnlyWhenTaken
<1>8. CASE masterFds[p] # 1 /\ fdPc' = [fdPc EXCEPT ![f] = "closed"] /\ dir' = [dir EXCEPT ![f] = NoPair]
  <2>1. fdPc'[f] = "closed" /\ dir'[f] = NoPair
    BY Zenon, <1>1, <1>8 DEF TerminalsInv, PairsTyped
  <2>2. PICK g \in Fds : g # f /\ fdPc[g] = "open" /\ dir[g] = p
    <3>1. Openers(p) # {f}
      BY SMTT(40), <1>3, <1>8, FS_Singleton
    <3> QED BY Zenon, <1>3, <3>1 DEF Openers
  <2>3. DirsSound'
    BY SMTT(40), <1>0, <1>1, <1>4, <2>1, <2>2 DEF TerminalsInv, DirsSound
  <2>4. OneCloser'
    <3> SUFFICES ASSUME NEW f1 \in Fds, NEW g1 \in Fds,
                        fdPc'[f1] \in {"free", "remove", "unlink"}, dir'[f1] = dir'[g1]
                 PROVE  f1 = g1
      BY Zenon DEF OneCloser
    <3>1. f1 # f /\ fdPc[f1] = fdPc'[f1] /\ dir[f1] = dir'[f1]
      BY SMTT(40), <1>4, <2>1
    <3>2. dir[f1] # NoPair
      BY SMTT(40), <3>1 DEF TerminalsInv, DirsSound
    <3>3. g1 # f /\ dir[g1] = dir'[g1]
      BY SMTT(40), <1>4, <2>1, <3>1, <3>2
    <3> QED BY SMTT(40), <3>1, <3>3 DEF TerminalsInv, OneCloser
  <2>5. \A h \in Fds : \A m : UsesId(h, m)' <=> h # f /\ UsesId(h, m)
    BY SMTT(40), <1>0, <1>4, <2>1 DEF UsesId
  <2>6. \A m : UsesId(f, m) => UsesId(g, m)
    BY SMTT(40), <1>0, <1>1, <2>2 DEF UsesId
  <2>7. IdsSound'
    <3>1. \A n \in Ids : n \in ptyBitmap <=> \E h \in Fds : UsesId(h, n)'
      BY SMTT(40), <2>2, <2>5, <2>6 DEF TerminalsInv, IdsSound
    <3>2. \A h, k \in Fds, n \in Ids : UsesId(h, n)' /\ UsesId(k, n)' =>
            h = k \/ (dir'[h] = dir'[k] /\ dir'[h] # NoPair)
      BY ZenonT(60), <1>4, <2>5 DEF TerminalsInv, IdsSound
    <3> QED BY SMTT(40), <1>0, <3>1, <3>2 DEF IdsSound, Ids
  <2> QED BY Zenon, <1>0, <1>5, <1>6, <2>3, <2>4, <2>7 DEF TerminalsInv, PanicOnlyWhenTaken
<1> QED BY SMTT(40), <1>2, <1>7, <1>8

\* Freeing the buffers touches a pair nobody else has open.
LEMMA TerminalsFreeBuffers ==
  ASSUME TerminalConstants, TerminalsInv, ~halted, NEW f \in Fds, FreeBuffers(f)
  PROVE  TerminalsInv'
<1>0. /\ fdPc[f] = "free" /\ buffers' = buffers \ {dir[f]} /\ fdPc' = [fdPc EXCEPT ![f] = "remove"]
      /\ UNCHANGED <<ptyBitmap, dsPtyPair, id, masterFds, dir, decided, halted>>
  BY Zenon DEF FreeBuffers
<1>1. /\ fdPc'[f] = "remove"
      /\ \A g \in Fds : g # f => fdPc'[g] = fdPc[g] /\ dir[g] # dir[f]
  BY Zenon, <1>0 DEF TerminalsInv, PairsTyped, OneCloser
<1>2. PairsTyped'
  BY SMTT(40), <1>0 DEF TerminalsInv, PairsTyped, Ids
<1>3. DirsSound' /\ OneCloser'
  BY SMTT(40), <1>0, <1>1 DEF TerminalsInv, DirsSound, OneCloser
<1>4. \A g \in Fds : \A m : UsesId(g, m)' <=> UsesId(g, m)
  BY SMTT(40), <1>0, <1>1 DEF UsesId
<1>5. IdsSound'
  BY Zenon, <1>0, <1>4 DEF TerminalsInv, IdsSound, Ids
<1>6. \A p : Openers(p)' = Openers(p)
  BY Zenon, <1>0, <1>1 DEF Openers
<1>7. Counted'
  BY SMTT(40), <1>0, <1>6 DEF TerminalsInv, Counted
<1> QED
  BY Zenon, <1>0, <1>2, <1>3, <1>5, <1>7 DEF TerminalsInv, PanicOnlyWhenTaken

\* ptyBitmapRemove frees an id that only this pair uses.
LEMMA TerminalsRemove ==
  ASSUME TerminalConstants, TerminalsInv, ~halted, NEW f \in Fds, Remove(f)
  PROVE  TerminalsInv'
<1>0. /\ fdPc[f] = "remove" /\ ptyBitmap' = ptyBitmap \ {id[dir[f]]}
      /\ fdPc' = [fdPc EXCEPT ![f] = "unlink"]
      /\ UNCHANGED <<dsPtyPair, id, masterFds, buffers, dir, decided, halted>>
  BY Zenon DEF Remove
<1>1. /\ fdPc'[f] = "unlink"
      /\ \A g \in Fds : g # f => fdPc'[g] = fdPc[g] /\ dir[g] # dir[f]
  BY Zenon, <1>0 DEF TerminalsInv, PairsTyped, OneCloser
<1>2. PairsTyped'
  BY ZenonT(60), <1>0 DEF TerminalsInv, PairsTyped, Ids
<1>3. DirsSound' /\ OneCloser'
  BY <1>0, <1>1 DEF TerminalsInv, DirsSound, OneCloser
<1>4. \A g \in Fds : \A m : UsesId(g, m)' <=> g # f /\ UsesId(g, m)
  BY Zenon, <1>0, <1>1 DEF UsesId
<1>5. \A m : UsesId(f, m) <=> m = id[dir[f]]
  BY SMTT(40), <1>0 DEF UsesId
<1>6. \A g \in Fds, n \in Ids : g # f /\ UsesId(g, n) => n # id[dir[f]]
  BY Zenon, <1>1, <1>5 DEF TerminalsInv, IdsSound
<1>7. IdsSound'
  <2>1. \A n \in Ids : n \in ptyBitmap' <=> \E g \in Fds : UsesId(g, n)'
    BY SMTT(40), <1>0, <1>4, <1>5, <1>6 DEF TerminalsInv, IdsSound
  <2>2. \A g, h \in Fds, n \in Ids : UsesId(g, n)' /\ UsesId(h, n)' =>
          g = h \/ (dir'[g] = dir'[h] /\ dir'[g] # NoPair)
    BY ZenonT(60), <1>0, <1>4 DEF TerminalsInv, IdsSound
  <2> QED BY SMTT(40), <2>1, <2>2 DEF IdsSound, Ids
<1>8. \A p : Openers(p)' = Openers(p)
  BY Zenon, <1>0, <1>1 DEF Openers
<1>9. Counted'
  BY SMTT(40), <1>0, <1>8 DEF TerminalsInv, Counted
<1> QED
  BY ZenonT(60), <1>0, <1>2, <1>3, <1>7, <1>9 DEF TerminalsInv, PanicOnlyWhenTaken

\* Unlinking the pair leaves no descriptor that leads to it.
LEMMA TerminalsUnlink ==
  ASSUME TerminalConstants, TerminalsInv, ~halted, NEW f \in Fds, Unlink(f)
  PROVE  TerminalsInv'
<1> DEFINE p == dir[f]
<1>0. /\ fdPc[f] = "unlink" /\ dsPtyPair' = dsPtyPair \ {p} /\ id' = [id EXCEPT ![p] = 0]
      /\ dir' = [dir EXCEPT ![f] = NoPair] /\ fdPc' = [fdPc EXCEPT ![f] = "closed"]
      /\ UNCHANGED <<ptyBitmap, masterFds, buffers, decided, halted>>
  BY Zenon DEF Unlink
<1>1. p \in Pairs /\ p # NoPair /\ \A g \in Fds : g # f => dir[g] # p
  BY Zenon, <1>0 DEF TerminalsInv, PairsTyped, DirsSound, OneCloser
<1> HIDE DEF p
<1>2. /\ fdPc'[f] = "closed" /\ dir'[f] = NoPair
      /\ \A g \in Fds : g # f => fdPc'[g] = fdPc[g] /\ dir'[g] = dir[g]
      /\ \A q \in Pairs : q # p => id'[q] = id[q]
  BY Zenon, <1>0 DEF TerminalsInv, PairsTyped
<1>3. p \notin buffers
  BY Zenon, <1>0, <1>1 DEF TerminalsInv, DirsSound
<1>4. PairsTyped'
  <2>1. 0 \in Ids
    BY DEF TerminalConstants, Ids
  <2> QED BY Zenon, <1>0, <1>3, <2>1 DEF TerminalsInv, PairsTyped, Ids
<1>5. DirsSound'
  BY <1>0, <1>1, <1>2 DEF TerminalsInv, DirsSound
<1>6. OneCloser'
  <2> SUFFICES ASSUME NEW g \in Fds, NEW h \in Fds,
                      fdPc'[g] \in {"free", "remove", "unlink"}, dir'[g] = dir'[h]
               PROVE  g = h
    BY Zenon DEF OneCloser
  <2>1. g # f /\ fdPc[g] = fdPc'[g] /\ dir[g] = dir'[g] /\ dir[g] # NoPair
    BY Zenon, <1>2 DEF TerminalsInv, DirsSound
  <2>2. h # f /\ dir[h] = dir'[h]
    BY Zenon, <1>2, <2>1
  <2> QED BY Zenon, <2>1, <2>2 DEF TerminalsInv, OneCloser
<1>7. \A g \in Fds : \A m : UsesId(g, m)' <=> UsesId(g, m)
  <2> SUFFICES ASSUME NEW g \in Fds, NEW m PROVE UsesId(g, m)' <=> UsesId(g, m)
    BY Zenon
  <2>1. CASE g = f
    BY Zenon, <2>1, <1>0, <1>2 DEF UsesId
  <2>2. CASE g # f /\ fdPc[g] \in {"open", "free", "remove"}
    <3>1. dir[g] \in Pairs /\ dir[g] # p
      BY SMTT(40), <2>2, <1>1 DEF TerminalsInv, DirsSound, PairsTyped
    <3> QED BY Zenon, <2>2, <3>1, <1>0, <1>2 DEF UsesId
  <2>3. CASE g # f /\ fdPc[g] \notin {"open", "free", "remove"}
    BY SMTT(40), <2>3, <1>0, <1>2 DEF UsesId
  <2> QED BY Zenon, <2>1, <2>2, <2>3
<1>8. IdsSound'
  <2>1. \A m : ~UsesId(f, m)
    BY Zenon, <1>0 DEF UsesId
  <2>2. \A n \in Ids : n \in ptyBitmap <=> \E g \in Fds : UsesId(g, n)'
    BY SMTT(40), <1>7 DEF TerminalsInv, IdsSound
  <2>3. \A g, h \in Fds, n \in Ids : UsesId(g, n)' /\ UsesId(h, n)' =>
          g = h \/ (dir'[g] = dir'[h] /\ dir'[g] # NoPair)
    BY <1>2, <1>7, <2>1 DEF TerminalsInv, IdsSound
  <2> QED BY Zenon, <1>0, <2>2, <2>3 DEF IdsSound, Ids
<1>9. \A q : Openers(q)' = Openers(q)
  BY Zenon, <1>0, <1>2 DEF Openers
<1>10. Counted'
  BY Zenon, <1>0, <1>9 DEF TerminalsInv, Counted
<1> QED
  BY SMTT(40), <1>0, <1>4, <1>5, <1>6, <1>8, <1>10 DEF TerminalsInv, PanicOnlyWhenTaken

\* Every step of the terminals keeps the invariant.
LEMMA TerminalsNext ==
  ASSUME TerminalConstants
  PROVE  TerminalsInv /\ [PtyNext]_ptyVars => TerminalsInv'
<1> SUFFICES ASSUME TerminalsInv, [PtyNext]_ptyVars PROVE TerminalsInv'
  BY Zenon
<1>1. CASE PtyNext
  BY SMTT(40), <1>1, TerminalsDecide, TerminalsLink, TerminalsDuplicate, TerminalsClose,
     TerminalsFreeBuffers, TerminalsRemove, TerminalsUnlink DEF PtyNext
<1>2. CASE UNCHANGED ptyVars
  <2>1. UNCHANGED <<ptyBitmap, dsPtyPair, id, masterFds, buffers, dir, fdPc, decided, halted>>
    BY SMTT(40), <1>2 DEF ptyVars
  <2>2. PairsTyped' /\ DirsSound' /\ OneCloser'
    BY SMTT(40), <2>1 DEF TerminalsInv, PairsTyped, DirsSound, OneCloser, Ids
  <2>3. IdsSound'
    BY ZenonT(60), <2>1 DEF TerminalsInv, IdsSound, UsesId, Ids
  <2>4. Counted'
    <3>1. \A q : Openers(q)' = Openers(q)
      BY ZenonT(60), <2>1 DEF Openers
    <3> QED BY Zenon, <2>1, <3>1 DEF TerminalsInv, Counted
  <2>5. PanicOnlyWhenTaken'
    BY Zenon, <2>1 DEF TerminalsInv, PanicOnlyWhenTaken, Ids
  <2> QED BY Zenon, <2>2, <2>3, <2>4, <2>5 DEF TerminalsInv
<1> QED
  BY Zenon, <1>1, <1>2

\* An open descriptor's pair is linked, has its buffers and an id no other pair
\* has, it is torn down once and after the last close, and ptyBitmapDecide panics
\* only when every id is in use.
THEOREM TerminalsCorrect ==
  ASSUME TerminalConstants
  PROVE  PtySpec => []PairsHeldOnce
<1>1. TerminalsInv => PairsHeldOnce
  BY Zenon, TerminalsInvSafe
<1>2. PtyInit => TerminalsInv
  BY Zenon, TerminalsInit
<1>3. TerminalsInv /\ [PtyNext]_ptyVars => TerminalsInv'
  BY Zenon, TerminalsNext
<1> QED
  BY <1>1, <1>2, <1>3, PTL DEF PtySpec

\* Neither a pair of terminals nor a port number is ever in two hands, and neither
\* allocator panics while it has something left.
THEOREM HandedOutOnce ==
  ASSUME TerminalConstants, PortConstants
  PROVE  PtySpec /\ PortsSpec => []HeldOnce
BY TerminalsCorrect, PortsCorrect, PTL DEF HeldOnce
=============================================================================
