---------------------------- MODULE Ext2DirProofs ----------------------------
(* Directories, for any processes, names, block size and number of crashes.   *)
EXTENDS Ext2Dir, FiniteSetTheorems, WellFoundedInduction, TLAPS

AllNames == Names \cup {Dot, DotDot}
DirConstants == NameLen \in [AllNames -> Nat] /\ BlockSize \in Nat \ {0}

Rec == [name : AllNames, inode : Int, size : Int]
Disk == Seq(Seq(Rec))

\* An inode is named by an entry; no inode is named by two.
Named(d, x) == \E b \in DOMAIN d : \E k \in DOMAIN d[b] : d[b][k].inode = x
Once(d) ==
  \A b, c \in DOMAIN d : \A k \in DOMAIN d[b], l \in DOMAIN d[c] :
    d[b][k].inode > 0 /\ d[b][k].inode = d[c][l].inode => b = c /\ k = l

-----------------------------------------------------------------------------
(* Lists in ascending order.                                                 *)

\* f lists S in ascending order, and has at most n members.
Enumerates(f, S, n) ==
  /\ f \in UNION {[1 .. m -> S] : m \in 0 .. n}
  /\ \A i, j \in DOMAIN f : i < j => f[i] < f[j]
  /\ \A k \in S : \E i \in DOMAIN f : f[i] = k

\* A set of numbers that is not empty has a least one.
LEMMA LeastNumber ==
  ASSUME NEW S \in SUBSET Nat, S # {}
  PROVE  \E k \in S : \A j \in S : k <= j
<1>1. PICK k \in S : \A j \in S : ~(<<j, k>> \in OpToRel(<, Nat))
  BY NatLessThanWellFounded, WFMin, Zenon
<1>2. \A j \in S : ~(j < k)
  BY Zenon, <1>1 DEF OpToRel
<1> QED BY <1>2

\* Every set of positions has a list: the largest one goes last.
LEMMA OneMore ==
  ASSUME NEW n \in Nat, \A S \in SUBSET (1 .. n) : \E f : Enumerates(f, S, n),
         NEW S \in SUBSET (1 .. (n + 1))
  PROVE  \E f : Enumerates(f, S, n + 1)
<1> DEFINE R == S \ {n + 1}
<1>1. R \in SUBSET (1 .. n)
  OBVIOUS
<1>2. PICK g : Enumerates(g, R, n)
  BY Zenon, <1>1
<1>3. PICK m \in 0 .. n : g \in [1 .. m -> R]
  BY Zenon, <1>2 DEF Enumerates
<1>4. DOMAIN g = 1 .. m /\ \A i \in 1 .. m : g[i] \in R /\ g[i] \in 1 .. n
  BY Zenon, <1>1, <1>3
<1>5. CASE n + 1 \in S
  <2> DEFINE f == [i \in 1 .. (m + 1) |-> IF i = m + 1 THEN n + 1 ELSE g[i]]
  <2>1. f \in [1 .. (m + 1) -> S] /\ m + 1 \in 0 .. (n + 1)
    BY <1>3, <1>4, <1>5
  <2>2. \A i, j \in 1 .. (m + 1) : i < j => f[i] < f[j]
    <3> SUFFICES ASSUME NEW i \in 1 .. (m + 1), NEW j \in 1 .. (m + 1), i < j PROVE f[i] < f[j]
      BY Zenon
    <3>1. i \in 1 .. m /\ f[i] = g[i] /\ g[i] \in 1 .. n
      BY <1>3, <1>4
    <3>2. CASE j = m + 1
      BY <3>1, <3>2
    <3>3. CASE j # m + 1
      <4>1. j \in 1 .. m /\ f[j] = g[j]
        BY <1>3, <3>3
      <4> QED BY Zenon, <1>2, <1>4, <3>1, <4>1 DEF Enumerates
    <3> QED BY Zenon, <3>2, <3>3
  <2>3. \A k \in S : \E i \in 1 .. (m + 1) : f[i] = k
    <3> SUFFICES ASSUME NEW k \in S PROVE \E i \in 1 .. (m + 1) : f[i] = k
      BY Zenon
    <3>1. CASE k = n + 1
      <4>1. m + 1 \in 1 .. (m + 1) /\ f[m + 1] = n + 1
        BY <1>3
      <4> QED BY Zenon, <3>1, <4>1
    <3>2. CASE k # n + 1
      <4>1. PICK i \in 1 .. m : g[i] = k
        BY Zenon, <1>2, <1>4, <3>2 DEF Enumerates
      <4>2. i \in 1 .. (m + 1) /\ f[i] = g[i]
        BY <1>3, <4>1
      <4> QED BY Zenon, <4>1, <4>2
    <3> QED BY Zenon, <3>1, <3>2
  <2>4. DOMAIN f = 1 .. (m + 1)
    BY Zenon
  <2> HIDE DEF f
  <2> QED BY Zenon, <2>1, <2>2, <2>3, <2>4 DEF Enumerates
<1>6. CASE n + 1 \notin S
  <2>1. R = S /\ m \in 0 .. (n + 1)
    BY <1>3, <1>6
  <2> QED BY <1>2, <1>3, <2>1 DEF Enumerates
<1> QED BY Zenon, <1>5, <1>6

\* The numbers of a set up to n can be listed in order.
LEMMA ListExists ==
  ASSUME NEW n \in Nat, NEW S \in SUBSET (1 .. n)
  PROVE  \E f : Enumerates(f, S, n)
<1> DEFINE Good(m) == \A T \in SUBSET (1 .. m) : \E f : Enumerates(f, T, m)
           Bad == {m \in Nat : ~Good(m)}
<1>1. SUFFICES Bad = {}
  BY Zenon
<1>2. SUFFICES ASSUME Bad # {} PROVE FALSE
  BY Zenon
<1>3. PICK k \in Bad : \A j \in Bad : k <= j
  BY Zenon, <1>2, LeastNumber
<1>4. Good(0)
  <2>1. ASSUME NEW T \in SUBSET (1 .. 0) PROVE \E f : Enumerates(f, T, 0)
    <3>1. T = {}
      OBVIOUS
    <3>2. <<>> \in [1 .. 0 -> T] /\ DOMAIN <<>> = {} /\ 0 \in 0 .. 0
      BY <3>1
    <3>3. Enumerates(<<>>, T, 0)
      BY Zenon, <3>1, <3>2 DEF Enumerates
    <3> QED BY Zenon, <3>3
  <2> QED BY Zenon, <2>1
<1>5. k \in Nat /\ k # 0 /\ ~Good(k)
  BY Zenon, <1>3, <1>4
<1>6. k - 1 \in Nat /\ k - 1 \notin Bad /\ (k - 1) + 1 = k
  BY <1>3, <1>5
<1>7. Good(k - 1)
  BY Zenon, <1>6
<1>8. Good((k - 1) + 1)
  BY Zenon, <1>6, <1>7, OneMore
<1> QED BY Zenon, <1>5, <1>6, <1>8

\* InOrder is such a list: the order in which a block's entries are read.
LEMMA InOrderLists ==
  ASSUME NEW n \in Nat, NEW S \in SUBSET (1 .. n)
  PROVE  Enumerates(InOrder(S, n), S, n)
<1> DEFINE F == UNION {[1 .. m -> S] : m \in 0 .. n}
           Good(f) == /\ \A i, j \in DOMAIN f : i < j => f[i] < f[j]
                      /\ \A k \in S : \E i \in DOMAIN f : f[i] = k
<1>1. \A f : Enumerates(f, S, n) <=> f \in F /\ Good(f)
  BY Zenon DEF Enumerates
<1>2. \E f \in F : Good(f)
  BY ListExists, <1>1, Zenon
<1>3. InOrder(S, n) = CHOOSE f \in F : Good(f)
  BY Zenon DEF InOrder
<1> HIDE DEF F, Good
<1>4. InOrder(S, n) \in F /\ Good(InOrder(S, n))
  BY <1>2, <1>3, Zenon
<1> QED BY Zenon, <1>1, <1>4

-----------------------------------------------------------------------------
(* What the writes do to a block.                                            *)

\* Every entry of the new block is one of the old block's, each at most once, with
\* its inode or emptied.
Shrunk(old, new) ==
  \E f \in [DOMAIN new -> DOMAIN old] :
    /\ \A i, j \in DOMAIN new : f[i] = f[j] => i = j
    /\ \A i \in DOMAIN new : new[i].inode \in {0, old[f[i]].inode}

\* What two lists of entries joined hold.
LEMMA Joined ==
  ASSUME NEW s \in Seq(Rec), NEW t \in Seq(Rec)
  PROVE  /\ s \o t \in Seq(Rec) /\ Len(s \o t) = Len(s) + Len(t)
         /\ \A j \in 1 .. (Len(s) + Len(t)) : (s \o t)[j] = IF j <= Len(s) THEN s[j] ELSE t[j - Len(s)]
OBVIOUS

\* The space a name needs is a number.
LEMMA EntrySizes ==
  ASSUME NEW len \in Nat
  PROVE  EntrySize(len) \in Int
BY DEF EntrySize, HEADER

\* So is the space an entry keeps when a new one is put behind it.
LEMMA MinOldInt ==
  ASSUME DirConstants, NEW e \in Rec
  PROVE  MinOld(e) \in Int
<1>1. (IF Live(e) THEN NameLen[e.name] ELSE 0) \in Nat
  BY Zenon DEF DirConstants, Rec
<1> QED BY Zenon, <1>1, EntrySizes DEF MinOld

\* Removing an entry (its space goes to the one before) names no new inode.
LEMMA RemovedShrinks ==
  ASSUME NEW blk \in Seq(Rec), NEW n
  PROVE  Removed(blk, n) \in Seq(Rec) /\ Shrunk(blk, Removed(blk, n))
<1> DEFINE hits == {k \in DOMAIN blk : Hit(blk[k], n)}
           gone == {k \in hits : k > 1 /\ k - 1 \notin hits \ {1}}
           kept(k) == [blk[k] EXCEPT !.inode = IF k = 1 /\ k \in hits THEN 0 ELSE @,
                                     !.size = IF k + 1 \in gone THEN @ + blk[k + 1].size ELSE @]
           S == DOMAIN blk \ gone
           left == InOrder(S, Len(blk))
           new == [i \in DOMAIN left |-> kept(left[i])]
<1>1. DOMAIN blk = 1 .. Len(blk) /\ Len(blk) \in Nat /\ \A k \in 1 .. Len(blk) : blk[k] \in Rec
  OBVIOUS
<1>2. S \in SUBSET (1 .. Len(blk))
  BY Zenon, <1>1
<1>3. \A k \in S : kept(k) \in Rec /\ kept(k).inode \in {0, blk[k].inode}
  <2> SUFFICES ASSUME NEW k \in S PROVE kept(k) \in Rec /\ kept(k).inode \in {0, blk[k].inode}
    BY Zenon
  <2>1. blk[k] \in Rec
    BY Zenon, <1>1
  <2>2. k + 1 \in gone => blk[k + 1] \in Rec
    BY Zenon, <1>1
  <2> HIDE DEF hits, gone
  <2> DEFINE x == IF k = 1 /\ k \in hits THEN 0 ELSE blk[k].inode
             z == IF k + 1 \in gone THEN blk[k].size + blk[k + 1].size ELSE blk[k].size
  <2>3. x \in Int /\ x \in {0, blk[k].inode} /\ z \in Int
    BY SMTT(40), <2>1, <2>2 DEF Rec
  <2>4. kept(k) = [blk[k] EXCEPT !.inode = x, !.size = z]
    BY Zenon
  <2> HIDE DEF x, z, kept
  <2> QED BY Zenon, <2>1, <2>3, <2>4 DEF Rec
<1> HIDE DEF hits, gone, kept, S
<1>4. Enumerates(left, S, Len(blk))
  BY Zenon, <1>1, <1>2, InOrderLists
<1> HIDE DEF left
<1>5. PICK m \in 0 .. Len(blk) : left \in [1 .. m -> S]
  BY Zenon, <1>4 DEF Enumerates
<1>6. DOMAIN left = 1 .. m /\ m \in Nat /\ \A i \in 1 .. m : left[i] \in S
  BY <1>1, <1>5
<1>7. new \in Seq(Rec) /\ DOMAIN new = 1 .. m
  <2>1. new = [i \in 1 .. m |-> kept(left[i])]
    BY Zenon, <1>6
  <2>2. new \in [1 .. m -> Rec]
    BY Zenon, <1>3, <1>6, <2>1
  <2> QED BY <1>6, <2>2
<1>8. \A i \in 1 .. m : new[i].inode \in {0, blk[left[i]].inode}
  BY Zenon, <1>3, <1>6
<1>9. \A i, j \in 1 .. m : left[i] = left[j] => i = j
  <2> SUFFICES ASSUME NEW i \in 1 .. m, NEW j \in 1 .. m, left[i] = left[j] PROVE i = j
    BY Zenon
  <2>1. left[i] \in Int /\ left[j] \in Int
    <3>1. left[i] \in S /\ left[j] \in S
      BY Zenon, <1>6
    <3>2. S \subseteq Int
      BY <1>1, <1>2
    <3> QED BY <3>1, <3>2, Zenon
  <2>2. (i < j => left[i] < left[j]) /\ (j < i => left[j] < left[i])
    BY Zenon, <1>4, <1>6 DEF Enumerates
  <2> QED BY <2>1, <2>2
<1>10. left \in [DOMAIN new -> DOMAIN blk]
  BY Zenon, <1>1, <1>2, <1>5, <1>7
<1>11. Shrunk(blk, new)
  <2> HIDE DEF new
  <2> QED BY Zenon, <1>7, <1>8, <1>9, <1>10 DEF Shrunk
<1>12. Removed(blk, n) = new
  BY Zenon DEF Removed, new, left, S, kept, gone, hits
<1> HIDE DEF new
<1> QED BY Zenon, <1>7, <1>11, <1>12

\* Nor does leaving a block as it is.
LEMMA SameShrinks ==
  ASSUME NEW blk
  PROVE  Shrunk(blk, blk)
<1> DEFINE f == [i \in DOMAIN blk |-> i]
<1>1. f \in [DOMAIN blk -> DOMAIN blk] /\ \A i \in DOMAIN blk : f[i] = i
  BY Zenon
<1> HIDE DEF f
<1> QED BY Zenon, <1>1 DEF Shrunk

\* A block with the entry x put behind entry k: the others keep their inodes.
Grown(old, new, k, x) ==
  /\ Len(new) = Len(old) + 1
  /\ \A j \in 1 .. Len(new) :
       new[j].inode = IF j <= k THEN old[j].inode ELSE IF j = k + 1 THEN x ELSE old[j - 1].inode

\* Splitting an entry to make room adds one entry, the new name's.
LEMMA SplitGrows ==
  ASSUME DirConstants, NEW blk \in Seq(Rec), NEW k \in DOMAIN blk, NEW n \in AllNames, NEW x \in Int
  PROVE  Split(blk, k, n, x) \in Seq(Rec) /\ Grown(blk, Split(blk, k, n, x), k, x)
<1> DEFINE a == [blk[k] EXCEPT !.size = MinOld(blk[k])]
           b == Entry(n, x, Rest(blk[k], MinOld(blk[k])))
           s == SubSeq(blk, 1, k - 1)
           t == SubSeq(blk, k + 1, Len(blk))
<1>1. blk[k] \in Rec /\ k \in 1 .. Len(blk) /\ Len(blk) \in Nat
  OBVIOUS
<1>2. MinOld(blk[k]) \in Int
  BY Zenon, <1>1, MinOldInt
<1>3. a \in Rec /\ a.inode = blk[k].inode
  BY Zenon, <1>1, <1>2 DEF Rec
<1>4. b \in Rec /\ b.inode = x
  BY <1>1, <1>2 DEF Rec, Entry, Rest
<1>5. Split(blk, k, n, x) = s \o <<a, b>> \o t
  BY Zenon DEF Split
<1>6. s \in Seq(Rec) /\ Len(s) = k - 1 /\ \A j \in 1 .. (k - 1) : s[j] = blk[j]
  BY <1>1
<1>7. t \in Seq(Rec) /\ Len(t) = Len(blk) - k /\ \A j \in 1 .. (Len(blk) - k) : t[j] = blk[k + j]
  BY <1>1
<1> HIDE DEF a, b, s, t
<1> DEFINE u == s \o <<a, b>>
<1>8. u \in Seq(Rec) /\ Len(u) = k + 1 /\ \A j \in 1 .. (k + 1) : u[j] = IF j < k THEN s[j] ELSE IF j = k THEN a ELSE b
  <2>1. <<a, b>> \in Seq(Rec) /\ Len(<<a, b>>) = 2 /\ <<a, b>>[1] = a /\ <<a, b>>[2] = b
    BY <1>3, <1>4
  <2> DEFINE ab == <<a, b>>
  <2> HIDE DEF ab
  <2>2. u = s \o ab /\ ab \in Seq(Rec) /\ Len(ab) = 2 /\ ab[1] = a /\ ab[2] = b
    BY Zenon, <2>1 DEF ab
  <2> HIDE DEF u
  <2>3. /\ u \in Seq(Rec) /\ Len(u) = k + 1
        /\ \A j \in 1 .. (k + 1) : u[j] = IF j <= k - 1 THEN s[j] ELSE ab[j - (k - 1)]
    <3>1. /\ s \o ab \in Seq(Rec) /\ Len(s \o ab) = Len(s) + Len(ab)
          /\ \A j \in 1 .. (Len(s) + Len(ab)) : (s \o ab)[j] = IF j <= Len(s) THEN s[j] ELSE ab[j - Len(s)]
      BY <1>6, <2>2, Joined, Zenon
    <3>2. Len(s) = k - 1 /\ Len(s) + Len(ab) = k + 1
      BY <1>1, <1>6, <2>2
    <3> QED BY <2>2, <3>1, <3>2, Zenon
  <2>4. \A j \in 1 .. (k + 1) : /\ j <= k - 1 <=> j < k
                                /\ j = k => j - (k - 1) = 1
                                /\ j >= k => j = k \/ j = k + 1
                                /\ j = k + 1 => j - (k - 1) = 2
    BY <1>1
  <2>5. ASSUME NEW j \in 1 .. (k + 1) PROVE u[j] = IF j < k THEN s[j] ELSE IF j = k THEN a ELSE b
    <3>1. CASE j < k
      BY Zenon, <2>3, <2>4, <3>1
    <3>2. CASE j = k
      <4>1. ~(j <= k - 1) /\ ~(j < k) /\ j - (k - 1) = 1
        BY <1>1, <3>2
      <4> QED BY Zenon, <2>2, <2>3, <3>2, <4>1
    <3>3. CASE j = k + 1
      <4>1. ~(j <= k - 1) /\ ~(j < k) /\ j # k /\ j - (k - 1) = 2
        BY <1>1, <3>3
      <4> QED BY Zenon, <2>2, <2>3, <3>3, <4>1
    <3> QED BY <1>1, <3>1, <3>2, <3>3
  <2> QED BY Zenon, <2>3, <2>5
<1> HIDE DEF u
<1> DEFINE w == u \o t
<1>9. w \in Seq(Rec) /\ Len(w) = Len(blk) + 1
      /\ \A j \in 1 .. (Len(blk) + 1) : w[j] = IF j <= k + 1 THEN u[j] ELSE t[j - (k + 1)]
  <2>1. Len(u) + Len(t) = Len(blk) + 1
    BY <1>1, <1>7, <1>8
  <2>2. /\ u \o t \in Seq(Rec) /\ Len(u \o t) = Len(u) + Len(t)
        /\ \A j \in 1 .. (Len(u) + Len(t)) : (u \o t)[j] = IF j <= Len(u) THEN u[j] ELSE t[j - Len(u)]
    BY <1>7, <1>8, Joined, Zenon
  <2> QED BY <1>8, <2>1, <2>2, Zenon
<1> HIDE DEF w
<1>10. \A j \in 1 .. (Len(blk) + 1) :
         w[j].inode = IF j <= k THEN blk[j].inode ELSE IF j = k + 1 THEN x ELSE blk[j - 1].inode
  <2> SUFFICES ASSUME NEW j \in 1 .. (Len(blk) + 1)
               PROVE  w[j].inode = IF j <= k THEN blk[j].inode ELSE IF j = k + 1 THEN x ELSE blk[j - 1].inode
    BY Zenon
  <2>1. CASE j < k
    <3>1. w[j] = s[j] /\ s[j] = blk[j]
      BY <1>1, <1>6, <1>8, <1>9, <2>1
    <3> QED BY <1>1, <2>1, <3>1
  <2>2. CASE j = k
    BY <1>1, <1>3, <1>8, <1>9, <2>2
  <2>3. CASE j = k + 1
    BY <1>1, <1>4, <1>8, <1>9, <2>3
  <2>4. CASE j > k + 1
    <3>1. j - (k + 1) \in 1 .. (Len(blk) - k) /\ k + (j - (k + 1)) = j - 1
      BY <1>1, <2>4
    <3>2. w[j] = t[j - (k + 1)] /\ t[j - (k + 1)] = blk[j - 1]
      BY SMTT(40), <1>1, <1>7, <1>9, <2>4, <3>1
    <3> QED BY <1>1, <2>4, <3>2
  <2> QED BY <1>1, <2>1, <2>2, <2>3, <2>4
<1>11. Split(blk, k, n, x) = w
  BY Zenon, <1>5 DEF w, u
<1> QED BY Zenon, <1>9, <1>10, <1>11 DEF Grown

-----------------------------------------------------------------------------
(* The inductive invariant.                                                  *)

Kinds == {"blank", "file", "bare", "dir"}
Places == {"idle", "lookup", "inode", "write", "dots", "link", "assign", "resize", "bump", "unlink"}
Holding == {"write", "dots", "link"}

Complete(i, x) == x \in DOMAIN i /\ i[x] \in {"file", "dir"}

\* The blocks on disk: entries name written inodes, each inode once.
DiskInv(d, i) ==
  /\ d \in Disk /\ i \in Seq(Kinds)
  /\ Once(d)
  /\ \A b \in DOMAIN d : \A k \in DOMAIN d[b] : d[b][k].inode > 0 => Complete(i, d[b][k].inode)

\* An inode a creation has taken and not yet linked: nothing names it and no other
\* creation has it; it is written when the link is next.
HeldInv(d, i, s, c) ==
  /\ \A p \in Callers : s[p] \in Holding =>
       /\ c[p].inode \in DOMAIN i /\ ~Named(d, c[p].inode)
       /\ s[p] = "link" => Complete(i, c[p].inode)
  /\ \A p, q \in Callers : s[p] \in Holding /\ s[q] \in Holding /\ c[p].inode = c[q].inode => p = q

IsIno(i) == i = [blocks |-> i.blocks, size |-> i.size] /\ i.size \in Int /\ \E X : i.blocks \in Seq(X)
IsCall(c) ==
  /\ c = [op |-> c.op, name |-> c.name, ino |-> c.ino, inode |-> c.inode]
  /\ c.name \in AllNames /\ IsIno(c.ino) /\ c.inode \in Nat
CallsInv(s, c) ==
  /\ s \in [Callers -> Places]
  /\ c = [p \in Callers |-> c[p]] /\ \A p \in Callers : IsCall(c[p])

DirInv == DiskInv(data, inodes) /\ HeldInv(data, inodes, dpc, dcall) /\ CallsInv(dpc, dcall) /\ IsIno(dino)

\* Blocks that name no new inode keep the disk sound.
LEMMA ShrinkKeeps ==
  ASSUME NEW d, NEW i, DiskInv(d, i), NEW e \in Disk, DOMAIN e = DOMAIN d,
         \A b \in DOMAIN d : Shrunk(d[b], e[b])
  PROVE  DiskInv(e, i) /\ \A x \in Nat \ {0} : ~Named(d, x) => ~Named(e, x)
<1>1. d \in Disk
  BY Zenon DEF DiskInv
<1>2. \A b \in DOMAIN d : d[b] \in Seq(Rec) /\ e[b] \in Seq(Rec)
  BY <1>1 DEF Disk
<1>3. \A b \in DOMAIN d : (\A k \in DOMAIN d[b] : d[b][k].inode \in Int) /\ (\A k \in DOMAIN e[b] : e[b][k].inode \in Int)
  <2>1. \A s \in Seq(Rec) : \A k \in DOMAIN s : s[k] \in Rec
    OBVIOUS
  <2>2. \A r \in Rec : r.inode \in Int
    BY Zenon DEF Rec
  <2> QED BY Zenon, <1>2, <2>1, <2>2
<1>4. \A b \in DOMAIN d : \E f \in [DOMAIN e[b] -> DOMAIN d[b]] :
        /\ \A k, l \in DOMAIN e[b] : f[k] = f[l] => k = l
        /\ \A k \in DOMAIN e[b] : e[b][k].inode > 0 => e[b][k].inode = d[b][f[k]].inode
  BY <1>3 DEF Shrunk
<1>5. Once(e)
  <2> SUFFICES ASSUME NEW b \in DOMAIN e, NEW c \in DOMAIN e, NEW k \in DOMAIN e[b], NEW l \in DOMAIN e[c],
                      e[b][k].inode > 0, e[b][k].inode = e[c][l].inode
               PROVE  b = c /\ k = l
    BY Zenon DEF Once
  <2>1. PICK f \in [DOMAIN e[b] -> DOMAIN d[b]] :
          /\ \A kk, ll \in DOMAIN e[b] : f[kk] = f[ll] => kk = ll
          /\ \A kk \in DOMAIN e[b] : e[b][kk].inode > 0 => e[b][kk].inode = d[b][f[kk]].inode
    BY Zenon, <1>4
  <2>2. PICK g \in [DOMAIN e[c] -> DOMAIN d[c]] :
          \A kk \in DOMAIN e[c] : e[c][kk].inode > 0 => e[c][kk].inode = d[c][g[kk]].inode
    BY Zenon, <1>4
  <2>3. d[b][f[k]].inode > 0 /\ d[b][f[k]].inode = d[c][g[l]].inode /\ f[k] \in DOMAIN d[b] /\ g[l] \in DOMAIN d[c]
    BY Zenon, <2>1, <2>2
  <2>4. b = c /\ f[k] = g[l]
    BY <2>3 DEF DiskInv, Once
  <2>5. e[b][l].inode = d[b][f[l]].inode /\ d[b][f[l]].inode > 0 /\ f[l] \in DOMAIN d[b] /\ l \in DOMAIN e[b]
    BY Zenon, <2>1, <2>4
  <2>6. f[k] = f[l]
    BY <2>1, <2>3, <2>4, <2>5 DEF DiskInv, Once
  <2> QED BY Zenon, <2>1, <2>4, <2>5, <2>6
<1>6. \A b \in DOMAIN e : \A k \in DOMAIN e[b] : e[b][k].inode > 0 => Complete(i, e[b][k].inode)
  BY <1>4 DEF DiskInv
<1>7. ASSUME NEW x \in Nat \ {0}, Named(e, x) PROVE Named(d, x)
  BY <1>4, <1>7 DEF Named
<1> QED BY Zenon, <1>5, <1>6, <1>7 DEF DiskInv

\* The entries of a block and their inodes.
LEMMA RecInodes ==
  ASSUME NEW d \in Disk, NEW b \in DOMAIN d
  PROVE  /\ d[b] \in Seq(Rec) /\ Len(d[b]) \in Nat /\ DOMAIN d[b] = 1 .. Len(d[b])
         /\ \A k \in DOMAIN d[b] : d[b][k].inode \in Int
<1>1. d[b] \in Seq(Rec)
  BY DEF Disk
<1>2. \A k \in DOMAIN d[b] : d[b][k] \in Rec
  BY <1>1
<1>3. \A k \in DOMAIN d[b] : d[b][k].inode \in Int
  BY Zenon, <1>2 DEF Rec
<1> QED BY <1>1, <1>3

\* A new entry for a written inode nothing names yet keeps the disk sound,
LEMMA GrowKeeps ==
  ASSUME NEW d, NEW i, DiskInv(d, i), NEW b \in DOMAIN d, NEW new \in Seq(Rec), NEW k \in DOMAIN d[b],
         NEW x \in Nat \ {0}, Grown(d[b], new, k, x), Complete(i, x), ~Named(d, x)
  PROVE  /\ DiskInv([d EXCEPT ![b] = new], i)
         /\ \A y : y # x /\ ~Named(d, y) => ~Named([d EXCEPT ![b] = new], y)
<1> DEFINE e == [d EXCEPT ![b] = new]
           old(j) == IF j <= k THEN j ELSE j - 1
<1>1. d \in Disk
  BY Zenon DEF DiskInv
<1>2. e \in Disk /\ DOMAIN e = DOMAIN d /\ e[b] = new /\ \A c \in DOMAIN d : c # b => e[c] = d[c]
  BY <1>1 DEF Disk
<1> HIDE DEF e
<1>3. d[b] \in Seq(Rec) /\ DOMAIN d[b] = 1 .. Len(d[b]) /\ Len(d[b]) \in Nat /\ k \in 1 .. Len(d[b])
  BY Zenon, <1>1, RecInodes
<1>4. DOMAIN new = 1 .. (Len(d[b]) + 1)
  BY <1>3 DEF Grown
<1>5. \A j \in DOMAIN new : j # k + 1 => old(j) \in DOMAIN d[b] /\ new[j].inode = d[b][old(j)].inode
  BY <1>3, <1>4 DEF Grown
<1>6. \A j, l \in DOMAIN new : j # k + 1 /\ l # k + 1 /\ old(j) = old(l) => j = l
  BY SMTT(40), <1>3, <1>4
<1>7. k + 1 \in DOMAIN new /\ new[k + 1].inode = x
  BY <1>3, <1>4 DEF Grown
<1> DEFINE pos(c, j) == IF c = b THEN old(j) ELSE j
           Added(c, j) == c = b /\ j = k + 1
<1>8. \A c \in DOMAIN e : \A j \in DOMAIN e[c] :
        IF Added(c, j) THEN e[c][j].inode = x
        ELSE pos(c, j) \in DOMAIN d[c] /\ e[c][j].inode = d[c][pos(c, j)].inode
  BY Zenon, <1>2, <1>5, <1>7
<1>9. \A c \in DOMAIN e : \A j, l \in DOMAIN e[c] : ~Added(c, j) /\ ~Added(c, l) /\ pos(c, j) = pos(c, l) => j = l
  BY Zenon, <1>2, <1>6
<1> HIDE DEF pos, old
<1>10. Once(e)
  <2> SUFFICES ASSUME NEW a \in DOMAIN e, NEW c \in DOMAIN e, NEW j \in DOMAIN e[a], NEW l \in DOMAIN e[c],
                      e[a][j].inode > 0, e[a][j].inode = e[c][l].inode
               PROVE  a = c /\ j = l
    BY Zenon DEF Once
  <2>1. CASE Added(a, j) /\ Added(c, l)
    BY Zenon, <2>1
  <2>2. CASE Added(a, j) /\ ~Added(c, l)
    BY <1>2, <1>8, <2>2 DEF Named
  <2>3. CASE ~Added(a, j) /\ Added(c, l)
    BY <1>2, <1>8, <2>3 DEF Named
  <2>4. CASE ~Added(a, j) /\ ~Added(c, l)
    <3> HIDE DEF Added
    <3>1. a = c /\ pos(a, j) = pos(c, l)
      BY <1>2, <1>8, <2>4 DEF DiskInv, Once
    <3> QED BY Zenon, <1>9, <2>4, <3>1
  <2> QED BY Zenon, <2>1, <2>2, <2>3, <2>4
<1>11. \A c \in DOMAIN e : \A j \in DOMAIN e[c] : e[c][j].inode > 0 => Complete(i, e[c][j].inode)
  BY <1>2, <1>8 DEF DiskInv
<1>12. ASSUME NEW y, y # x, Named(e, y) PROVE Named(d, y)
  BY <1>2, <1>8, <1>12 DEF Named
<1>13. DiskInv(e, i)
  BY Zenon, <1>2, <1>10, <1>11 DEF DiskInv
<1> QED BY Zenon, <1>12, <1>13 DEF e

\* and so does a new block that holds only that entry.
LEMMA AppendKeeps ==
  ASSUME NEW d, NEW i, DiskInv(d, i), NEW r \in Rec,
         NEW x \in Nat \ {0}, r.inode = x, Complete(i, x), ~Named(d, x)
  PROVE  /\ DiskInv(Append(d, <<r>>), i)
         /\ \A y : y # x /\ ~Named(d, y) => ~Named(Append(d, <<r>>), y)
<1> DEFINE e == Append(d, <<r>>)
<1>1. d \in Disk /\ <<r>> \in Seq(Rec)
  BY DEF DiskInv
<1>2. /\ e \in Disk /\ DOMAIN e = DOMAIN d \cup {Len(d) + 1} /\ Len(d) + 1 \notin DOMAIN d
      /\ e[Len(d) + 1] = <<r>> /\ \A c \in DOMAIN d : e[c] = d[c]
  BY <1>1 DEF Disk
<1>3. DOMAIN <<r>> = {1} /\ <<r>>[1] = r
  OBVIOUS
<1> HIDE DEF e
<1>4. \A c \in DOMAIN e : \A j \in DOMAIN e[c] :
        IF c \in DOMAIN d THEN j \in DOMAIN d[c] /\ e[c][j].inode = d[c][j].inode
        ELSE c = Len(d) + 1 /\ j = 1 /\ e[c][j].inode = x
  BY Zenon, <1>2, <1>3
<1>5. Once(e)
  <2> SUFFICES ASSUME NEW a \in DOMAIN e, NEW c \in DOMAIN e, NEW j \in DOMAIN e[a], NEW l \in DOMAIN e[c],
                      e[a][j].inode > 0, e[a][j].inode = e[c][l].inode
               PROVE  a = c /\ j = l
    BY Zenon DEF Once
  <2>1. CASE a \notin DOMAIN d /\ c \notin DOMAIN d
    BY Zenon, <1>4, <2>1
  <2>2. CASE a \in DOMAIN d /\ c \notin DOMAIN d
    BY <1>4, <2>2 DEF Named
  <2>3. CASE a \notin DOMAIN d /\ c \in DOMAIN d
    BY <1>4, <2>3 DEF Named
  <2>4. CASE a \in DOMAIN d /\ c \in DOMAIN d
    BY <1>4, <2>4 DEF DiskInv, Once
  <2> QED BY Zenon, <2>1, <2>2, <2>3, <2>4
<1>6. \A c \in DOMAIN e : \A j \in DOMAIN e[c] : e[c][j].inode > 0 => Complete(i, e[c][j].inode)
  BY Zenon, <1>4 DEF DiskInv
<1>7. ASSUME NEW y, y # x, Named(e, y) PROVE Named(d, y)
  BY <1>4, <1>7 DEF Named
<1>8. DiskInv(e, i)
  BY Zenon, <1>2, <1>5, <1>6 DEF DiskInv
<1> QED BY Zenon, <1>7, <1>8 DEF e

\* The inode tables change where no entry looks.
LEMMA TableKeeps ==
  ASSUME NEW d, NEW i, NEW j \in Seq(Kinds), NEW x, DiskInv(d, i), ~Named(d, x),
         \A y \in DOMAIN i : y # x => y \in DOMAIN j /\ j[y] = i[y]
  PROVE  DiskInv(d, j)
BY Zenon DEF DiskInv, Complete, Named

-----------------------------------------------------------------------------
(* Where the scan of a directory stops.                                      *)

\* The blocks an inode lists are numbered.
LEMMA BlocksNumbered ==
  ASSUME DirConstants, NEW ino, IsIno(ino)
  PROVE  DOMAIN Blocks(ino) \subseteq Nat
<1> DEFINE n == (ino.size + BlockSize - 1) \div BlockSize
           l == Len(ino.blocks)
<1>1. PICK X : ino.blocks \in Seq(X)
  BY Zenon DEF IsIno
<1>2. n \in Int
  BY DEF IsIno, DirConstants
<1>3. l \in Nat
  BY <1>1
<1>4. Blocks(ino) = SubSeq(ino.blocks, 1, Min({n, l}))
  BY Zenon DEF Blocks
<1> HIDE DEF n, l
<1>5. Min({n, l}) \in {n, l}
  <2>1. \E x \in {n, l} : \A y \in {n, l} : x <= y
    BY <1>2, <1>3
  <2> QED BY <2>1, Zenon DEF Min
<1> DEFINE m == Min({n, l})
<1>6. m \in Int
  BY <1>2, <1>3, <1>5
<1> HIDE DEF m
<1>7. DOMAIN SubSeq(ino.blocks, 1, m) \subseteq Nat
  BY <1>1, <1>6
<1> QED BY Zenon, <1>4, <1>7 DEF m

\* A set of places in a directory that is not empty has a first one.
LEMMA FirstStop ==
  ASSUME NEW D \in SUBSET Nat, NEW n \in Nat, NEW S \in SUBSET (D \X (1 .. n)), S # {}
  PROVE  (CHOOSE x \in S : \A y \in S : Before(x, y)) \in S
<1> DEFINE A == {x[1] : x \in S}
<1>1. \A x \in S : x[1] \in Nat /\ x[2] \in Nat
  <2> SUFFICES ASSUME NEW x \in S PROVE x[1] \in Nat /\ x[2] \in Nat
    BY Zenon
  <2>1. x \in D \X (1 .. n)
    BY Zenon
  <2>2. x[1] \in D /\ x[2] \in 1 .. n
    BY Zenon, <2>1
  <2>3. x[1] \in Nat
    BY <2>2, Zenon
  <2>4. x[2] \in Nat
    BY <2>2
  <2> QED BY Zenon, <2>3, <2>4
<1>2. PICK a \in A : \A b \in A : a <= b
  <2>1. A \in SUBSET Nat /\ A # {}
    BY Zenon, <1>1
  <2> QED BY Zenon, <2>1, LeastNumber
<1> DEFINE B == {x[2] : x \in {y \in S : y[1] = a}}
<1>3. PICK b \in B : \A c \in B : b <= c
  <2>1. B \in SUBSET Nat /\ B # {}
    BY Zenon, <1>1, <1>2
  <2> QED BY Zenon, <2>1, LeastNumber
<1>4. PICK x \in S : x[1] = a /\ x[2] = b
  BY Zenon, <1>3
<1>5. \A y \in S : Before(x, y)
  <2> SUFFICES ASSUME NEW y \in S PROVE Before(x, y)
    BY Zenon
  <2>1. a <= y[1] /\ a \in Nat /\ y[1] \in Nat
    BY Zenon, <1>1, <1>2
  <2>2. y[1] = a => b <= y[2]
    BY Zenon, <1>3
  <2> QED BY <1>4, <2>1, <2>2 DEF Before
<1> QED BY <1>5, Zenon

\* So a walk through a directory that has a place to stop at stops at one,
LEMMA StopFound ==
  ASSUME DirConstants, NEW ino, IsIno(ino), NEW n, Stops(ino, n) # {}
  PROVE  (CHOOSE x \in Stops(ino, n) : \A y \in Stops(ino, n) : Before(x, y)) \in Stops(ino, n)
<1>1. Stops(ino, n) \in SUBSET ((DOMAIN Blocks(ino)) \X (1 .. BlockSize))
  BY Zenon DEF Stops
<1>2. DOMAIN Blocks(ino) \in SUBSET Nat /\ BlockSize \in Nat
  BY Zenon, BlocksNumbered DEF DirConstants
<1> QED BY Zenon, <1>1, <1>2, FirstStop

\* and that is an entry of the block it is in.
LEMMA StopInBlock ==
  ASSUME NEW ino, NEW n, NEW s \in Stops(ino, n)
  PROVE  s[2] \in DOMAIN data[ino.blocks[s[1]]]
BY Zenon DEF Stops

-----------------------------------------------------------------------------
(* A process changes its place and its call.                                 *)

\* The process that moves does not hold an inode afterwards, or holds the same.
LEMMA MoveKeeps ==
  ASSUME NEW d, NEW i, NEW s, NEW c, NEW t, NEW u, NEW p \in Callers,
         HeldInv(d, i, s, c),
         \A q \in Callers \ {p} : t[q] = s[q] /\ u[q] = c[q],
         t[p] \notin Holding
  PROVE  HeldInv(d, i, t, u)
BY Zenon DEF HeldInv

\* p goes to a place, with a new call or the one it had.
Moved(s, c, p, place, x, t, u) == t = [s EXCEPT ![p] = place] /\ (u = [c EXCEPT ![p] = x] \/ u = c)

\* Storing one caller's place and call leaves the others' alone.
LEMMA CallStored ==
  ASSUME NEW s, NEW c, CallsInv(s, c), NEW p \in Callers, NEW place \in Places, NEW x, IsCall(x),
         NEW t, NEW u, Moved(s, c, p, place, x, t, u)
  PROVE  /\ CallsInv(t, u) /\ t[p] = place
         /\ \A q \in Callers \ {p} : t[q] = s[q] /\ u[q] = c[q]
<1>1. t \in [Callers -> Places] /\ t[p] = place /\ \A q \in Callers \ {p} : t[q] = s[q]
  BY Zenon DEF CallsInv, Moved
<1>2. u = [q \in Callers |-> u[q]] /\ u[p] \in {x, c[p]} /\ \A q \in Callers \ {p} : u[q] = c[q]
  BY Zenon DEF CallsInv, Moved
<1>3. \A q \in Callers : IsCall(u[q])
  BY Zenon, <1>2 DEF CallsInv
<1> QED BY Zenon, <1>1, <1>2, <1>3 DEF CallsInv

\* The empty call is a call.
LEMMA NoCallTyped == IsCall(NoDirCall) /\ IsIno(NoDirCall.ino)
<1> DEFINE i == [blocks |-> <<>>, size |-> 0]
<1>1. i.blocks \in Seq({}) /\ i.size = 0
  OBVIOUS
<1>2. IsIno(i)
  BY <1>1 DEF IsIno
<1> HIDE DEF i
<1>3. NoDirCall = [op |-> "touch", name |-> Dot, ino |-> i, inode |-> 0]
  BY Zenon DEF NoDirCall, i
<1> QED BY Zenon, <1>2, <1>3 DEF IsCall, AllNames

\* A call that returns holds no inode.
LEMMA ReturnKeeps ==
  ASSUME NEW p \in Callers, NEW d, NEW i, HeldInv(d, i, dpc, dcall), CallsInv(dpc, dcall), DirReturn(p)
  PROVE  HeldInv(d, i, dpc', dcall') /\ CallsInv(dpc', dcall')
<1>1. Moved(dpc, dcall, p, "idle", NoDirCall, dpc', dcall')
  BY Zenon DEF DirReturn, Moved
<1>2. "idle" \in Places /\ "idle" \notin Holding
  BY Zenon DEF Places, Holding
<1>3. CallsInv(dpc', dcall') /\ dpc'[p] = "idle" /\ \A q \in Callers \ {p} : dpc'[q] = dpc[q] /\ dcall'[q] = dcall[q]
  BY <1>1, <1>2, NoCallTyped, CallStored
<1> QED BY SMTT(40), <1>2, <1>3, MoveKeeps

\* Every other move that keeps the call or replaces it, and holds nothing after.
LEMMA PlaceKeeps ==
  ASSUME NEW p \in Callers, NEW d, NEW i, HeldInv(d, i, dpc, dcall), CallsInv(dpc, dcall),
         NEW place \in Places \ Holding, NEW x, IsCall(x),
         Moved(dpc, dcall, p, place, x, dpc', dcall')
  PROVE  HeldInv(d, i, dpc', dcall') /\ CallsInv(dpc', dcall')
<1>1. CallsInv(dpc', dcall') /\ dpc'[p] = place /\ \A q \in Callers \ {p} : dpc'[q] = dpc[q] /\ dcall'[q] = dcall[q]
  BY CallStored
<1>2. dpc'[p] \notin Holding
  BY Zenon, <1>1
<1> QED BY Zenon, <1>1, <1>2, MoveKeeps

\* The process that moves gives up the inode it held, which may be named now.
LEMMA LinkKeeps ==
  ASSUME NEW d, NEW e, NEW i, NEW s, NEW c, NEW t, NEW u, NEW p \in Callers,
         HeldInv(d, i, s, c), s[p] \in Holding,
         \A y : y # c[p].inode /\ ~Named(d, y) => ~Named(e, y),
         \A q \in Callers \ {p} : t[q] = s[q] /\ u[q] = c[q],
         t[p] \notin Holding
  PROVE  HeldInv(e, i, t, u)
BY DEF HeldInv

-----------------------------------------------------------------------------
(* The steps.                                                                *)

\* Beginning a creation changes nothing on disk.
LEMMA DirCreates ==
  ASSUME DirInv, NEW p \in Callers, NEW op, NEW n \in Names, Create(p, op, n)
  PROVE  DirInv'
<1> DEFINE x == [op |-> op, name |-> n, ino |-> dino, inode |-> 0]
<1>1. IsCall(x)
  BY Zenon DEF IsCall, DirInv, AllNames
<1> HIDE DEF x
<1>2. Moved(dpc, dcall, p, "lookup", x, dpc', dcall')
  BY Zenon DEF Create, Moved, x
<1>3. "lookup" \in Places \ Holding
  BY Zenon DEF Places, Holding
<1>4. HeldInv(data, inodes, dpc', dcall') /\ CallsInv(dpc', dcall')
  BY Zenon, <1>1, <1>2, <1>3, PlaceKeeps DEF DirInv
<1> QED BY Zenon, <1>4 DEF DirInv, Create

\* Nor does looking for the name.
LEMMA DirLooksUp ==
  ASSUME DirInv, NEW p \in Callers, Lookup(p)
  PROVE  DirInv'
<1>1. CASE DirReturn(p)
  BY Zenon, <1>1, ReturnKeeps DEF DirInv, Lookup
<1>2. CASE dpc' = [dpc EXCEPT ![p] = "inode"] /\ UNCHANGED dcall
  <2>1. Moved(dpc, dcall, p, "inode", NoDirCall, dpc', dcall')
    BY Zenon, <1>2 DEF Moved
  <2>2. "inode" \in Places \ Holding
    BY Zenon DEF Places, Holding
  <2>3. HeldInv(data, inodes, dpc', dcall') /\ CallsInv(dpc', dcall')
    BY Zenon, <2>1, <2>2, NoCallTyped, PlaceKeeps DEF DirInv
  <2> QED BY Zenon, <2>3 DEF DirInv, Lookup
<1> QED BY Zenon, <1>1, <1>2 DEF Lookup

\* A creation takes an inode nobody has and nothing names.
LEMMA DirTakesInode ==
  ASSUME DirInv, NEW p \in Callers, TakeInode(p)
  PROVE  DirInv'
<1> DEFINE z == Len(inodes) + 1
           x == [dcall[p] EXCEPT !.inode = z]
<1>1. inodes \in Seq(Kinds)
  BY Zenon DEF DirInv, DiskInv
<1>2. /\ inodes' \in Seq(Kinds) /\ DOMAIN inodes' = DOMAIN inodes \cup {z} /\ z \notin DOMAIN inodes
      /\ z \in Nat \ {0} /\ \A y \in DOMAIN inodes : inodes'[y] = inodes[y]
  <2>1. "blank" \in Kinds
    BY SMTT(40) DEF Kinds
  <2> QED BY <1>1, <2>1 DEF TakeInode
<1>3. ~Named(data, z)
  BY <1>2 DEF DirInv, DiskInv, Named, Complete
<1>4. IsCall(dcall[p])
  BY Zenon DEF DirInv, CallsInv
<1>5. IsCall(x) /\ x.inode = z
  BY <1>2, <1>4 DEF IsCall
<1>6. dcall' = [dcall EXCEPT ![p] = x] /\ dpc' = [dpc EXCEPT ![p] = "write"]
  BY Zenon DEF TakeInode, AfterInode
<1>7. dcall'[p] = x
  BY Zenon, <1>6 DEF DirInv, CallsInv
<1> HIDE DEF z, x
<1>8. DiskInv(data, inodes')
  BY Zenon, <1>2, <1>3, TableKeeps DEF DirInv
<1>9. CallsInv(dpc', dcall') /\ dpc'[p] = "write" /\ \A q \in Callers \ {p} : dpc'[q] = dpc[q] /\ dcall'[q] = dcall[q]
  <2>1. Moved(dpc, dcall, p, "write", x, dpc', dcall') /\ "write" \in Places
    BY Zenon, <1>6 DEF Moved, Places
  <2> QED BY <1>5, <2>1, CallStored DEF DirInv
<1>10. HeldInv(data, inodes', dpc', dcall')
  <2>1. \A q \in Callers \ {p} : dpc'[q] \in Holding =>
          /\ dcall'[q].inode \in DOMAIN inodes /\ ~Named(data, dcall'[q].inode)
          /\ dpc'[q] = "link" => Complete(inodes, dcall'[q].inode)
    BY Zenon, <1>9 DEF DirInv, HeldInv
  <2>2. dcall'[p].inode = z /\ "write" # "link"
    BY SMTT(40), <1>5, <1>7
  <2>3. \A q, r \in Callers \ {p} : dpc'[q] \in Holding /\ dpc'[r] \in Holding /\ dcall'[q].inode = dcall'[r].inode => q = r
    BY Zenon, <1>9 DEF DirInv, HeldInv
  <2> QED BY SMTT(40), <1>2, <1>3, <1>9, <2>1, <2>2, <2>3 DEF HeldInv, Complete
<1> QED BY Zenon, <1>8, <1>9, <1>10 DEF DirInv, TakeInode

\* The inode's record is written by the creation that took it.
LEMMA Staged ==
  ASSUME DirInv, NEW p \in Callers, dpc[p] \in Holding, NEW kind \in Kinds, NEW place \in {"dots", "link"},
         place = "link" => kind \in {"file", "dir"},
         inodes' = [inodes EXCEPT ![dcall[p].inode] = kind],
         dpc' = [dpc EXCEPT ![p] = place], UNCHANGED <<data, dcall, dino>>
  PROVE  DirInv'
<1> DEFINE z == dcall[p].inode
<1>1. inodes \in Seq(Kinds) /\ z \in DOMAIN inodes /\ ~Named(data, z)
  BY Zenon DEF DirInv, DiskInv, HeldInv
<1>2. inodes' \in Seq(Kinds) /\ DOMAIN inodes' = DOMAIN inodes /\ inodes'[z] = kind
      /\ \A y \in DOMAIN inodes : y # z => inodes'[y] = inodes[y]
  BY <1>1
<1>3. DiskInv(data, inodes')
  BY ZenonT(60), <1>1, <1>2, TableKeeps DEF DirInv
<1>4. CallsInv(dpc', dcall') /\ dpc'[p] = place /\ \A q \in Callers \ {p} : dpc'[q] = dpc[q]
  <2>1. dpc \in [Callers -> Places] /\ place \in Places /\ CallsInv(dpc, dcall)
    BY Zenon DEF DirInv, CallsInv, Places
  <2>2. dpc' \in [Callers -> Places]
    BY Zenon, <2>1
  <2> QED BY Zenon, <2>1, <2>2 DEF CallsInv
<1>5. HeldInv(data, inodes', dpc', dcall)
  <2>1. \A q \in Callers : dpc'[q] \in Holding => dpc[q] \in Holding
    BY Zenon, <1>4
  <2>2. \A q \in Callers \ {p} : dpc[q] \in Holding => dcall[q].inode # z
    BY Zenon DEF DirInv, HeldInv
  <2>3. ASSUME NEW q \in Callers, dpc'[q] \in Holding
        PROVE  /\ dcall[q].inode \in DOMAIN inodes' /\ ~Named(data, dcall[q].inode)
               /\ dpc'[q] = "link" => Complete(inodes', dcall[q].inode)
    <3>1. CASE q = p
      BY Zenon, <1>1, <1>2, <1>4, <3>1 DEF Complete
    <3>2. CASE q # p
      BY Zenon, <1>2, <1>4, <2>1, <2>2, <2>3, <3>2 DEF DirInv, HeldInv, Complete
    <3> QED BY Zenon, <3>1, <3>2
  <2>4. \A q, r \in Callers : dpc[q] \in Holding /\ dpc[r] \in Holding /\ dcall[q].inode = dcall[r].inode => q = r
    BY Zenon DEF DirInv, HeldInv
  <2> QED BY Zenon, <2>1, <2>3, <2>4 DEF HeldInv
<1> QED BY Zenon, <1>3, <1>4, <1>5 DEF DirInv

\* Writing the inode, and a directory's dots, completes it before it is linked.
LEMMA DirWritesInode ==
  ASSUME DirInv, NEW p \in Callers, WriteInode(p) \/ WriteDots(p)
  PROVE  DirInv'
<1>1. CASE WriteInode(p)
  <2> DEFINE kind == IF dcall[p].op = "mkdir" THEN "bare" ELSE "file"
             place == IF dcall[p].op = "mkdir" THEN "dots" ELSE "link"
  <2>1. kind \in Kinds /\ place \in {"dots", "link"} /\ (place = "link" => kind \in {"file", "dir"})
    BY Zenon DEF Kinds
  <2>2. /\ inodes' = [inodes EXCEPT ![dcall[p].inode] = kind] /\ dpc' = [dpc EXCEPT ![p] = place]
        /\ dpc[p] \in Holding /\ UNCHANGED <<data, dcall, dino>>
    BY Zenon, <1>1 DEF WriteInode, Holding
  <2> HIDE DEF kind, place
  <2> QED BY Zenon, <2>1, <2>2, Staged
<1>2. CASE WriteDots(p)
  <2>1. /\ inodes' = [inodes EXCEPT ![dcall[p].inode] = "dir"] /\ dpc' = [dpc EXCEPT ![p] = "link"]
        /\ dpc[p] \in Holding /\ UNCHANGED <<data, dcall, dino>> /\ "dir" \in Kinds
    BY Zenon, <1>2 DEF WriteDots, Holding, Kinds
  <2> QED BY Zenon, <2>1, Staged
<1> QED BY Zenon, <1>1, <1>2

\* After its link a call holds no inode.
LEMMA LinkedMoves ==
  ASSUME NEW p \in Callers, NEW ino, IsIno(ino), CallsInv(dpc, dcall), Linked(p, ino)
  PROVE  /\ CallsInv(dpc', dcall') /\ dpc'[p] \notin Holding
         /\ \A q \in Callers \ {p} : dpc'[q] = dpc[q] /\ dcall'[q] = dcall[q]
<1>1. CASE dpc' = [dpc EXCEPT ![p] = "bump"] /\ dcall' = [dcall EXCEPT ![p].ino = ino]
  <2> DEFINE x == [dcall[p] EXCEPT !.ino = ino]
  <2>1. IsCall(dcall[p])
    BY Zenon DEF CallsInv
  <2>2. IsCall(x)
    BY <2>1 DEF IsCall
  <2>3. Moved(dpc, dcall, p, "bump", x, dpc', dcall')
    BY Zenon, <1>1 DEF Moved
  <2> HIDE DEF x
  <2>4. "bump" \in Places /\ "bump" \notin Holding
    BY Zenon DEF Places, Holding
  <2> QED BY <2>2, <2>3, <2>4, CallStored
<1>2. CASE DirReturn(p)
  <2>1. Moved(dpc, dcall, p, "idle", NoDirCall, dpc', dcall')
    BY Zenon, <1>2 DEF DirReturn, Moved
  <2>2. "idle" \in Places /\ "idle" \notin Holding
    BY SMTT(40) DEF Places, Holding
  <2> QED BY <2>1, <2>2, NoCallTyped, CallStored
<1> QED BY Zenon, <1>1, <1>2 DEF Linked

\* The link, in a free space or a new block, names the call's complete inode once.
LEMMA DirLinks ==
  ASSUME DirConstants, DirInv, NEW p \in Callers, Link(p)
  PROVE  DirInv'
<1> DEFINE c == dcall[p]
           stops == Stops(c.ino, c.name)
           s == CHOOSE x \in stops : \A y \in stops : Before(x, y)
           b == c.ino.blocks[s[1]]
<1>1. dpc[p] = "link" /\ UNCHANGED <<dino, inodes>>
  BY Zenon DEF Link
<1>2. IsCall(c) /\ IsIno(c.ino) /\ CallsInv(dpc, dcall) /\ c.name \in AllNames
  BY SMTT(40) DEF DirInv, CallsInv, IsCall
<1>3. /\ c.inode \in DOMAIN inodes /\ ~Named(data, c.inode) /\ Complete(inodes, c.inode)
      /\ dpc[p] \in Holding /\ HeldInv(data, inodes, dpc, dcall)
  BY SMTT(40), <1>1 DEF DirInv, HeldInv, Holding
<1>4. c.inode \in Nat \ {0} /\ DiskInv(data, inodes)
  BY SMTT(40), <1>3 DEF DirInv, DiskInv
<1>5. CASE stops # {} /\ Linked(p, c.ino) /\ UNCHANGED data
  <2>1. /\ CallsInv(dpc', dcall') /\ dpc'[p] \notin Holding
        /\ \A q \in Callers \ {p} : dpc'[q] = dpc[q] /\ dcall'[q] = dcall[q]
    BY SMTT(40), <1>2, <1>5, LinkedMoves
  <2>2. HeldInv(data, inodes, dpc', dcall')
    BY Zenon, <1>3, <2>1, MoveKeeps
  <2> QED BY SMTT(40), <1>1, <1>5, <2>1, <2>2 DEF DirInv
<1>6. CASE stops # {} /\ Linked(p, c.ino) /\ data' = [data EXCEPT ![b] = Split(@, s[2], c.name, c.inode)]
  <2>1. /\ CallsInv(dpc', dcall') /\ dpc'[p] \notin Holding
        /\ \A q \in Callers \ {p} : dpc'[q] = dpc[q] /\ dcall'[q] = dcall[q]
    BY ZenonT(60), <1>2, <1>6, LinkedMoves
  <2>2. s \in Stops(c.ino, c.name)
    BY ZenonT(60), <1>2, <1>6, StopFound
  <2>3. s[2] \in DOMAIN data[b]
    BY ZenonT(60), <2>2, StopInBlock
  <2> HIDE DEF c, stops, s, b
  <2>4. CASE b \in DOMAIN data
    <3> DEFINE new == Split(data[b], s[2], c.name, c.inode)
    <3>1. data[b] \in Seq(Rec) /\ c.inode \in Int
      BY <1>4, <2>4, RecInodes DEF DiskInv
    <3>2. new \in Seq(Rec) /\ Grown(data[b], new, s[2], c.inode)
      BY SMTT(40), <1>2, <2>3, <3>1, SplitGrows
    <3>3. data' = [data EXCEPT ![b] = new]
      BY Zenon, <1>6
    <3> HIDE DEF new
    <3>4. DiskInv(data', inodes) /\ \A y : y # c.inode /\ ~Named(data, y) => ~Named(data', y)
      BY ZenonT(60), <1>3, <1>4, <2>3, <2>4, <3>2, <3>3, GrowKeeps
    <3>5. HeldInv(data', inodes, dpc', dcall')
      BY Zenon, <1>3, <2>1, <3>4, LinkKeeps DEF c
    <3> QED BY Zenon, <1>1, <2>1, <3>4, <3>5 DEF DirInv
  <2>5. CASE b \notin DOMAIN data
    <3>1. data' = data
      <4>1. data \in Disk
        BY SMTT(40), <1>4 DEF DiskInv
      <4> QED BY <1>6, <2>5, <4>1 DEF Disk
    <3>2. HeldInv(data, inodes, dpc', dcall')
      BY Zenon, <1>3, <2>1, MoveKeeps
    <3> QED BY Zenon, <1>1, <2>1, <3>1, <3>2 DEF DirInv
  <2> QED BY SMTT(40), <2>4, <2>5
<1>7. CASE /\ data' = Append(data, << Entry(c.name, c.inode, BlockSize) >>)
           /\ dpc' = [dpc EXCEPT ![p] = "assign"] /\ UNCHANGED dcall
  <2> DEFINE r == Entry(c.name, c.inode, BlockSize)
  <2>1. Moved(dpc, dcall, p, "assign", NoDirCall, dpc', dcall') /\ "assign" \in Places /\ "assign" \notin Holding
    BY SMTT(40), <1>7 DEF Moved, Places, Holding
  <2>2. /\ CallsInv(dpc', dcall') /\ dpc'[p] \notin Holding
        /\ \A q \in Callers \ {p} : dpc'[q] = dpc[q] /\ dcall'[q] = dcall[q]
    BY SMTT(40), <1>2, <2>1, NoCallTyped, CallStored
  <2>3. r \in Rec /\ r.inode = c.inode
    BY <1>2, <1>4 DEF Entry, Rec, DirConstants
  <2>4. data' = Append(data, <<r>>)
    BY Zenon, <1>7
  <2> HIDE DEF r, c
  <2>5. DiskInv(data', inodes) /\ \A y : y # c.inode /\ ~Named(data, y) => ~Named(data', y)
    BY Zenon, <1>3, <1>4, <2>3, <2>4, AppendKeeps
  <2>6. HeldInv(data', inodes, dpc', dcall')
    BY Zenon, <1>3, <2>2, <2>5, LinkKeeps DEF c
  <2> QED BY Zenon, <1>1, <2>2, <2>5, <2>6 DEF DirInv
<1> QED BY ZenonT(60), <1>5, <1>6, <1>7 DEF Link

\* The directory's inode with another pointer stays an inode.
LEMMA AssignedIno ==
  ASSUME NEW ino, IsIno(ino), NEW k, NEW b
  PROVE  IsIno([ino EXCEPT !.blocks = Assigned(@, k, b)])
<1> DEFINE bs == Assigned(ino.blocks, k, b)
           new == [ino EXCEPT !.blocks = bs]
<1>1. PICK X : ino.blocks \in Seq(X)
  BY Zenon DEF IsIno
<1>2. bs \in Seq(X \cup {b})
  <2>1. ino.blocks \in Seq(X \cup {b})
    BY <1>1
  <2>2. Append(ino.blocks, b) \in Seq(X \cup {b})
    BY SMTT(40), <2>1
  <2>3. [ino.blocks EXCEPT ![k] = b] \in Seq(X \cup {b})
    <3> DEFINE n == Len(ino.blocks)
    <3>1. n \in Nat /\ ino.blocks \in [1 .. n -> X \cup {b}]
      BY <2>1
    <3> HIDE DEF n
    <3>2. [ino.blocks EXCEPT ![k] = b] \in [1 .. n -> X \cup {b}]
      BY Zenon, <3>1
    <3> QED BY SMTT(40), <3>1, <3>2
  <2> QED BY Zenon, <2>2, <2>3 DEF Assigned
<1> HIDE DEF bs
<1>3. new = [blocks |-> bs, size |-> ino.size] /\ ino.size \in Int
  BY DEF IsIno
<1>4. IsIno([blocks |-> bs, size |-> ino.size])
  BY Zenon, <1>2, <1>3 DEF IsIno
<1> QED BY Zenon, <1>3, <1>4 DEF bs

\* Assigning the new block to the directory's inode touches no entry,
LEMMA DirAssigns ==
  ASSUME DirInv, NEW p \in Callers, Assign(p)
  PROVE  DirInv'
<1> DEFINE c == dcall[p]
           new == CHOOSE b \in DOMAIN data : data[b][1].inode = c.inode
           ino == [c.ino EXCEPT !.blocks = Assigned(@, Len(Blocks(c.ino)) + 1, new)]
           x == [c EXCEPT !.ino = ino]
<1>1. IsCall(c) /\ IsIno(c.ino)
  BY Zenon DEF DirInv, CallsInv, IsCall
<1>2. IsIno(ino)
  <2> HIDE DEF new, c
  <2> QED BY Zenon, <1>1, AssignedIno
<1>3. dino' = ino /\ dcall' = [dcall EXCEPT ![p] = x] /\ dpc' = [dpc EXCEPT ![p] = "resize"] /\ UNCHANGED <<data, inodes>>
  BY Zenon DEF Assign
<1> HIDE DEF ino, new, c
<1>4. IsCall(x)
  BY <1>1, <1>2 DEF IsCall
<1> HIDE DEF x
<1>5. Moved(dpc, dcall, p, "resize", x, dpc', dcall') /\ "resize" \in Places \ Holding
  BY Zenon, <1>3 DEF Moved, Places, Holding
<1>6. HeldInv(data, inodes, dpc', dcall') /\ CallsInv(dpc', dcall')
  BY SMTT(40), <1>4, <1>5, PlaceKeeps DEF DirInv
<1> QED BY Zenon, <1>2, <1>3, <1>6 DEF DirInv

\* nor does writing its size,
LEMMA DirResizes ==
  ASSUME DirConstants, DirInv, NEW p \in Callers, Resize(p)
  PROVE  DirInv'
<1> DEFINE ino == [dcall[p].ino EXCEPT !.size = @ + BlockSize]
<1>1. IsIno(dcall[p].ino)
  BY Zenon DEF DirInv, CallsInv, IsCall
<1>2. IsIno(ino)
  BY SMTT(40), <1>1 DEF IsIno, DirConstants
<1>3. dino' = ino /\ Linked(p, ino) /\ UNCHANGED <<data, inodes>>
  BY Zenon DEF Resize
<1> HIDE DEF ino
<1>4. /\ CallsInv(dpc', dcall') /\ dpc'[p] \notin Holding
      /\ \A q \in Callers \ {p} : dpc'[q] = dpc[q] /\ dcall'[q] = dcall[q]
  BY SMTT(40), <1>2, <1>3, LinkedMoves DEF DirInv
<1>5. HeldInv(data, inodes, dpc', dcall')
  BY Zenon, <1>4, MoveKeeps DEF DirInv
<1> QED BY Zenon, <1>2, <1>3, <1>4, <1>5 DEF DirInv

\* nor counting a link for the dots of a new directory.
LEMMA DirBumps ==
  ASSUME DirInv, NEW p \in Callers, Bump(p)
  PROVE  DirInv'
<1>1. IsIno(dcall[p].ino)
  BY SMTT(40) DEF DirInv, CallsInv, IsCall
<1>2. HeldInv(data, inodes, dpc', dcall') /\ CallsInv(dpc', dcall')
  BY Zenon, ReturnKeeps DEF DirInv, Bump
<1> QED BY Zenon, <1>1, <1>2 DEF DirInv, Bump

\* Beginning a removal changes nothing on disk.
LEMMA DirBeginsRemoval ==
  ASSUME DirInv, NEW p \in Callers, NEW n \in Names, DirRemove(p, n)
  PROVE  DirInv'
<1> DEFINE x == [NoDirCall EXCEPT !.name = n, !.ino = dino]
<1>1. IsCall(x)
  <2> DEFINE y == [NoDirCall EXCEPT !.name = n]
  <2>1. x = [y EXCEPT !.ino = dino]
    BY Zenon
  <2>2. IsCall(y)
    BY NoCallTyped DEF IsCall, AllNames
  <2> HIDE DEF x, y
  <2> QED BY Zenon, <2>1, <2>2 DEF IsCall, DirInv
<1> HIDE DEF x
<1>2. Moved(dpc, dcall, p, "unlink", x, dpc', dcall') /\ "unlink" \in Places \ Holding
  BY Zenon DEF DirRemove, Moved, Places, Holding, x
<1>3. HeldInv(data, inodes, dpc', dcall') /\ CallsInv(dpc', dcall')
  BY Zenon, <1>1, <1>2, PlaceKeeps DEF DirInv
<1> QED BY Zenon, <1>3 DEF DirInv, DirRemove

\* A removal only takes entries away.
LEMMA DirUnlinks ==
  ASSUME DirInv, NEW p \in Callers, Unlink(p)
  PROVE  DirInv'
<1> DEFINE n == dcall[p].name
           bs == Range(Blocks(dcall[p].ino))
<1>1. data' = [b \in DOMAIN data |-> IF b \in bs THEN Removed(data[b], n) ELSE data[b]]
  BY Zenon DEF Unlink
<1>2. DirReturn(p) /\ UNCHANGED <<dino, inodes>>
  BY Zenon DEF Unlink
<1>3. data \in Disk /\ DiskInv(data, inodes) /\ HeldInv(data, inodes, dpc, dcall) /\ CallsInv(dpc, dcall)
  BY Zenon DEF DirInv, DiskInv
<1> HIDE DEF n, bs
<1>4. DOMAIN data' = DOMAIN data /\ \A b \in DOMAIN data : data'[b] \in Seq(Rec) /\ Shrunk(data[b], data'[b])
  <2> SUFFICES ASSUME NEW b \in DOMAIN data PROVE data'[b] \in Seq(Rec) /\ Shrunk(data[b], data'[b])
    BY Zenon, <1>1
  <2>1. data[b] \in Seq(Rec)
    BY Zenon, <1>3, RecInodes
  <2>2. data'[b] = Removed(data[b], n) \/ data'[b] = data[b]
    BY Zenon, <1>1
  <2> QED BY Zenon, <2>1, <2>2, RemovedShrinks, SameShrinks
<1>5. data' \in Disk
  <2>1. Len(data) \in Nat /\ DOMAIN data = 1 .. Len(data)
    BY <1>3 DEF Disk
  <2>2. data' \in [1 .. Len(data) -> Seq(Rec)]
    BY Zenon, <1>1, <1>4, <2>1
  <2> QED BY <2>1, <2>2 DEF Disk
<1>6. DiskInv(data', inodes) /\ \A x \in Nat \ {0} : ~Named(data, x) => ~Named(data', x)
  <2> DEFINE e == data'
  <2>1. e \in Disk /\ DOMAIN e = DOMAIN data /\ \A b \in DOMAIN data : Shrunk(data[b], e[b])
    BY Zenon, <1>4, <1>5
  <2> HIDE DEF e
  <2>2. DiskInv(e, inodes) /\ \A x \in Nat \ {0} : ~Named(data, x) => ~Named(e, x)
    BY Zenon, <1>3, <2>1, ShrinkKeeps
  <2> QED BY Zenon, <2>2 DEF e
<1>7. HeldInv(data, inodes, dpc', dcall') /\ CallsInv(dpc', dcall')
  BY SMTT(40), <1>2, <1>3, ReturnKeeps
<1>8. HeldInv(data', inodes, dpc', dcall')
  <2>1. \A x \in DOMAIN inodes : x \in Nat \ {0}
    BY <1>3 DEF DiskInv
  <2> QED BY Zenon, <1>6, <1>7, <2>1 DEF HeldInv
<1> QED BY Zenon, <1>2, <1>6, <1>7, <1>8 DEF DirInv

\* A crash forgets the calls and the inode copies; the disk stays sound.
LEMMA DirCrashes ==
  ASSUME DirInv, Crash
  PROVE  DirInv'
<1>1. dpc' = [p \in Callers |-> "idle"] /\ dcall' = [p \in Callers |-> NoDirCall] /\ UNCHANGED <<data, dino, inodes>>
  BY Zenon DEF Crash
<1>2. "idle" \in Places /\ "idle" \notin Holding
  BY SMTT(40) DEF Places, Holding
<1>3. HeldInv(data, inodes, dpc', dcall')
  BY Zenon, <1>1, <1>2 DEF HeldInv
<1>4. CallsInv(dpc', dcall')
  BY Zenon, <1>1, <1>2, NoCallTyped DEF CallsInv
<1> QED BY Zenon, <1>1, <1>3, <1>4 DEF DirInv

\* The mounted directory is sound.
LEMMA DirStarts ==
  ASSUME DirConstants, DirInit
  PROVE  DirInv
<1> DEFINE r == [name |-> Dot, inode |-> -1, size |-> 12]
           t == [name |-> DotDot, inode |-> -1, size |-> BlockSize - 12]
<1>1. r \in Rec /\ t \in Rec /\ r.inode = -1 /\ t.inode = -1
  BY DEF Rec, AllNames, DirConstants
<1>2. data = << <<r, t>> >> /\ inodes = <<>> /\ dpc = [p \in Callers |-> "idle"] /\ dcall = [p \in Callers |-> NoDirCall]
      /\ dino = [blocks |-> <<1>>, size |-> BlockSize]
  BY Zenon DEF DirInit
<1> HIDE DEF r, t
<1>3. data \in Disk
  BY <1>1, <1>2 DEF Disk
<1>4. \A b \in DOMAIN data : \A k \in DOMAIN data[b] : data[b][k].inode = -1
  BY <1>1, <1>2
<1>5. DiskInv(data, inodes)
  BY <1>2, <1>3, <1>4 DEF DiskInv, Once
<1>6. "idle" \in Places /\ "idle" \notin Holding
  BY Zenon DEF Places, Holding
<1>7. HeldInv(data, inodes, dpc, dcall)
  BY Zenon, <1>2, <1>6 DEF HeldInv
<1>8. CallsInv(dpc, dcall)
  BY Zenon, <1>2, <1>6, NoCallTyped DEF CallsInv
<1>9. IsIno(dino)
  <2>1. <<1>> \in Seq({1})
    OBVIOUS
  <2>2. dino.blocks = <<1>> /\ dino.size = BlockSize
    BY Zenon, <1>2
  <2> QED BY <1>2, <2>1, <2>2 DEF IsIno, DirConstants
<1> QED BY Zenon, <1>5, <1>7, <1>8, <1>9 DEF DirInv

\* Every step of creations, removals and crashes keeps the invariant.
LEMMA DirKeeps ==
  ASSUME DirConstants, DirInv, [DirNext]_(dirVars)
  PROVE  DirInv'
<1>1. CASE UNCHANGED <<data, dino, inodes, dpc, dcall>>
  BY Zenon, <1>1 DEF DirInv
<1>2. ASSUME NEW p \in Callers, NEW n \in Names, NEW op, Create(p, op, n) PROVE DirInv'
  BY Zenon, <1>2, DirCreates
<1>3. ASSUME NEW p \in Callers, NEW n \in Names, DirRemove(p, n) PROVE DirInv'
  BY Zenon, <1>3, DirBeginsRemoval
<1>4. ASSUME NEW p \in Callers, DirStep(p) PROVE DirInv'
  BY SMTT(40), <1>4, DirLooksUp, DirTakesInode, DirWritesInode, DirLinks, DirAssigns, DirResizes, DirBumps, DirUnlinks
     DEF DirStep
<1>5. CASE OpenDir \/ (\E room \in Rooms : Getdents(room)) \/ ReadBlock \/ ReturnDents
  BY Zenon, <1>1, <1>5 DEF OpenDir, Getdents, ReadBlock, ReturnDents
<1>6. CASE Crash
  BY Zenon, <1>6, DirCrashes
<1>7. CASE UNCHANGED dirVars
  BY Zenon, <1>1, <1>7 DEF dirVars
<1> QED BY Zenon, <1>2, <1>3, <1>4, <1>5, <1>6, <1>7 DEF DirNext

\* The invariant says what EntriesSound claims of the entries on disk.
LEMMA DirSound ==
  ASSUME DirInv
  PROVE  EntriesSound
<1>1. \A e \in Entries : e = <<e[1], e[2]>> /\ e[1] \in DOMAIN data /\ e[2] \in DOMAIN data[e[1]]
  BY DEF Entries
<1>2. \A e \in Entries : At(e).inode > 0 =>
        At(e).inode \in DOMAIN inodes /\ inodes[At(e).inode] \in {"file", "dir"}
  BY Zenon, <1>1 DEF DirInv, DiskInv, Complete, At
<1>3. \A e, f \in Entries : At(e).inode > 0 /\ At(e).inode = At(f).inode => e[1] = f[1] /\ e[2] = f[2]
  BY <1>1 DEF DirInv, DiskInv, Once, At
<1>4. \A e, f \in Entries : e[1] = f[1] /\ e[2] = f[2] => e = f
  BY Zenon, <1>1
<1> QED BY Zenon, <1>2, <1>3, <1>4 DEF EntriesSound

\* Whatever creations and removals (ext2Touch, ext2Mkdir, ext2DirRemove) overlap and
\* wherever the machine stops between two disk writes, an entry on disk names an inode that
\* was written before, directories with their dots, and no inode is named by two entries.
THEOREM DirectorySafe ==
  ASSUME DirConstants
  PROVE  DirSpec => []EntriesSound
<1>1. DirInit => DirInv
  BY Zenon, DirStarts
<1>2. DirInv /\ [DirNext]_(dirVars) => DirInv'
  BY Zenon, DirKeeps
<1>3. DirInv => EntriesSound
  BY Zenon, DirSound
<1> QED BY <1>1, <1>2, <1>3, PTL DEF DirSpec
=============================================================================
