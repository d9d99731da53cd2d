------------------------------- MODULE Ext2Dir -------------------------------
(* One ext2 directory: ext2Mkdir and ext2Touch (ext2-create.rs) with the       *)
(* lookup (ext2-traverse.rs) and the directory blocks they write              *)
(* (ext2-dirs.rs: ext2DirAllocate, ext2DirRemove), and ext2Getdents64 reading *)
(* the directory meanwhile.  The machine may crash between any two writes.    *)
(*                                                                            *)
(* A directory block is a sequence of entries whose sizes add up to the block *)
(* size.  A process works on the copy of the directory's inode it fetched     *)
(* when its call began.  LOCK_DIRALLOC makes the scan of the blocks and the   *)
(* write of one of them a single step; fetching, looking up and writing the   *)
(* inode back are steps of their own.  A lookup is one step: a name sits in   *)
(* one block, so what it returns was true at one moment of its reading.       *)
(* Inodes and blocks come fresh from their allocators (Ext2Inodes for the     *)
(* first); an inode's number is its position in `inodes`.                     *)
EXTENDS Integers, Sequences, FiniteSets, FiniteSetsExt

CONSTANTS
  Callers,          \* processes that create and remove
  Names,          \* the names they use
  NameLen,        \* the length of each name in bytes, Dot and DotDot included
  Dot, DotDot,    \* the entries every directory starts with
  BlockSize,      \* blockSize
  MaxBlocks,      \* bound: blocks ever allocated
  MaxInodes,      \* bound: inodes ever allocated
  MaxCrashes,     \* bound: crashes
  Rooms,          \* numbers of entries a caller's buffer may have room for
  NoCaller

HEADER == 8       \* size_of::<Ext2Directory>

VARIABLES
  data,           \* the directory blocks on disk, in the order of allocation
  dino,           \* the directory's inode on disk: block pointers and size
  inodes,         \* the inodes allocated: "blank", "file", "bare" or "dir"
  dirlock,        \* holder of LOCK_DIRALLOC
  dpc, dcall,       \* per process, where it is and the call's locals
  made,           \* the names linked and not removed since
  clean,          \* no two creations have overlapped so far
  crashes,
  list            \* the open directory stream

dirVars == <<data, dino, inodes, dirlock, dpc, dcall, made, clean, crashes, list>>

NoDirCall == [op |-> "touch", name |-> Dot, ino |-> [blocks |-> <<>>, size |-> 0], inode |-> 0]
NoList == [at |-> "closed", ino |-> [blocks |-> <<>>, size |-> 0], ptr |-> 0, left |-> 0,
           room |-> 0, got |-> <<>>, had |-> 0, stay |-> {}, removed |-> FALSE, lost |-> FALSE]

\* The root directory is inode 2; here numbers count what is allocated after it.
DirInit ==
  /\ data = << << [name |-> Dot, inode |-> -1, size |-> 12],
                  [name |-> DotDot, inode |-> -1, size |-> BlockSize - 12] >> >>
  /\ dino = [blocks |-> <<1>>, size |-> BlockSize]
  /\ inodes = <<>>
  /\ dirlock = NoCaller
  /\ dpc = [p \in Callers |-> "idle"]
  /\ dcall = [p \in Callers |-> NoDirCall]
  /\ made = {}
  /\ clean = TRUE
  /\ crashes = 0
  /\ list = NoList

-----------------------------------------------------------------------------
\* Slips one could make in this code.
MutantAfterInode(p) == "link"
MutantExists(p) == FALSE
-----------------------------------------------------------------------------
Live(e) == e.inode # 0

Hit(e, n) == Live(e) /\ e.name = n

\* The bytes an entry with a name of this length needs, a multiple of four.
EntrySize(len) == ((HEADER + len + 3) \div 4) * 4

\* A deleted first entry has a name of length 0.
MinOld(e) == EntrySize(IF Live(e) THEN NameLen[e.name] ELSE 0)

Fits(e, n) == e.size - MinOld(e) >= EntrySize(NameLen[n])

\* The blocks that the loops over size / blockSize pointers of an inode read.
Blocks(ino) ==
  LET n == (ino.size + BlockSize - 1) \div BlockSize
  IN SubSeq(ino.blocks, 1, Min({n, Len(ino.blocks)}))

\* ext2Traverse
Traverse(ino, n) == \E i \in DOMAIN Blocks(ino) : \E k \in DOMAIN data[ino.blocks[i]] : Hit(data[ino.blocks[i]][k], n)

\* Where ext2DirAllocate's scan stops: the first entry that has the name or room
\* behind it for the new one, as <<position of the block, entry>>.
Stops(ino, n) ==
  {s \in (DOMAIN Blocks(ino)) \X (1 .. BlockSize) :
     /\ s[2] \in DOMAIN data[ino.blocks[s[1]]]
     /\ LET e == data[ino.blocks[s[1]]][s[2]] IN Hit(e, n) \/ Fits(e, n)}

Before(s, t) == s[1] < t[1] \/ (s[1] = t[1] /\ s[2] <= t[2])

Entry(n, inode, size) == [name |-> n, inode |-> inode, size |-> size]

\* Entry k gives up what it does not need to the new entry.
Rest(e, min_old) == e.size - min_old
Split(blk, k, n, inode) ==
  SubSeq(blk, 1, k - 1)
    \o << [blk[k] EXCEPT !.size = MinOld(blk[k])], Entry(n, inode, Rest(blk[k], MinOld(blk[k]))) >>
    \o SubSeq(blk, k + 1, Len(blk))

\* The members of a set of positions up to n, in ascending order.
InOrder(S, n) ==
  CHOOSE f \in UNION {[1 .. m -> S] : m \in 0 .. n} :
    /\ \A i, j \in DOMAIN f : i < j => f[i] < f[j]
    /\ \A k \in S : \E i \in DOMAIN f : f[i] = k

\* ext2DirRemove on one block: the first entry is emptied, another one is added to
\* the entry before it (unless that one has just been removed itself).
Removed(blk, n) ==
  LET hits == {k \in DOMAIN blk : Hit(blk[k], n)}
      gone == {k \in hits : k > 1 /\ k - 1 \notin hits \ {1}}
      kept(k) == [blk[k] EXCEPT !.inode = IF k = 1 /\ k \in hits THEN 0 ELSE @,
                                !.size = IF k + 1 \in gone THEN @ + blk[k + 1].size ELSE @]
      left == InOrder(DOMAIN blk \ gone, Len(blk))
  IN [i \in DOMAIN left |-> kept(left[i])]

\* A block pointer is stored at a position, over an old one if there is any.
Assigned(blocks, i, b) == IF i <= Len(blocks) THEN [blocks EXCEPT ![i] = b] ELSE Append(blocks, b)

\* A call returns.
DirReturn(p) == dpc' = [dpc EXCEPT ![p] = "idle"] /\ dcall' = [dcall EXCEPT ![p] = NoDirCall]

-----------------------------------------------------------------------------
\* ext2Mkdir, ext2Touch: the directory's inode is fetched.
Create(p, op, n) ==
  /\ dpc[p] = "idle"
  /\ dcall' = [dcall EXCEPT ![p] = [op |-> op, name |-> n, ino |-> dino, inode |-> 0]]
  /\ dpc' = [dpc EXCEPT ![p] = "lookup"]
  /\ clean' = (clean /\ \A q \in Callers : dpc[q] \in {"idle", "unlink"})
  /\ UNCHANGED <<data, dino, inodes, dirlock, made, crashes, list>>

\* The lookup fetches the inode again; EEXIST if the name is there.
Exists(p) == Traverse(dino, dcall[p].name)
Lookup(p) ==
  /\ dpc[p] = "lookup"
  /\ \/ Exists(p) /\ DirReturn(p)
     \/ ~Exists(p) /\ dpc' = [dpc EXCEPT ![p] = "inode"] /\ UNCHANGED dcall
  /\ UNCHANGED <<data, dino, inodes, dirlock, made, clean, crashes, list>>

\* ext2InodeFind; the inode is written before anything points to it.
AfterInode(p) == "write"
TakeInode(p) ==
  /\ dpc[p] = "inode" /\ Len(inodes) < MaxInodes
  /\ inodes' = Append(inodes, "blank")
  /\ dcall' = [dcall EXCEPT ![p].inode = Len(inodes) + 1]
  /\ dpc' = [dpc EXCEPT ![p] = AfterInode(p)]
  /\ UNCHANGED <<data, dino, dirlock, made, clean, crashes, list>>

\* ext2InodeModifyM of the new inode.
WriteInode(p) ==
  /\ dpc[p] = "write"
  /\ inodes' = [inodes EXCEPT ![dcall[p].inode] = IF dcall[p].op = "mkdir" THEN "bare" ELSE "file"]
  /\ dpc' = [dpc EXCEPT ![p] = IF dcall[p].op = "mkdir" THEN "dots" ELSE "link"]
  /\ UNCHANGED <<data, dino, dirlock, dcall, made, clean, crashes, list>>

\* A new directory gets its "." and "..", in a block of its own.
WriteDots(p) ==
  /\ dpc[p] = "dots" /\ dirlock = NoCaller
  /\ inodes' = [inodes EXCEPT ![dcall[p].inode] = "dir"]
  /\ dpc' = [dpc EXCEPT ![p] = "link"]
  /\ UNCHANGED <<data, dino, dirlock, dcall, made, clean, crashes, list>>

\* A creation goes on when its name is linked, with the copy it has now.
Linked(p, ino) ==
  \/ /\ dcall[p].op = "mkdir"
     /\ dpc' = [dpc EXCEPT ![p] = "bump"]
     /\ dcall' = [dcall EXCEPT ![p].ino = ino]
  \/ dcall[p].op # "mkdir" /\ DirReturn(p)

\* ext2DirAllocate for the new name: its result is not looked at.
Link(p) ==
  LET c == dcall[p]
      stops == Stops(c.ino, c.name)
      s == CHOOSE x \in stops : \A y \in stops : Before(x, y)
      b == c.ino.blocks[s[1]]
  IN /\ dpc[p] = "link" /\ dirlock = NoCaller
     /\ \/ /\ stops # {} /\ Hit(data[b][s[2]], c.name)
           /\ Linked(p, c.ino)
           /\ UNCHANGED <<data, dirlock, made>>
        \/ /\ stops # {} /\ ~Hit(data[b][s[2]], c.name)
           /\ data' = [data EXCEPT ![b] = Split(@, s[2], c.name, c.inode)]
           /\ made' = made \cup {c.name}
           /\ Linked(p, c.ino)
           /\ UNCHANGED dirlock
        \/ /\ stops = {} /\ Len(data) < MaxBlocks
           /\ data' = Append(data, << Entry(c.name, c.inode, BlockSize) >>)
           /\ dirlock' = p
           /\ dpc' = [dpc EXCEPT ![p] = "assign"]
           /\ UNCHANGED <<made, dcall>>
     /\ UNCHANGED <<dino, inodes, clean, crashes, list>>

\* ext2BlockAssign: the pointer goes into the copy, the copy to disk.
Assign(p) ==
  LET c == dcall[p]
      new == CHOOSE b \in DOMAIN data : data[b][1].inode = c.inode
      ino == [c.ino EXCEPT !.blocks = Assigned(@, Len(Blocks(c.ino)) + 1, new)]
  IN /\ dpc[p] = "assign"
     /\ dcall' = [dcall EXCEPT ![p].ino = ino]
     /\ dino' = ino
     /\ dpc' = [dpc EXCEPT ![p] = "resize"]
     /\ UNCHANGED <<data, inodes, dirlock, made, clean, crashes, list>>

\* Then the size, and the lock is released.
Resize(p) ==
  LET ino == [dcall[p].ino EXCEPT !.size = @ + BlockSize]
  IN /\ dpc[p] = "resize"
     /\ dino' = ino
     /\ dirlock' = NoCaller
     /\ made' = made \cup {dcall[p].name}
     /\ Linked(p, ino)
     /\ UNCHANGED <<data, inodes, clean, crashes, list>>

\* ext2Mkdir writes its copy of the directory's inode back with one more link.
Bump(p) ==
  /\ dpc[p] = "bump"
  /\ dino' = dcall[p].ino
  /\ DirReturn(p)
  /\ UNCHANGED <<data, inodes, dirlock, made, clean, crashes, list>>

\* ext2DirRemove, called with an inode just fetched.
DirRemove(p, n) ==
  /\ dpc[p] = "idle"
  /\ dcall' = [dcall EXCEPT ![p] = [NoDirCall EXCEPT !.name = n, !.ino = dino]]
  /\ dpc' = [dpc EXCEPT ![p] = "unlink"]
  /\ UNCHANGED <<data, dino, inodes, dirlock, made, clean, crashes, list>>

Unlink(p) ==
  LET c == dcall[p]
      blocks == Range(Blocks(c.ino))
  IN /\ dpc[p] = "unlink" /\ dirlock = NoCaller
     /\ data' = [b \in DOMAIN data |-> IF b \in blocks THEN Removed(data[b], c.name) ELSE data[b]]
     /\ made' = IF Traverse(c.ino, c.name) THEN made \ {c.name} ELSE made
     /\ list' = IF list.at = "closed" THEN list ELSE [list EXCEPT !.stay = @ \ {c.name}, !.removed = TRUE]
     /\ DirReturn(p)
     /\ UNCHANGED <<dino, inodes, dirlock, clean, crashes>>

-----------------------------------------------------------------------------
\* Opening the directory keeps a copy of its inode in the file.
OpenDir ==
  /\ list.at = "closed"
  /\ list' = [NoList EXCEPT !.at = "open", !.ino = dino, !.stay = made \cup {Dot, DotDot}]
  /\ UNCHANGED <<data, dino, inodes, dirlock, dpc, dcall, made, clean, crashes>>

\* ext2Getdents64 with a buffer for `room` entries.
Getdents(room) ==
  /\ list.at = "open"
  /\ list' = [list EXCEPT !.at = "reading", !.room = room, !.had = Len(list.got),
                          !.left = Len(Blocks(list.ino))]
  /\ UNCHANGED <<data, dino, inodes, dirlock, dpc, dcall, made, clean, crashes>>

\* The stream's position behind a block that is read to its end.
RoundUp(ptr) == IF ptr % BlockSize = 0 THEN ptr ELSE ptr + BlockSize - (ptr % BlockSize)

SizeOf(blk, ks) == MapThenSumSet(LAMBDA k : blk[k].size, ks)

\* One block: live entries are copied out until the buffer is full.  Deleted ones
\* do not move the position.  A position where no entry begins any more gives
\* whatever the stale bytes there are: nothing is said about this stream again.
ReadBlock ==
  LET i == list.ptr \div BlockSize + 1
      blk == data[list.ino.blocks[i]]
      from == {k \in DOMAIN blk : SizeOf(blk, 1 .. k - 1) >= list.ptr % BlockSize}
      live == InOrder({k \in from : Live(blk[k])}, Len(blk))
      taken == SubSeq(live, 1, Min({list.room, Len(live)}))
      ptr == list.ptr + SizeOf(blk, Range(taken))
      full == Len(live) > list.room
  IN /\ list.at = "reading" /\ list.left > 0 /\ i <= Len(list.ino.blocks)
     /\ \/ /\ SizeOf(blk, DOMAIN blk \ from) # list.ptr % BlockSize
           /\ list' = [list EXCEPT !.lost = TRUE, !.left = 0]
        \/ /\ SizeOf(blk, DOMAIN blk \ from) = list.ptr % BlockSize
           /\ list' = [list EXCEPT !.got = @ \o [j \in DOMAIN taken |-> blk[taken[j]].name],
                                   !.room = @ - Len(taken),
                                   !.ptr = IF full THEN ptr ELSE RoundUp(ptr),
                                   !.left = IF full THEN 0 ELSE @ - 1]
     /\ UNCHANGED <<data, dino, inodes, dirlock, dpc, dcall, made, clean, crashes>>

\* The call returns; a return of nothing is the end of the directory.
ReturnDents ==
  /\ list.at = "reading"
  /\ list.left = 0 \/ list.ptr \div BlockSize + 1 > Len(list.ino.blocks)
  /\ list' = [list EXCEPT !.at = IF Len(list.got) = list.had THEN "end" ELSE "open"]
  /\ UNCHANGED <<data, dino, inodes, dirlock, dpc, dcall, made, clean, crashes>>

-----------------------------------------------------------------------------
\* The machine stops and starts again with what is on disk.
Crash ==
  /\ crashes < MaxCrashes
  /\ crashes' = crashes + 1
  /\ dpc' = [p \in Callers |-> "idle"]
  /\ dcall' = [p \in Callers |-> NoDirCall]
  /\ dirlock' = NoCaller
  /\ list' = NoList
  /\ UNCHANGED <<data, dino, inodes, made, clean>>

DirStep(p) ==
  \/ Lookup(p) \/ TakeInode(p) \/ WriteInode(p) \/ WriteDots(p)
  \/ Link(p) \/ Assign(p) \/ Resize(p) \/ Bump(p) \/ Unlink(p)

DirNext ==
  \/ \E p \in Callers :
       \/ \E n \in Names, op \in {"mkdir", "touch"} : Create(p, op, n)
       \/ \E n \in Names : DirRemove(p, n)
       \/ DirStep(p)
  \/ OpenDir
  \/ \E room \in Rooms : Getdents(room)
  \/ ReadBlock
  \/ ReturnDents
  \/ Crash

DirSpec == DirInit /\ [][DirNext]_dirVars

-----------------------------------------------------------------------------
\* The live entries on disk, as <<block, position>>.
Entries ==
  {e \in (DOMAIN data) \X (1 .. BlockSize) : e[2] \in DOMAIN data[e[1]] /\ Live(data[e[1]][e[2]])}
At(e) == data[e[1]][e[2]]

\* The entries of a block fill it exactly and none is too small for its name, so
\* that following the sizes never leaves a block or enters the middle of an entry.
BlocksTiled ==
  \A b \in DOMAIN data :
    /\ SizeOf(data[b], DOMAIN data[b]) = BlockSize
    /\ \A k \in DOMAIN data[b] : data[b][k].size >= MinOld(data[b][k])

\* Whatever runs concurrently and wherever the machine stops: an entry on disk
\* names an inode that was written before, directories with their dots, and no
\* inode is named by two entries.
EntriesSound ==
  /\ \A e \in Entries : At(e).inode > 0 =>
       At(e).inode \in DOMAIN inodes /\ inodes[At(e).inode] \in {"file", "dir"}
  /\ \A e, f \in Entries : At(e).inode > 0 /\ At(e).inode = At(f).inode => e = f

\* As long as no two creations overlap, crashes included, a name is there once and
\* a name that was created is found.
NamespaceExact ==
  clean => /\ \A e, f \in Entries : At(e).name = At(f).name /\ {e[1], f[1]} \subseteq Range(Blocks(dino)) => e = f
           /\ \A n \in made : Traverse(dino, n)

\* A stream read to its end while files are created gives every name that was
\* there all the time exactly once, and no name twice, if nothing was removed
\* meanwhile, and no block begins with a deleted entry.
ListingExact ==
  list.at = "end" /\ ~list.lost /\ ~list.removed /\ clean /\ (\A b \in DOMAIN data : Live(data[b][1])) =>
    /\ \A n \in list.stay : \E i \in DOMAIN list.got : list.got[i] = n
    /\ \A i, j \in DOMAIN list.got : list.got[i] = list.got[j] => i = j
=============================================================================
