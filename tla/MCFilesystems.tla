---------------------------- MODULE MCFilesystems ----------------------------
(* The file systems for TLC.  ext2: the inode allocator, one directory, and    *)
(* the cache lists; FAT32: open files and directories.  Each is explored      *)
(* while the others rest (`scope`).  Two processes create and remove two      *)
(* names in the ext2 directory with a crash somewhere (scope "create"); one   *)
(* does, with three files, while somebody lists it ("list").  On FAT32 one    *)
(* process does everything ("one"), or two read and list at once ("two");     *)
(* nothing is claimed there once a slot is torn, and exploration stops.       *)
EXTENDS Ext2Inodes, Ext2Dir, TLC

CONSTANTS fa, fb, fc, p1, p2, MaxPairInodes,
          FileBlocks, MaxRange, MaxAdds, Objects, NoObject,
          BadCluster, PerSector, CacheMax, Bpc, PerCluster, Limits, Listed

VARIABLES scope,
  cache, blocksCached, freed, adds, cpc, adding, pushing, cpanicked, first, next, prev, stale,
  cacheBase, fatCache, cacheCurr, fd, fpc, fcall, torn

cvars == <<cache, blocksCached, freed, adds, cpc, adding, pushing, cpanicked, first, next, prev, stale>>

fvars == <<cacheBase, fatCache, cacheCurr, fd, fpc, fcall, torn>>

\* Two groups of four inodes: an empty second group, one with bit 0 clear, and one
\* that can be filled up.
MCMounted == {<<{0, 1}, {}>>, <<{0, 1, 3}, {1}>>, <<{0, 1, 2}, {0, 1}>>}
MCBitmaps == {[g \in 0 .. 1 |-> m[g + 1]] : m \in MCMounted}

\* A block holds "." and ".." with room for fa or fb behind, or three short names.
MCNameLen == (Dot :> 1) @@ (DotDot :> 2) @@ (fa :> 1) @@ (fb :> 4) @@ (fc :> 5)

MCNames == {fa, fb, fc}

Cache == INSTANCE Ext2Cache

\* Clusters 2, 3 and 5 are a file, of which two follow each other; 4 is another,
\* that ends in a bad cluster; 6 and 7 are a directory.
MCFat == [cl \in 0 .. 7 |-> CASE cl = 2 -> 3 [] cl = 3 -> 5 [] cl = 6 -> 7
                               [] cl = 4 -> BadCluster [] OTHER -> BadCluster + 1]
MCFiles == {[dir |-> FALSE, first |-> 2, size |-> 5], [dir |-> FALSE, first |-> 4, size |-> 2]}
MCDirs == {[dir |-> TRUE, first |-> 6, size |-> 0]}
MCListing == (6 :> <<"free", "name", "lfn">>) @@ (7 :> <<"name", "lfn", "name">>)

FAT == INSTANCE Fat32 WITH
  Fat <- MCFat, Files <- MCFiles, Dirs <- MCDirs, Listing <- MCListing, Rooms <- Listed,
  cache <- fatCache, pc <- fpc, call <- fcall

MCInit ==
  /\ Init /\ DirInit /\ Cache!Init /\ FAT!Init
  /\ scope \in {"inodes", "create", "list", "cache", "objects", "one", "two"}
  /\ scope # "inodes" => used = CHOOSE m \in Mounted : TRUE

MCNext ==
  \/ scope = "inodes" /\ Next /\ UNCHANGED <<dirVars, cvars, fvars, scope>>
  \/ /\ scope = "create" /\ DirNext /\ list' = list /\ Len(inodes') <= MaxPairInodes
     /\ \A p \in Procs : dcall'[p].name # fc
     /\ UNCHANGED <<vars, cvars, fvars, scope>>
  \/ /\ scope = "list" /\ DirNext /\ crashes' = crashes
     /\ \A p \in Procs : dpc'[p] # "idle" => p = p1 /\ dcall'[p].op = "touch"
     /\ UNCHANGED <<vars, cvars, fvars, scope>>
  \/ /\ scope = "cache" /\ Cache!Next /\ pushing' = pushing /\ first' = first
     /\ UNCHANGED <<vars, dirVars, fvars, scope>>
  \/ scope = "objects" /\ Cache!Next /\ adds' = adds /\ UNCHANGED <<vars, dirVars, fvars, scope>>
  \/ /\ scope \in {"one", "two"} /\ FAT!Next /\ ~torn
     /\ scope = "one" => fd'[p2] = FAT!NoFd
     /\ scope = "two" => \A p \in Procs :
                            /\ fcall'[p].op # "seek" /\ fcall'[p].limit \in {0, 3} /\ fcall'[p].added <= 1
                            /\ (FAT!IsOpen(p) => fd'[p] # FAT!NoFd)
     /\ UNCHANGED <<vars, dirVars, cvars, scope>>

MCSpec == MCInit /\ [][MCNext]_<<vars, dirVars, cvars, fvars, scope>>

\* Directory: the entries of every block fill it exactly; without overlapping
\* creations, names are unique and found, and a listing gives what was there
\* throughout exactly once.
DirectoryExact == BlocksTiled /\ NamespaceExact /\ ListingExact
\* Cache: ranges sorted, counted, freed once; the objects' list intact.
CachesSound == Cache!CacheSound /\ Cache!ObjectsListed
\* FAT32: a read gives the file's bytes from where the descriptor stood, and a
\* listing every name of the directory once and in order.
FatExact == FAT!ReadExact /\ FAT!DirListed
=============================================================================
