-------------------------------- MODULE Pty --------------------------------
(* Pseudo-terminal pairs (filesystems/dev/pty.rs): an open of /dev/ptmx takes  *)
(* an id from ptyBitmap and then links a pair; the last close frees the pair's *)
(* buffers, gives the id back and unlinks the pair, each under a lock of its   *)
(* own. The port has no slave handlers: slaveFds stays 0 and only masterFds    *)
(* decides.                                                                   *)
EXTENDS Integers, FiniteSets

CONSTANTS
  Fds,        \* open-file records; a record is in one call at a time
  Pairs,      \* heap places a pair can be at; a removed pair's place is reused
  PTY_MAX,
  NoPair

VARIABLES
  ptyBitmap,      \* ids whose bit is set
  dsPtyPair,      \* the linked pairs
  id, masterFds,  \* fields of a pair
  buffers,        \* pairs whose two buffers are allocated
  dir,            \* the pair of a descriptor
  fdPc, decided,    \* a call in progress and the id it took
  halted          \* panic()

ptyVars == <<ptyBitmap, dsPtyPair, id, masterFds, buffers, dir, fdPc, decided, halted>>

Ids == 0 .. PTY_MAX - 1

PtyTypeOK ==
  /\ ptyBitmap \subseteq Ids /\ dsPtyPair \subseteq Pairs /\ buffers \subseteq Pairs
  /\ id \in [Pairs -> Ids] /\ masterFds \in [Pairs -> 0 .. Cardinality(Fds)]
  /\ dir \in [Fds -> Pairs \cup {NoPair}] /\ decided \in [Fds -> Ids]
  /\ fdPc \in [Fds -> {"closed", "link", "open", "free", "remove", "unlink"}]
  /\ halted \in BOOLEAN

PtyInit ==
  /\ ptyBitmap = {} /\ dsPtyPair = {} /\ buffers = {}
  /\ id = [p \in Pairs |-> 0] /\ masterFds = [p \in Pairs |-> 0]
  /\ dir = [f \in Fds |-> NoPair] /\ decided = [f \in Fds |-> 0]
  /\ fdPc = [f \in Fds |-> "closed"] /\ halted = FALSE

-----------------------------------------------------------------------------
\* Slips one could make in the definitions below, for checking that the properties
\* notice them; no behaviour uses them.
MutantLast(p) == masterFds[p] <= 2
\* ptmxClose: does dropping one master descriptor leave none?
Last(p) == masterFds[p] = 1

FreeIds == {i \in Ids : i \notin ptyBitmap}
-----------------------------------------------------------------------------
\* ptyBitmapDecide: the lowest free id; a full bitmap is a kernel panic.
Decide(f) ==
  /\ fdPc[f] = "closed"
  /\ \/ /\ FreeIds = {}
        /\ halted' = TRUE
        /\ UNCHANGED <<ptyBitmap, decided, fdPc>>
     \/ \E i \in FreeIds :
        /\ \A j \in FreeIds : i <= j
        /\ ptyBitmap' = ptyBitmap \cup {i}
        /\ decided' = [decided EXCEPT ![f] = i]
        /\ fdPc' = [fdPc EXCEPT ![f] = "link"]
        /\ UNCHANGED halted
  /\ UNCHANGED <<dsPtyPair, id, masterFds, buffers, dir>>

\* The rest of ptmxOpen, under LOCK_PTY_GLOBAL.
Link(f) ==
  /\ fdPc[f] = "link"
  /\ \E p \in Pairs \ dsPtyPair :
       /\ dsPtyPair' = dsPtyPair \cup {p}
       /\ id' = [id EXCEPT ![p] = decided[f]]
       /\ masterFds' = [masterFds EXCEPT ![p] = 1]
       /\ buffers' = buffers \cup {p}
       /\ dir' = [dir EXCEPT ![f] = p]
  /\ decided' = [decided EXCEPT ![f] = 0]
  /\ fdPc' = [fdPc EXCEPT ![f] = "open"]
  /\ UNCHANGED <<ptyBitmap, halted>>

\* ptmxDuplicate: new shares the pair of f (dup, fork).
Duplicate(f, new) ==
  /\ fdPc[f] = "open" /\ fdPc[new] = "closed"
  /\ dir' = [dir EXCEPT ![new] = dir[f]]
  /\ masterFds' = [masterFds EXCEPT ![dir[f]] = @ + 1]
  /\ fdPc' = [fdPc EXCEPT ![new] = "open"]
  /\ UNCHANGED <<ptyBitmap, dsPtyPair, id, buffers, decided, halted>>

\* ptmxClose, its section under the pair's lock.
Close(f) ==
  /\ fdPc[f] = "open"
  /\ masterFds' = [masterFds EXCEPT ![dir[f]] = @ - 1]
  /\ \/ /\ Last(dir[f])
        /\ fdPc' = [fdPc EXCEPT ![f] = "free"]
        /\ UNCHANGED dir
     \/ /\ ~Last(dir[f])
        /\ fdPc' = [fdPc EXCEPT ![f] = "closed"]
        /\ dir' = [dir EXCEPT ![f] = NoPair]
  /\ UNCHANGED <<ptyBitmap, dsPtyPair, id, buffers, decided, halted>>

FreeBuffers(f) ==
  /\ fdPc[f] = "free"
  /\ buffers' = buffers \ {dir[f]}
  /\ fdPc' = [fdPc EXCEPT ![f] = "remove"]
  /\ UNCHANGED <<ptyBitmap, dsPtyPair, id, masterFds, dir, decided, halted>>

\* ptyBitmapRemove
Remove(f) ==
  /\ fdPc[f] = "remove"
  /\ ptyBitmap' = ptyBitmap \ {id[dir[f]]}
  /\ fdPc' = [fdPc EXCEPT ![f] = "unlink"]
  /\ UNCHANGED <<dsPtyPair, id, masterFds, buffers, dir, decided, halted>>

Unlink(f) ==
  /\ fdPc[f] = "unlink"
  /\ dsPtyPair' = dsPtyPair \ {dir[f]}
  /\ id' = [id EXCEPT ![dir[f]] = 0]
  /\ dir' = [dir EXCEPT ![f] = NoPair]
  /\ fdPc' = [fdPc EXCEPT ![f] = "closed"]
  /\ UNCHANGED <<ptyBitmap, masterFds, buffers, decided, halted>>

PtyNext ==
  /\ ~halted
  /\ \E f \in Fds :
       \/ Decide(f) \/ Link(f) \/ Close(f) \/ FreeBuffers(f) \/ Remove(f) \/ Unlink(f)
       \/ \E new \in Fds : Duplicate(f, new)

PtySpec == PtyInit /\ [][PtyNext]_ptyVars
-----------------------------------------------------------------------------
Openers(p) == {f \in Fds : fdPc[f] = "open" /\ dir[f] = p}

\* A descriptor that is open leads to a pair that is linked, has its buffers and
\* keeps its id, whatever other opens and closes are half done: ptmxClose
\* tears a pair down once, after the last descriptor, although it drops the
\* pair's lock before it does and unlinks the pair after its id is free again.
PairsSound ==
  /\ \A f \in Fds : fdPc[f] = "open" =>
       dir[f] \in dsPtyPair \cap buffers /\ id[dir[f]] \in ptyBitmap
  /\ \A p \in dsPtyPair : masterFds[p] = Cardinality(Openers(p))
  /\ \A p, q \in buffers : id[p] = id[q] => p = q
  /\ \A f, g \in Fds : fdPc[f] \in {"free", "remove", "unlink"} /\ dir[f] = dir[g] => f = g

\* ptyBitmapDecide panics only when every id is held by an open pair, by an open
\* that has not linked its pair yet or by a close that has not given it back.
PanicOnlyWhenTaken ==
  halted => \A i \in Ids : \E f \in Fds :
     \/ fdPc[f] = "link" /\ decided[f] = i
     \/ fdPc[f] \in {"open", "free", "remove"} /\ id[dir[f]] = i

\* A pair is torn down once, after the last close of a descriptor of it, and no id
\* is given to two pairs or refused while one is free (ptmxOpen, ptmxDuplicate,
\* ptmxClose, ptyBitmapDecide).
PairsHeldOnce == PairsSound /\ PanicOnlyWhenTaken
=============================================================================
