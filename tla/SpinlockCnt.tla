----------------------------- MODULE SpinlockCnt -----------------------------
(* The counting reader/writer lock of src/src/kernel/utilities/spinlock.rs.   *)
(* `lock.flag` is the inner spinlock, `cnt` the word it protects: the number  *)
(* of readers, 0 when free, -1 when a writer owns it.  Threads pair every     *)
(* acquire with its release, as every caller in the kernel does; between the  *)
(* swap that takes `flag`, the test of `cnt` and the store that frees `flag`  *)
(* any other thread may run.                                                  *)
EXTENDS Integers, FiniteSets

CONSTANT Threads

ASSUME ThreadsAssumption == IsFiniteSet(Threads)

VARIABLES
  flag,   \* Spinlock.flag
  cnt,    \* SpinlockCnt.cnt
  op,     \* the method each thread is in, "none" between calls
  at,     \* where in that method: spinning on flag, holding it, or leaving
  holds,  \* what the calls that have changed cnt gave the thread
  fatal   \* panic() was reached

lockVars == <<flag, cnt, op, at, holds, fatal>>

Acquires == {"read_acquire", "write_acquire"}
Releases == {"read_release", "write_release"}
Ops == Acquires \cup Releases

ReadHolders == {t \in Threads : holds[t] = "read"}
WriteHolders == {t \in Threads : holds[t] = "write"}

LockTypeOK ==
  /\ flag \in BOOLEAN
  /\ cnt \in -1 .. Cardinality(Threads)
  /\ op \in [Threads -> Ops \cup {"none"}]
  /\ at \in [Threads -> {"spin", "locked", "again", "done"}]
  /\ holds \in [Threads -> {"none", "read", "write"}]
  /\ fatal \in BOOLEAN

LockInit ==
  /\ flag = FALSE
  /\ cnt = 0
  /\ op = [t \in Threads |-> "none"]
  /\ at = [t \in Threads |-> "spin"]
  /\ holds = [t \in Threads |-> "none"]
  /\ fatal = FALSE

\* A thread calls an acquire when it holds nothing and the matching release
\* when it holds the lock.
Call(t, o) ==
  /\ op[t] = "none"
  /\ CASE o \in Acquires       -> holds[t] = "none"
       [] o = "read_release"  -> holds[t] = "read"
       [] o = "write_release" -> holds[t] = "write"
  /\ op' = [op EXCEPT ![t] = o]
  /\ at' = [at EXCEPT ![t] = "spin"]
  /\ UNCHANGED <<flag, cnt, holds, fatal>>

\* Slip: a writer comes in beside readers.
MutantWriteAcquire(t) ==
  /\ op[t] = "write_acquire" /\ at[t] = "locked"
  /\ \/ /\ cnt > -1
        /\ cnt' = -1
        /\ holds' = [holds EXCEPT ![t] = "write"]
        /\ at' = [at EXCEPT ![t] = "done"]
     \/ /\ ~(cnt > -1)
        /\ at' = [at EXCEPT ![t] = "again"]
        /\ UNCHANGED <<cnt, holds>>
  /\ UNCHANGED <<flag, op, fatal>>

\* Slip: a reader leaves without being counted down.
MutantReadRelease(t) ==
  /\ op[t] = "read_release" /\ at[t] = "locked"
  /\ cnt' = cnt
  /\ holds' = [holds EXCEPT ![t] = "none"]
  /\ at' = [at EXCEPT ![t] = "done"]
  /\ UNCHANGED <<flag, op, fatal>>

-----------------------------------------------------------------------------
\* The swap in Spinlock.acquire that finds the flag clear.  A swap that finds it
\* set changes nothing and the thread hands control on.
LockSwap(t) ==
  /\ op[t] # "none" /\ at[t] = "spin"
  /\ ~flag
  /\ flag' = TRUE
  /\ at' = [at EXCEPT ![t] = "locked"]
  /\ UNCHANGED <<cnt, op, holds, fatal>>

\* What each method does to cnt once it has the flag; "again" is the retry path
\* of the two acquire loops.
ReadAcquire(t) ==
  /\ op[t] = "read_acquire" /\ at[t] = "locked"
  /\ \/ /\ cnt > -1
        /\ cnt' = cnt + 1
        /\ holds' = [holds EXCEPT ![t] = "read"]
        /\ at' = [at EXCEPT ![t] = "done"]
     \/ /\ ~(cnt > -1)
        /\ at' = [at EXCEPT ![t] = "again"]
        /\ UNCHANGED <<cnt, holds>>
  /\ UNCHANGED <<flag, op, fatal>>

WriteAcquire(t) ==
  /\ op[t] = "write_acquire" /\ at[t] = "locked"
  /\ \/ /\ cnt = 0
        /\ cnt' = -1
        /\ holds' = [holds EXCEPT ![t] = "write"]
        /\ at' = [at EXCEPT ![t] = "done"]
     \/ /\ cnt # 0
        /\ at' = [at EXCEPT ![t] = "again"]
        /\ UNCHANGED <<cnt, holds>>
  /\ UNCHANGED <<flag, op, fatal>>

\* The sanity tests of the two releases are modelled as setting `fatal`, so that
\* reaching panic() is visible.
ReadRelease(t) ==
  /\ op[t] = "read_release" /\ at[t] = "locked"
  /\ fatal' = (fatal \/ cnt < 0)
  /\ cnt' = IF cnt < 0 THEN cnt ELSE cnt - 1
  /\ holds' = [holds EXCEPT ![t] = "none"]
  /\ at' = [at EXCEPT ![t] = "done"]
  /\ UNCHANGED <<flag, op>>

WriteRelease(t) ==
  /\ op[t] = "write_release" /\ at[t] = "locked"
  /\ fatal' = (fatal \/ cnt # -1)
  /\ cnt' = IF cnt # -1 THEN cnt ELSE 0
  /\ holds' = [holds EXCEPT ![t] = "none"]
  /\ at' = [at EXCEPT ![t] = "done"]
  /\ UNCHANGED <<flag, op>>

\* Spinlock.release, then either the method returns or the loop starts over.
Unlock(t) ==
  /\ op[t] # "none" /\ at[t] \in {"again", "done"}
  /\ flag' = FALSE
  /\ op' = IF at[t] = "done" THEN [op EXCEPT ![t] = "none"] ELSE op
  /\ at' = [at EXCEPT ![t] = "spin"]
  /\ UNCHANGED <<cnt, holds, fatal>>

\* The steps of a call that has been made.
LockStep(t) ==
  \/ LockSwap(t)
  \/ ReadAcquire(t)
  \/ WriteAcquire(t)
  \/ ReadRelease(t)
  \/ WriteRelease(t)
  \/ Unlock(t)

LockNext == \E t \in Threads : LockStep(t) \/ \E o \in Ops : Call(t, o)

LockSpec == LockInit /\ [][LockNext]_lockVars

-----------------------------------------------------------------------------
\* A thread is between the swap and the store of the inner spinlock.
InSection(t) == op[t] # "none" /\ at[t] # "spin"

\* The inner spinlock is held by exactly the thread inside the section, so two
\* threads never test and change cnt at the same time.
FlagGuardsSection ==
  /\ flag <=> \E t \in Threads : InSection(t)
  /\ \A s, t \in Threads : InSection(s) /\ InSection(t) => s = t

\* cnt is what the comment on the field says: -1 with exactly one writer and no
\* reader, otherwise the number of readers, at every point of every interleaving.
CntCountsHolders ==
  \/ cnt = -1 /\ ReadHolders = {} /\ \E t \in Threads : WriteHolders = {t}
  \/ cnt = Cardinality(ReadHolders) /\ WriteHolders = {}

\* What a thread holds agrees with how far its call has come.
HoldsMatchesCall ==
  \A t \in Threads :
    /\ op[t] \in Acquires /\ at[t] # "done" => holds[t] = "none"
    /\ op[t] = "read_release" /\ at[t] # "done" => holds[t] = "read" /\ at[t] # "again"
    /\ op[t] = "write_release" /\ at[t] # "done" => holds[t] = "write" /\ at[t] # "again"

\* A writer excludes every other holder.
RWExclusion ==
  \A s, t \in Threads : holds[s] = "write" /\ holds[t] # "none" => s = t

\* With paired calls neither sanity test of the releases ever reaches panic().
NeverFatal == ~fatal

=============================================================================
