------------------------------ MODULE SyncProofs -----------------------------
(* What threads wait on.  The counting lock counts its holders and a writer    *)
(* excludes everybody; the semaphore neither loses nor invents units; futexes  *)
(* keep their waiters, for every number of threads, futexes, waits and         *)
(* requeues: a waiter that has not been woken can be reached by a wake, and    *)
(* wakes go to the waiters in the order they queued.                           *)
EXTENDS SpinlockCnt, Semaphore, Futex, FiniteSetTheorems, SequenceTheorems, TLAPS

-----------------------------------------------------------------------------
(* The counting reader/writer lock of spinlock.rs, for any finite set of     *)
(* threads.                                                                  *)
\* The inductive invariant.  RWExclusion and NeverFatal are not inductive: that a
\* release finds the cnt it expects needs CntCountsHolders and HoldsMatchesCall,
\* and that two threads cannot both act on the same cnt needs FlagGuardsSection.
RwInv ==
  /\ LockTypeOK
  /\ FlagGuardsSection
  /\ HoldsMatchesCall
  /\ CntCountsHolders
  /\ NeverFatal

\* The two acquires and releases change the set of readers by one thread.
LEMMA ReadersChange ==
  ASSUME IsFiniteSet(Threads), LockTypeOK, NEW t \in Threads
  PROVE  /\ IsFiniteSet(ReadHolders)
         /\ Cardinality(ReadHolders) \in 0 .. Cardinality(Threads)
         /\ Cardinality(Threads) \in Nat
         /\ cnt \in Int
         /\ t \notin ReadHolders =>
              Cardinality(ReadHolders \cup {t}) = Cardinality(ReadHolders) + 1
         /\ t \in ReadHolders =>
              /\ Cardinality(ReadHolders \ {t}) = Cardinality(ReadHolders) - 1
              /\ Cardinality(ReadHolders) > 0
<1>1. IsFiniteSet(ReadHolders)
  BY Zenon, FS_Subset DEF ReadHolders
<1>2. Cardinality(ReadHolders) \in Nat /\ Cardinality(Threads) \in Nat
  BY Zenon, <1>1, FS_CardinalityType
<1>3. t \notin ReadHolders => Cardinality(ReadHolders \cup {t}) = Cardinality(ReadHolders) + 1
  BY Zenon, <1>1, FS_AddElement
<1>4. t \in ReadHolders => Cardinality(ReadHolders \ {t}) = Cardinality(ReadHolders) - 1
  BY Zenon, <1>1, FS_RemoveElement
<1>5. t \in ReadHolders => Cardinality(ReadHolders) > 0
  BY <1>1, <1>2, FS_EmptySet
<1>6. Cardinality(ReadHolders) <= Cardinality(Threads)
  BY Zenon, FS_Subset DEF ReadHolders
<1>7. cnt \in Int
  BY <1>2 DEF LockTypeOK
<1> QED BY <1>1, <1>2, <1>3, <1>4, <1>5, <1>6, <1>7

\* The lock starts free with no thread inside a method.
LEMMA RwInit == ASSUME IsFiniteSet(Threads) PROVE LockInit => RwInv
<1> SUFFICES ASSUME LockInit PROVE RwInv
  BY Zenon
<1>1. LockTypeOK
  <2>1. flag \in BOOLEAN /\ fatal \in BOOLEAN
    BY Zenon DEF LockInit
  <2>2. op \in [Threads -> Ops \cup {"none"}]
    BY Zenon DEF LockInit
  <2>3. /\ at \in [Threads -> {"spin", "locked", "again", "done"}]
        /\ holds \in [Threads -> {"none", "read", "write"}]
    BY Zenon DEF LockInit
  <2>4. cnt \in -1 .. Cardinality(Threads)
    BY FS_CardinalityType DEF LockInit
  <2> QED BY Zenon, <2>1, <2>2, <2>3, <2>4 DEF LockTypeOK
<1>2. ReadHolders = {} /\ WriteHolders = {}
  BY Zenon DEF LockInit, ReadHolders, WriteHolders
<1>3. CntCountsHolders
  BY Zenon, <1>2, FS_EmptySet DEF CntCountsHolders, LockInit
<1> QED
  BY Zenon, <1>1, <1>3 DEF LockInit, RwInv, FlagGuardsSection, InSection, HoldsMatchesCall,
                    NeverFatal, Acquires

\* Every step of every thread preserves the invariant.
LEMMA RwNext == ASSUME IsFiniteSet(Threads) PROVE RwInv /\ [LockNext]_lockVars => RwInv'
<1> SUFFICES ASSUME RwInv, [LockNext]_lockVars PROVE RwInv'
  BY Zenon
<1> USE DEF RwInv
<1>0. Cardinality(Threads) \in Nat
  BY Zenon, FS_CardinalityType
<1>1. ASSUME NEW t \in Threads, NEW o \in Ops, Call(t, o) PROVE RwInv'
  <2>1. LockTypeOK'
    BY Zenon, <1>1 DEF Call, LockTypeOK
  <2>2. FlagGuardsSection'
    BY Zenon, <1>1 DEF Call, LockTypeOK, FlagGuardsSection, InSection
  <2>3. HoldsMatchesCall'
    BY ZenonT(60), <1>1 DEF Call, LockTypeOK, HoldsMatchesCall, Ops, Acquires, Releases
  <2>4. CntCountsHolders' /\ NeverFatal'
    BY Zenon, <1>1 DEF Call, CntCountsHolders, NeverFatal, ReadHolders, WriteHolders
  <2> QED BY Zenon, <2>1, <2>2, <2>3, <2>4
<1>2. ASSUME NEW t \in Threads, LockSwap(t) PROVE RwInv'
  <2>1. LockTypeOK'
    BY Zenon, <1>2 DEF LockSwap, LockTypeOK
  <2>2. FlagGuardsSection'
    BY Zenon, <1>2 DEF LockSwap, LockTypeOK, FlagGuardsSection, InSection
  <2>3. HoldsMatchesCall'
    BY Zenon, <1>2 DEF LockSwap, LockTypeOK, HoldsMatchesCall
  <2>4. CntCountsHolders' /\ NeverFatal'
    BY Zenon, <1>2 DEF LockSwap, CntCountsHolders, NeverFatal, ReadHolders, WriteHolders
  <2> QED BY Zenon, <2>1, <2>2, <2>3, <2>4
<1>3. ASSUME NEW t \in Threads, ReadAcquire(t) PROVE RwInv'
  <2>1. /\ op' = op /\ flag' = flag /\ fatal' = fatal
        /\ at' \in [Threads -> {"spin", "locked", "again", "done"}]
        /\ holds' \in [Threads -> {"none", "read", "write"}]
    BY Zenon, <1>3 DEF ReadAcquire, LockTypeOK
  <2>2. FlagGuardsSection'
    BY <1>3 DEF ReadAcquire, LockTypeOK, FlagGuardsSection, InSection
  <2>3. HoldsMatchesCall'
    BY <1>3 DEF ReadAcquire, LockTypeOK, HoldsMatchesCall, Acquires
  <2>4. CntCountsHolders'
    <3>1. CASE cnt > -1
      <4>1. ReadHolders' = ReadHolders \cup {t} /\ WriteHolders' = WriteHolders /\ t \notin ReadHolders
        BY <1>3, <3>1 DEF ReadAcquire, ReadHolders, WriteHolders, LockTypeOK, HoldsMatchesCall, Acquires
      <4>2. cnt' = cnt + 1
        BY Zenon, <1>3, <3>1 DEF ReadAcquire
      <4>3. cnt = Cardinality(ReadHolders) /\ WriteHolders = {}
        BY <3>1 DEF CntCountsHolders
      <4>4. Cardinality(ReadHolders') = cnt + 1
        BY SMTT(40), <1>3, <4>1, <4>3, ReadersChange
      <4> QED BY SMTT(40), <4>1, <4>2, <4>3, <4>4 DEF CntCountsHolders
    <3>2. CASE ~(cnt > -1)
      BY <1>3, <3>2 DEF ReadAcquire, CntCountsHolders, ReadHolders, WriteHolders
    <3> QED BY Zenon, <3>1, <3>2
  <2>5. cnt' \in -1 .. Cardinality(Threads)
    <3>1. Cardinality(ReadHolders') <= Cardinality(Threads)
      BY Zenon, FS_Subset DEF ReadHolders
    <3>2. IsFiniteSet(ReadHolders') /\ Cardinality(ReadHolders') \in Nat
      BY Zenon, FS_Subset, FS_CardinalityType DEF ReadHolders
    <3> QED BY <2>4, <3>1, <3>2, FS_CardinalityType DEF CntCountsHolders
  <2>6. LockTypeOK'
    BY Zenon, <2>1, <2>5 DEF LockTypeOK
  <2> QED BY Zenon, <1>3, <2>6, <2>2, <2>3, <2>4 DEF ReadAcquire, NeverFatal
<1>4. ASSUME NEW t \in Threads, WriteAcquire(t) PROVE RwInv'
  <2>1. LockTypeOK'
    BY <1>0, <1>4 DEF WriteAcquire, LockTypeOK
  <2>2. FlagGuardsSection'
    BY <1>4 DEF WriteAcquire, LockTypeOK, FlagGuardsSection, InSection
  <2>3. HoldsMatchesCall'
    BY <1>4 DEF WriteAcquire, LockTypeOK, HoldsMatchesCall, Acquires
  <2>4. CntCountsHolders'
    <3>1. CASE cnt = 0
      <4>1. ReadHolders = {} /\ WriteHolders = {}
        <5>1. IsFiniteSet(ReadHolders)
          BY Zenon, <1>4, ReadersChange
        <5>2. Cardinality(ReadHolders) = 0 /\ WriteHolders = {}
          BY <3>1 DEF CntCountsHolders
        <5> QED BY Zenon, <5>1, <5>2, FS_EmptySet
      <4>2. ReadHolders' = {} /\ WriteHolders' = {t} /\ cnt' = -1
        BY <1>4, <3>1, <4>1 DEF WriteAcquire, ReadHolders, WriteHolders, LockTypeOK
      <4> QED BY Zenon, <4>2 DEF CntCountsHolders
    <3>2. CASE cnt # 0
      BY <1>4, <3>2 DEF WriteAcquire, CntCountsHolders, ReadHolders, WriteHolders
    <3> QED BY Zenon, <3>1, <3>2
  <2> QED BY Zenon, <1>4, <2>1, <2>2, <2>3, <2>4 DEF WriteAcquire, NeverFatal
<1>5. ASSUME NEW t \in Threads, ReadRelease(t) PROVE RwInv'
  <2>1. LockTypeOK'
    BY <1>0, <1>5 DEF ReadRelease, LockTypeOK
  <2>2. FlagGuardsSection'
    BY Zenon, <1>5 DEF ReadRelease, LockTypeOK, FlagGuardsSection, InSection
  <2>3. HoldsMatchesCall'
    BY Zenon, <1>5 DEF ReadRelease, LockTypeOK, HoldsMatchesCall, Acquires
  <2>4. t \in ReadHolders
    BY Zenon, <1>5 DEF ReadRelease, HoldsMatchesCall, ReadHolders
  <2>5. cnt = Cardinality(ReadHolders) /\ WriteHolders = {} /\ cnt > 0
    BY ZenonT(60), <2>4, ReadersChange DEF CntCountsHolders
  <2>6. ReadHolders' = ReadHolders \ {t} /\ WriteHolders' = {}
    BY Zenon, <1>5, <2>5 DEF ReadRelease, ReadHolders, WriteHolders, LockTypeOK
  <2>7. CntCountsHolders'
    BY <1>5, <2>4, <2>5, <2>6, ReadersChange DEF ReadRelease, CntCountsHolders
  <2>8. NeverFatal'
    BY <1>5, <2>5 DEF ReadRelease, NeverFatal, LockTypeOK
  <2> QED BY Zenon, <2>1, <2>2, <2>3, <2>7, <2>8
<1>6. ASSUME NEW t \in Threads, WriteRelease(t) PROVE RwInv'
  <2>1. LockTypeOK'
    BY <1>0, <1>6 DEF WriteRelease, LockTypeOK
  <2>2. FlagGuardsSection'
    BY Zenon, <1>6 DEF WriteRelease, LockTypeOK, FlagGuardsSection, InSection
  <2>3. HoldsMatchesCall'
    BY Zenon, <1>6 DEF WriteRelease, LockTypeOK, HoldsMatchesCall, Acquires
  <2>4. t \in WriteHolders
    BY Zenon, <1>6 DEF WriteRelease, HoldsMatchesCall, WriteHolders
  <2>5. cnt = -1 /\ ReadHolders = {} /\ WriteHolders = {t}
    BY Zenon, <2>4 DEF CntCountsHolders
  <2>6. ReadHolders' = {} /\ WriteHolders' = {} /\ cnt' = 0
    BY Zenon, <1>6, <2>5 DEF WriteRelease, ReadHolders, WriteHolders, LockTypeOK
  <2>7. CntCountsHolders'
    BY Zenon, <2>6, FS_EmptySet DEF CntCountsHolders
  <2>8. NeverFatal'
    BY Zenon, <1>6, <2>5 DEF WriteRelease, NeverFatal, LockTypeOK
  <2> QED BY Zenon, <2>1, <2>2, <2>3, <2>7, <2>8
<1>7. ASSUME NEW t \in Threads, Unlock(t) PROVE RwInv'
  <2>1. LockTypeOK'
    BY Zenon, <1>7 DEF Unlock, LockTypeOK
  <2>2. FlagGuardsSection'
    BY Zenon, <1>7 DEF Unlock, LockTypeOK, FlagGuardsSection, InSection
  <2>3. HoldsMatchesCall'
    BY Zenon, <1>7 DEF Unlock, LockTypeOK, HoldsMatchesCall, Acquires
  <2>4. CntCountsHolders' /\ NeverFatal'
    BY Zenon, <1>7 DEF Unlock, CntCountsHolders, NeverFatal, ReadHolders, WriteHolders
  <2> QED BY Zenon, <2>1, <2>2, <2>3, <2>4
<1>8. CASE UNCHANGED lockVars
  BY <1>8 DEF lockVars, LockTypeOK, FlagGuardsSection, InSection, HoldsMatchesCall,
              CntCountsHolders, NeverFatal, ReadHolders, WriteHolders
<1> QED
  BY Zenon, <1>1, <1>2, <1>3, <1>4, <1>5, <1>6, <1>7, <1>8 DEF LockNext, LockStep

\* cnt counts the holders, the flag guards the section and no release panics, in
\* every reachable state and for every finite set of threads.
THEOREM SpinlockCntCorrect ==
  ASSUME IsFiniteSet(Threads)
  PROVE  LockSpec => [](LockTypeOK /\ FlagGuardsSection /\ CntCountsHolders /\ NeverFatal)
<1>1. RwInv => LockTypeOK /\ FlagGuardsSection /\ CntCountsHolders /\ NeverFatal
  BY Zenon DEF RwInv
<1> QED BY <1>1, RwInit, RwNext, PTL DEF LockSpec

\* write_acquire excludes: while a thread holds the lock for writing no other
\* thread holds it at all.
THEOREM WriterExcludes ==
  ASSUME IsFiniteSet(Threads)
  PROVE  LockSpec => []RWExclusion
<1>1. RwInv => RWExclusion
  <2> SUFFICES ASSUME RwInv, NEW s \in Threads, NEW t \in Threads,
                      holds[s] = "write", holds[t] # "none"
               PROVE  s = t
    BY Zenon DEF RWExclusion
  <2>1. s \in WriteHolders /\ (t \in ReadHolders \/ t \in WriteHolders)
    BY Zenon DEF RwInv, LockTypeOK, ReadHolders, WriteHolders
  <2> QED BY <2>1 DEF RwInv, CntCountsHolders
<1> QED BY <1>1, RwInit, RwNext, PTL DEF LockSpec

-----------------------------------------------------------------------------
(* The counting semaphore of the same file, for any set of threads, initial   *)
(* count and timeouts.  Its inner lock is a plain Spinlock, and its state is  *)
(* its own.                                                                   *)
\* Spinlock.acquire and release make wait's and post's sections exclusive, so that
\* the test of cnt and the change of cnt are one step to everybody else.
SectionExclusive ==
  /\ \A t \in Waiters : InSemSection(t) => sflag = TRUE
  /\ \A s, t \in Waiters : InSemSection(s) /\ InSemSection(t) => s = t

\* The inductive invariant: a unit taken is remembered until wait returns it.
SemInv ==
  /\ scnt \in Nat /\ taken \in Nat /\ posted \in Nat
  /\ spc \in [Waiters -> PCs]
  /\ SectionExclusive
  /\ UnitsConserved
  /\ \A t \in Waiters : spc[t] = "unlock_ok" => t \in granted

\* A new semaphore satisfies the invariant.
LEMMA SemInitInv == ASSUME Initial \in Nat PROVE SemInit => SemInv
BY SMTT(40) DEF SemInit, SemInv, PCs, SectionExclusive, InSemSection, UnitsConserved, Waiting

\* Waits, posts, timeouts and ticks keep the invariant.
LEMMA SemNextInv == ASSUME Initial \in Nat PROVE SemInv /\ [SemNext]_semVars => SemInv'
<1> SUFFICES ASSUME SemInv, [SemNext]_semVars PROVE SemInv'
  BY Zenon
<1> USE DEF SemInv, PCs, SectionExclusive, InSemSection, UnitsConserved, Waiting, Goto
<1>1. CASE Tick
  BY Zenon, <1>1 DEF Tick
<1>2. ASSUME NEW t \in Waiters, NEW d \in Timeouts, CallWait(t, d) PROVE SemInv'
  BY SMTT(40), <1>2 DEF CallWait
<1>3. ASSUME NEW t \in Waiters, CallPost(t) PROVE SemInv'
  BY SMTT(40), <1>3 DEF CallPost
<1>4. ASSUME NEW t \in Waiters, CheckTimeout(t) PROVE SemInv'
  BY Zenon, <1>4 DEF CheckTimeout
<1>5. ASSUME NEW t \in Waiters, SemSwap(t) PROVE SemInv'
  BY SMTT(40), <1>5 DEF SemSwap
<1>6. ASSUME NEW t \in Waiters, Test(t) PROVE SemInv'
  <2>1. CASE /\ scnt > 0 /\ scnt' = scnt - 1 /\ taken' = taken + 1
             /\ granted' = granted \cup {t} /\ spc' = [spc EXCEPT ![t] = "unlock_ok"]
    BY SMTT(40), <1>6, <2>1 DEF Test
  <2>2. CASE /\ scnt <= 0 /\ spc' = [spc EXCEPT ![t] = "unlock_again"]
             /\ UNCHANGED <<scnt, taken, granted>>
    BY Zenon, <1>6, <2>2 DEF Test
  <2> QED BY SMTT(40), <1>6, <2>1, <2>2 DEF Test
<1>7. ASSUME NEW t \in Waiters, SemUnlock(t) PROVE SemInv'
  <2>1. CASE spc[t] = "unlock_ok" /\ spc' = [spc EXCEPT ![t] = "true"]
    BY <1>7, <2>1 DEF SemUnlock
  <2>2. CASE spc[t] = "unlock_again" /\ spc' = [spc EXCEPT ![t] = "check"]
    BY <1>7, <2>2 DEF SemUnlock
  <2>3. CASE spc[t] = "post_unlock" /\ spc' = [spc EXCEPT ![t] = "idle"]
    BY SMTT(40), <1>7, <2>3 DEF SemUnlock
  <2> QED BY Zenon, <1>7, <2>1, <2>2, <2>3 DEF SemUnlock
<1>8. ASSUME NEW t \in Waiters, Return(t) PROVE SemInv'
  BY Zenon, <1>8 DEF Return
<1>9. ASSUME NEW t \in Waiters, Post(t) PROVE SemInv'
  BY SMTT(40), <1>9 DEF Post
<1>10. CASE UNCHANGED semVars
  BY Zenon, <1>10 DEF semVars
<1> QED
  BY ZenonT(60), <1>1, <1>2, <1>3, <1>4, <1>5, <1>6, <1>7, <1>8, <1>9, <1>10 DEF SemNext, SemStep

\* Semaphore::wait and post: whatever the interleaving with each other, the timer
\* and timeouts, units are neither lost nor invented, cnt never becomes negative,
\* the sections are exclusive, and wait returns true exactly when it took a unit.
THEOREM SemaphoreCorrect ==
  ASSUME Initial \in Nat
  PROVE  SemSpec => [](UnitsConserved /\ SectionExclusive /\ scnt >= 0)
<1>1. SemInv => UnitsConserved /\ SectionExclusive /\ scnt >= 0
  BY DEF SemInv
<1>2. SemInit => SemInv
  BY Zenon, SemInitInv
<1>3. SemInv /\ [SemNext]_semVars => SemInv'
  BY Zenon, SemNextInv
<1> QED BY <1>1, <1>2, <1>3, PTL DEF SemSpec

-----------------------------------------------------------------------------
(* Futexes                                                                   *)

\* What the constants stand for.
FutexConstants ==
  /\ NoThread \notin Tasks
  /\ RequeuePairs \subseteq Addrs \X Addrs
  /\ MaxWaits \in Nat

Calls == [addr : Addrs \cup {NoThread}, addr2 : Addrs \cup {NoThread}, entry : Nat,
          timed : BOOLEAN, value : Nat, value3 : Nat, i : Nat, awoken_count : Nat,
          moved_count : Nat]

Typed ==
  /\ asleep_list \in [Addrs -> Seq(Entries)]
  /\ lock \in [Addrs -> Tasks \cup {NoThread}]
  /\ awoken \in [Entries -> BOOLEAN]
  /\ task \in [Entries -> Tasks \cup {NoThread}]
  /\ fpc \in [Tasks -> {"user", "queued", "spin", "left", "wake", "lock2", "requeue"}]
  /\ call \in [Tasks -> Calls]

\* A queued entry exists, and one that does not exist yet has not been woken.
EntriesExist ==
  /\ \A a \in Addrs : \A k \in 1 .. Len(asleep_list[a]) : task[asleep_list[a][k]] # NoThread
  /\ \A e \in Entries : task[e] = NoThread => ~awoken[e]

\* A call works on futexes there are and holds the locks of the lists it walks.
\* While the walk has wakes left, everybody it has passed is awake.  A waiter that
\* has not been woken is on a list.
CallOK(t) ==
  /\ fpc[t] \in {"queued", "spin", "left"} => call[t].addr \in Addrs /\ call[t].entry \in Entries
  /\ fpc[t] \in {"wake", "lock2", "requeue"} =>
       call[t].addr \in Addrs /\ lock[call[t].addr] = t /\ call[t].i >= 1
  /\ fpc[t] \in {"lock2", "requeue"} => call[t].addr2 \in Addrs
  /\ fpc[t] = "requeue" => lock[call[t].addr2] = t /\ call[t].addr2 # call[t].addr
WalkInOrder(t) ==
  fpc[t] \in {"wake", "lock2", "requeue"} /\ call[t].awoken_count < call[t].value =>
    \A k \in 1 .. Len(asleep_list[call[t].addr]) :
      k < call[t].i => awoken[asleep_list[call[t].addr][k]]
Reachable(t) ==
  fpc[t] \in {"queued", "spin", "left"} /\ ~awoken[call[t].entry] =>
    \E a \in Addrs : OnList(call[t].entry, a)

\* The inductive invariant.  NoOvertaking needs WalkInOrder: the walk wakes the entry
\* it has come to, and those before it must be awake already.
IInv ==
  /\ Typed /\ EntriesExist /\ QueuedOnce /\ NoOvertaking
  /\ \A t \in Tasks : CallOK(t) /\ WalkInOrder(t) /\ Reachable(t)

-----------------------------------------------------------------------------
(* What push and remove do to the lists.                                      *)

\* What is left of a list when one entry is removed from it.
LEMMA WithoutProperties ==
  ASSUME NEW S, NEW s \in Seq(S), NEW i \in 1 .. Len(s)
  PROVE  /\ Without(s, i) \in Seq(S)
         /\ Len(Without(s, i)) = Len(s) - 1
         /\ \A k \in 1 .. Len(s) - 1 : Without(s, i)[k] = s[IF k < i THEN k ELSE k + 1]
<1> DEFINE A == SubSeq(s, 1, i - 1)
           B == SubSeq(s, i + 1, Len(s))
<1>1. Len(s) \in Nat /\ \A k \in 1 .. Len(s) : s[k] \in S
  BY Zenon, LenProperties, ElementOfSeq
<1>2. A \in Seq(S) /\ Len(A) = i - 1 /\ \A k \in 1 .. i - 1 : A[k] = s[k]
  <2>1. 1 \in Int /\ i - 1 \in Int /\ \A k \in 1 .. i - 1 : s[k] \in S
    BY <1>1
  <2>2. /\ A \in Seq(S) /\ Len(A) = IF 1 <= i - 1 THEN i - 1 - 1 + 1 ELSE 0
        /\ \A k \in 1 .. i - 1 - 1 + 1 : A[k] = s[1 + k - 1]
    BY <2>1, SubSeqProperties
  <2> HIDE DEF A
  <2> QED BY <1>1, <2>2
<1>3. B \in Seq(S) /\ Len(B) = Len(s) - i /\ \A k \in 1 .. Len(s) - i : B[k] = s[i + k]
  <2>1. i + 1 \in Int /\ Len(s) \in Int /\ \A k \in i + 1 .. Len(s) : s[k] \in S
    BY <1>1
  <2>2. /\ B \in Seq(S) /\ Len(B) = IF i + 1 <= Len(s) THEN Len(s) - (i + 1) + 1 ELSE 0
        /\ \A k \in 1 .. Len(s) - (i + 1) + 1 : B[k] = s[i + 1 + k - 1]
    BY <2>1, SubSeqProperties
  <2> HIDE DEF B
  <2>3. \A k \in 1 .. Len(s) - i : k \in 1 .. Len(s) - (i + 1) + 1 /\ i + 1 + k - 1 = i + k
    BY <1>1
  <2>4. \A k \in 1 .. Len(s) - i : B[k] = s[i + k]
    BY Zenon, <2>2, <2>3
  <2> QED BY <1>1, <2>2, <2>4
<1> HIDE DEF A, B
<1> DEFINE R == A \o B
<1>4. /\ R \in Seq(S)
      /\ Len(R) = Len(A) + Len(B)
      /\ \A k \in 1 .. Len(A) + Len(B) : R[k] = IF k <= Len(A) THEN A[k] ELSE B[k - Len(A)]
  BY Zenon, <1>2, <1>3, ConcatProperties
<1>5. Without(s, i) = R
  BY Zenon DEF Without, A, B
<1> HIDE DEF R
<1>6. ASSUME NEW k \in 1 .. Len(s) - 1
      PROVE  R[k] = s[IF k < i THEN k ELSE k + 1]
  <2>0. k \in 1 .. Len(A) + Len(B) /\ (k <= Len(A)) = (k < i)
    BY <1>1, <1>2, <1>3
  <2>a. R[k] = IF k < i THEN A[k] ELSE B[k - (i - 1)]
    BY Zenon, <1>2, <1>4, <2>0
  <2>1. CASE k < i
    <3>1. k \in 1 .. i - 1
      BY <1>1, <2>1
    <3> QED BY Zenon, <1>2, <2>1, <2>a, <3>1
  <2>2. CASE k >= i
    <3>1. R[k] = B[k - (i - 1)]
      BY <1>1, <2>2, <2>a
    <3>2. k - (i - 1) \in 1 .. Len(s) - i /\ i + (k - (i - 1)) = k + 1
      BY <1>1, <2>2
    <3>3. B[k - (i - 1)] = s[k + 1]
      BY Zenon, <1>3, <3>2
    <3>4. ~(k < i)
      BY <1>1, <2>2
    <3> QED BY Zenon, <3>1, <3>3, <3>4
  <2>3. k < i \/ k >= i
    BY <1>1
  <2> QED BY Zenon, <2>1, <2>2, <2>3
<1>7. Len(R) = Len(s) - 1
  BY <1>1, <1>2, <1>3, <1>4
<1> QED BY Zenon, <1>4, <1>5, <1>6, <1>7

PushedOn(F, G, a, e) == G = [F EXCEPT ![a] = Append(@, e)]

\* push: one list is one longer, and nothing else moves.
LEMMA Pushed ==
  ASSUME NEW F \in [Addrs -> Seq(Entries)], NEW a \in Addrs, NEW e \in Entries, NEW G,
         PushedOn(F, G, a, e)
  PROVE  /\ G \in [Addrs -> Seq(Entries)]
         /\ \A b \in Addrs : Len(F[b]) \in Nat /\ (b # a => G[b] = F[b])
         /\ Len(G[a]) = Len(F[a]) + 1
         /\ \A k \in 1 .. Len(F[a]) : G[a][k] = F[a][k]
         /\ G[a][Len(F[a]) + 1] = e
<1>0. G = [F EXCEPT ![a] = Append(@, e)]
  BY Zenon DEF PushedOn
<1>1. \A b \in Addrs : F[b] \in Seq(Entries)
  BY Zenon
<1>2. \A b \in Addrs : Len(F[b]) \in Nat
  BY Zenon, <1>1, LenProperties
<1>3. /\ Append(F[a], e) \in Seq(Entries) /\ Len(Append(F[a], e)) = Len(F[a]) + 1
      /\ \A k \in 1 .. Len(F[a]) : Append(F[a], e)[k] = F[a][k]
      /\ Append(F[a], e)[Len(F[a]) + 1] = e
  BY <1>1, AppendProperties
<1>4. G[a] = Append(F[a], e) /\ \A b \in Addrs : b # a => G[b] = F[b]
  BY Zenon, <1>0
<1>5. G \in [Addrs -> Seq(Entries)]
  BY Zenon, <1>0, <1>3
<1> QED BY Zenon, <1>2, <1>3, <1>4, <1>5

RemovedFrom(F, G, a, n) == n \in 1 .. Len(F[a]) /\ G = [F EXCEPT ![a] = Without(@, n)]

\* remove: one list is one shorter, and those behind move up.
LEMMA Removed ==
  ASSUME NEW F \in [Addrs -> Seq(Entries)], NEW a \in Addrs, NEW i, NEW G,
         RemovedFrom(F, G, a, i)
  PROVE  /\ G \in [Addrs -> Seq(Entries)]
         /\ \A b \in Addrs : Len(F[b]) \in Nat /\ (b # a => G[b] = F[b])
         /\ Len(G[a]) = Len(F[a]) - 1
         /\ \A k \in 1 .. Len(F[a]) - 1 : G[a][k] = F[a][IF k < i THEN k ELSE k + 1]
<1>0. i \in 1 .. Len(F[a]) /\ G = [F EXCEPT ![a] = Without(@, i)]
  BY Zenon DEF RemovedFrom
<1>1. \A b \in Addrs : F[b] \in Seq(Entries)
  BY Zenon
<1>2. \A b \in Addrs : Len(F[b]) \in Nat
  BY Zenon, <1>1, LenProperties
<1>3. /\ Without(F[a], i) \in Seq(Entries) /\ Len(Without(F[a], i)) = Len(F[a]) - 1
      /\ \A k \in 1 .. Len(F[a]) - 1 : Without(F[a], i)[k] = F[a][IF k < i THEN k ELSE k + 1]
  BY Zenon, <1>0, <1>1, WithoutProperties
<1>4. G[a] = Without(F[a], i) /\ \A b \in Addrs : b # a => G[b] = F[b]
  BY Zenon, <1>0
<1>5. G \in [Addrs -> Seq(Entries)]
  BY Zenon, <1>0, <1>3
<1> QED BY Zenon, <1>2, <1>3, <1>4, <1>5

-----------------------------------------------------------------------------
(* The lists F, with the awoken flags w and the tasks x of the entries: each   *)
(* entry is there once, those ahead are woken first, and all of them exist.   *)
Once(F) ==
  \A a, b \in Addrs : \A i \in 1 .. Len(F[a]), j \in 1 .. Len(F[b]) :
    F[a][i] = F[b][j] => a = b /\ i = j
InOrder(F, w) ==
  \A a \in Addrs : \A i, j \in 1 .. Len(F[a]) : i < j /\ w[F[a][j]] => w[F[a][i]]
Exist(F, x) == \A a \in Addrs : \A k \in 1 .. Len(F[a]) : x[F[a][k]] # NoThread

Sound(F, w, x) == F \in [Addrs -> Seq(Entries)] /\ Once(F) /\ InOrder(F, w) /\ Exist(F, x)
NotOn(F, e) == \A b \in Addrs : \A k \in 1 .. Len(F[b]) : F[b][k] # e
\* Every entry of F other than e is on the same list of G.
Keeps(F, G, e) == \A b \in Addrs : \A k \in 1 .. Len(F[b]) :
  F[b][k] # e => \E j \in 1 .. Len(G[b]) : G[b][j] = F[b][k]

\* Once and InOrder are the two properties, said of any lists.
LEMMA SoundLists ==
  /\ QueuedOnce = Once(asleep_list)
  /\ NoOvertaking = InOrder(asleep_list, awoken)
BY Zenon DEF QueuedOnce, Once, NoOvertaking, InOrder

\* Sound lists after a step give the two properties after it.
LEMMA SoundNext ==
  ASSUME Sound(asleep_list', awoken', task'), \A e \in Entries : task'[e] = NoThread => ~awoken'[e]
  PROVE  EntriesExist' /\ QueuedOnce' /\ NoOvertaking'
BY Zenon DEF Sound, EntriesExist, Exist, QueuedOnce, Once, NoOvertaking, InOrder

\* push of an entry that is on no list and asleep.
LEMMA PushKeeps ==
  ASSUME NEW F, NEW G, NEW a \in Addrs, NEW e \in Entries, NEW w, NEW x,
         Sound(F, w, x), PushedOn(F, G, a, e), NotOn(F, e), ~w[e], x[e] # NoThread
  PROVE  Sound(G, w, x)
<1>0. /\ F \in [Addrs -> Seq(Entries)] /\ Once(F) /\ InOrder(F, w) /\ Exist(F, x)
      /\ G = [F EXCEPT ![a] = Append(@, e)]
      /\ \A b \in Addrs : \A k \in 1 .. Len(F[b]) : F[b][k] # e
  BY Zenon DEF Sound, PushedOn, NotOn
<1>1. /\ G \in [Addrs -> Seq(Entries)]
      /\ \A b \in Addrs : Len(F[b]) \in Nat /\ (b # a => G[b] = F[b])
      /\ Len(G[a]) = Len(F[a]) + 1
      /\ \A k \in 1 .. Len(F[a]) : G[a][k] = F[a][k]
      /\ G[a][Len(F[a]) + 1] = e
  BY <1>0, Pushed
<1>2. ASSUME NEW b \in Addrs, NEW k \in 1 .. Len(G[b])
      PROVE  \/ k \in 1 .. Len(F[b]) /\ G[b][k] = F[b][k]
             \/ b = a /\ k = Len(F[a]) + 1 /\ G[b][k] = e
  <2>1. CASE b # a
    BY Zenon, <1>1, <2>1
  <2>2. CASE b = a
    BY <1>1, <2>2
  <2> QED BY Zenon, <2>1, <2>2
<1>3. Once(G)
  <2> SUFFICES ASSUME NEW b \in Addrs, NEW c \in Addrs, NEW i \in 1 .. Len(G[b]),
                      NEW j \in 1 .. Len(G[c]), G[b][i] = G[c][j]
               PROVE  b = c /\ i = j
    BY Zenon DEF Once
  <2>1. \/ i \in 1 .. Len(F[b]) /\ G[b][i] = F[b][i]
        \/ b = a /\ i = Len(F[a]) + 1 /\ G[b][i] = e
    BY Zenon, <1>2
  <2>2. \/ j \in 1 .. Len(F[c]) /\ G[c][j] = F[c][j]
        \/ c = a /\ j = Len(F[a]) + 1 /\ G[c][j] = e
    BY Zenon, <1>2
  <2> QED BY <1>0, <2>1, <2>2 DEF Once
<1>4. InOrder(G, w)
  <2> SUFFICES ASSUME NEW b \in Addrs, NEW i \in 1 .. Len(G[b]), NEW j \in 1 .. Len(G[b]),
                      i < j, w[G[b][j]]
               PROVE  w[G[b][i]]
    BY Zenon DEF InOrder
  <2>1. j \in 1 .. Len(F[b]) /\ G[b][j] = F[b][j]
    BY Zenon, <1>0, <1>2
  <2>2. i \in 1 .. Len(F[b])
    BY <1>1, <2>1
  <2>3. G[b][i] = F[b][i]
    BY Zenon, <1>1, <2>2
  <2> QED BY Zenon, <1>0, <2>1, <2>2, <2>3 DEF InOrder
<1>5. Exist(G, x)
  BY <1>0, <1>2 DEF Exist
<1> QED BY Zenon, <1>1, <1>3, <1>4, <1>5 DEF Sound

\* remove; the entry that goes is then on no list.
LEMMA RemoveKeeps ==
  ASSUME NEW F, NEW G, NEW a \in Addrs, NEW n, NEW w, NEW x,
         Sound(F, w, x), RemovedFrom(F, G, a, n)
  PROVE  Sound(G, w, x) /\ NotOn(G, F[a][n]) /\ Keeps(F, G, F[a][n])
<1>0. /\ F \in [Addrs -> Seq(Entries)] /\ Once(F) /\ InOrder(F, w) /\ Exist(F, x)
      /\ n \in 1 .. Len(F[a]) /\ G = [F EXCEPT ![a] = Without(@, n)]
  BY Zenon DEF Sound, RemovedFrom
<1>a. F \in [Addrs -> Seq(Entries)]
  BY Zenon, <1>0
<1>1. /\ G \in [Addrs -> Seq(Entries)]
      /\ \A b \in Addrs : Len(F[b]) \in Nat /\ (b # a => G[b] = F[b])
      /\ Len(G[a]) = Len(F[a]) - 1
      /\ \A k \in 1 .. Len(F[a]) - 1 : G[a][k] = F[a][IF k < n THEN k ELSE k + 1]
  BY <1>a, Removed
<1> DEFINE From(b, k) == IF b # a \/ k < n THEN k ELSE k + 1
<1>2. ASSUME NEW b \in Addrs, NEW k \in 1 .. Len(G[b])
      PROVE  /\ From(b, k) \in 1 .. Len(F[b]) /\ G[b][k] = F[b][From(b, k)]
             /\ b = a => From(b, k) # n
  <2>1. CASE b # a
    BY Zenon, <1>0, <1>1, <2>1
  <2>2. CASE b = a
    <3>1. k \in 1 .. Len(F[a]) - 1
      BY Zenon, <1>0, <1>1, <2>2
    <3>2. From(b, k) = (IF k < n THEN k ELSE k + 1)
      BY Zenon, <2>2
    <3>3. G[b][k] = F[b][From(b, k)]
      BY Zenon, <1>0, <1>1, <2>2, <3>1, <3>2
    <3>4. From(b, k) \in 1 .. Len(F[b]) /\ From(b, k) # n
      BY <1>0, <1>1, <2>2, <3>1
    <3> QED BY Zenon, <3>3, <3>4
  <2> QED BY Zenon, <2>1, <2>2
<1>3. \A b \in Addrs : \A i, j \in 1 .. Len(G[b]) :
        /\ From(b, i) = From(b, j) => i = j
        /\ i < j => From(b, i) < From(b, j)
  <2> SUFFICES ASSUME NEW b \in Addrs, NEW i \in 1 .. Len(G[b]), NEW j \in 1 .. Len(G[b])
               PROVE  /\ From(b, i) = From(b, j) => i = j
                      /\ i < j => From(b, i) < From(b, j)
    BY Zenon
  <2>1. i \in Int /\ j \in Int /\ n \in Int
    BY <1>0, <1>1
  <2> QED BY <2>1
<1> HIDE DEF From
<1>4. Once(G)
  <2> SUFFICES ASSUME NEW b \in Addrs, NEW c \in Addrs, NEW i \in 1 .. Len(G[b]),
                      NEW j \in 1 .. Len(G[c]), G[b][i] = G[c][j]
               PROVE  b = c /\ i = j
    BY Zenon DEF Once
  <2>0. /\ From(b, i) \in 1 .. Len(F[b]) /\ G[b][i] = F[b][From(b, i)]
        /\ From(c, j) \in 1 .. Len(F[c]) /\ G[c][j] = F[c][From(c, j)]
    BY Zenon, <1>2
  <2>1. b = c /\ From(b, i) = From(c, j)
    BY <1>0, <2>0 DEF Once
  <2> QED BY Zenon, <1>3, <2>1
<1>5. InOrder(G, w)
  <2> SUFFICES ASSUME NEW b \in Addrs, NEW i \in 1 .. Len(G[b]), NEW j \in 1 .. Len(G[b]),
                      i < j, w[G[b][j]]
               PROVE  w[G[b][i]]
    BY Zenon DEF InOrder
  <2>1. From(b, i) < From(b, j)
    BY Zenon, <1>3
  <2> QED BY SMTT(40), <1>0, <1>2, <2>1 DEF InOrder
<1>6. Exist(G, x)
  <2> SUFFICES ASSUME NEW b \in Addrs, NEW k \in 1 .. Len(G[b]) PROVE x[G[b][k]] # NoThread
    BY Zenon DEF Exist
  <2>1. From(b, k) \in 1 .. Len(F[b]) /\ G[b][k] = F[b][From(b, k)]
    BY Zenon, <1>2
  <2> QED BY Zenon, <1>0, <2>1 DEF Exist
<1>7. ASSUME NEW b \in Addrs, NEW k \in 1 .. Len(G[b]) PROVE G[b][k] # F[a][n]
  <2>1. /\ From(b, k) \in 1 .. Len(F[b]) /\ G[b][k] = F[b][From(b, k)]
        /\ b = a => From(b, k) # n
    BY Zenon, <1>2
  <2> QED BY <1>0, <2>1 DEF Once
<1>8. ASSUME NEW b \in Addrs, NEW k \in 1 .. Len(F[b]), F[b][k] # F[a][n]
      PROVE  \E j \in 1 .. Len(G[b]) : G[b][j] = F[b][k]
  <2>1. CASE b # a
    BY Zenon, <1>0, <1>1, <2>1
  <2>2. CASE b = a /\ k < n
    <3>1. k \in 1 .. Len(F[a]) - 1 /\ k \in 1 .. Len(G[b]) /\ G[b][k] = F[b][k]
      BY <1>0, <1>1, <2>2
    <3> QED BY Zenon, <3>1
  <2>3. CASE b = a /\ k > n
    <3>1. k - 1 \in 1 .. Len(F[a]) - 1 /\ ~(k - 1 < n) /\ (k - 1) + 1 = k
      BY <1>0, <1>1, <2>3
    <3>2. k - 1 \in 1 .. Len(G[b]) /\ G[b][k - 1] = F[b][k]
      BY Zenon, <1>0, <1>1, <2>3, <3>1
    <3> QED BY Zenon, <3>2
  <2>4. b # a \/ k < n \/ k > n
    BY <1>0, <1>1, <1>8
  <2> QED BY Zenon, <2>1, <2>2, <2>3, <2>4
<1> QED BY Zenon, <1>1, <1>4, <1>5, <1>6, <1>7, <1>8 DEF Sound, NotOn, Keeps

\* A wake of the first sleeper of a list.
Woken(F, w, v, a, n) ==
  /\ n \in 1 .. Len(F[a])
  /\ \A k \in 1 .. Len(F[a]) : k < n => w[F[a][k]]
  /\ v = [w EXCEPT ![F[a][n]] = TRUE]

\* Waking the first entry that sleeps keeps the lists sound.
LEMMA WakeKeeps ==
  ASSUME NEW F, NEW a \in Addrs, NEW n, NEW w \in [Entries -> BOOLEAN], NEW v, NEW x,
         Sound(F, w, x), Woken(F, w, v, a, n)
  PROVE  Sound(F, v, x)
<1>0. /\ F \in [Addrs -> Seq(Entries)] /\ Once(F) /\ InOrder(F, w) /\ Exist(F, x)
  BY Zenon DEF Sound
<1>1. /\ \A b \in Addrs : Len(F[b]) \in Nat
      /\ \A b \in Addrs : \A k \in 1 .. Len(F[b]) : F[b][k] \in Entries
  BY Zenon, <1>0, ElementOfSeq, LenProperties
<1>2. /\ n \in 1 .. Len(F[a]) /\ \A k \in 1 .. Len(F[a]) : k < n => w[F[a][k]]
      /\ v[F[a][n]] /\ \A e \in Entries : e # F[a][n] => v[e] = w[e]
      /\ v \in [Entries -> BOOLEAN]
  BY Zenon, <1>1 DEF Woken
<1>3. \A e \in Entries : w[e] => v[e]
  BY Zenon, <1>2
<1>4. InOrder(F, v)
  <2> SUFFICES ASSUME NEW b \in Addrs, NEW i \in 1 .. Len(F[b]), NEW j \in 1 .. Len(F[b]),
                      i < j, v[F[b][j]]
               PROVE  v[F[b][i]]
    BY Zenon DEF InOrder
  <2>1. F[b][i] \in Entries /\ F[b][j] \in Entries
    BY Zenon, <1>1
  <2>2. CASE w[F[b][j]]
    BY Zenon, <1>0, <1>3, <2>1, <2>2 DEF InOrder
  <2>3. CASE ~w[F[b][j]]
    <3>1. F[b][j] = F[a][n]
      BY Zenon, <1>2, <2>1, <2>3
    <3>2. b = a /\ j = n
      BY <1>0, <1>2, <3>1 DEF Once
    <3> QED BY Zenon, <1>2, <1>3, <2>1, <3>2
  <2> QED BY Zenon, <2>2, <2>3
<1> QED BY Zenon, <1>0, <1>4 DEF Sound

-----------------------------------------------------------------------------
(* A step of t leaves the calls of the others in order.                       *)
LEMMA OthersKept ==
  ASSUME IInv, NEW t \in Tasks, NEW s \in Tasks, s # t, FutexConstants,
         fpc'[s] = fpc[s], call'[s] = call[s],
         \A a \in Addrs : lock[a] = s => lock'[a] = s /\ asleep_list'[a] = asleep_list[a],
         \A e \in Entries : awoken[e] => awoken'[e],
         \A e \in Entries : ~awoken[e] /\ ~awoken'[e] /\ (\E a \in Addrs : OnList(e, a)) =>
           \E a \in Addrs : OnList(e, a)'
  PROVE  CallOK(s)' /\ WalkInOrder(s)' /\ Reachable(s)'
<1>1. CallOK(s) /\ WalkInOrder(s) /\ Reachable(s) /\ Typed
  BY Zenon DEF IInv
<1>2. CallOK(s)'
  BY Zenon, <1>1 DEF CallOK
<1>3. WalkInOrder(s)'
  <2> SUFFICES ASSUME fpc[s] \in {"wake", "lock2", "requeue"},
                      call[s].awoken_count < call[s].value,
                      NEW k \in 1 .. Len(asleep_list'[call[s].addr]), k < call[s].i
               PROVE  awoken'[asleep_list'[call[s].addr][k]]
    BY Zenon DEF WalkInOrder
  <2>1. call[s].addr \in Addrs /\ asleep_list'[call[s].addr] = asleep_list[call[s].addr]
    BY Zenon, <1>1 DEF CallOK
  <2>2. awoken[asleep_list[call[s].addr][k]]
    BY Zenon, <1>1, <2>1 DEF WalkInOrder
  <2>3. asleep_list[call[s].addr][k] \in Entries
    BY Zenon, <1>1, <2>1, ElementOfSeq DEF Typed
  <2> QED BY Zenon, <2>1, <2>2, <2>3
<1>4. Reachable(s)'
  <2> SUFFICES ASSUME fpc[s] \in {"queued", "spin", "left"}, ~awoken'[call[s].entry]
               PROVE  \E a \in Addrs : OnList(call[s].entry, a)'
    BY Zenon DEF Reachable, OnList
  <2>1. call[s].entry \in Entries
    BY Zenon, <1>1 DEF CallOK
  <2>2. ~awoken[call[s].entry]
    BY Zenon, <2>1
  <2>3. \E a \in Addrs : OnList(call[s].entry, a)
    BY Zenon, <1>1, <2>2 DEF Reachable
  <2> QED BY Zenon, <2>1, <2>2, <2>3
<1> QED BY Zenon, <1>2, <1>3, <1>4

\* The same when the lists and the flags stay as they are.
LEMMA OthersIdle ==
  ASSUME IInv, NEW t \in Tasks, NEW s \in Tasks, s # t, FutexConstants,
         fpc'[s] = fpc[s], call'[s] = call[s],
         \A a \in Addrs : lock[a] = s => lock'[a] = s,
         UNCHANGED <<asleep_list, awoken>>
  PROVE  CallOK(s)' /\ WalkInOrder(s)' /\ Reachable(s)'
<1>1. \A e : \A a : OnList(e, a)' = OnList(e, a)
  BY Zenon DEF OnList
<1> QED BY Zenon, <1>1, OthersKept

\* A step that leaves lists, flags and tasks alone leaves them sound.
LEMMA ListsIdle ==
  ASSUME IInv, UNCHANGED <<asleep_list, awoken, task>>
  PROVE  EntriesExist' /\ QueuedOnce' /\ NoOvertaking'
<1>1. EntriesExist /\ QueuedOnce /\ NoOvertaking
  BY Zenon DEF IInv
<1>2. EntriesExist'
  BY Zenon, <1>1 DEF EntriesExist
<1>3. QueuedOnce'
  BY <1>1 DEF QueuedOnce
<1>4. NoOvertaking'
  BY Zenon, <1>1 DEF NoOvertaking
<1> QED BY Zenon, <1>2, <1>3, <1>4

-----------------------------------------------------------------------------
(* The inductive step, one lemma per operation.                               *)

\* Marking the task asleep, leaving the loop and a timeout keep the invariant.
LEMMA WaitSteps ==
  ASSUME IInv, FutexConstants, NEW t \in Tasks,
         WaitSleep(t) \/ WaitLeave(t) \/ Expire(t)
  PROVE  IInv'
<1>1. /\ fpc' \in [Tasks -> {"user", "queued", "spin", "left", "wake", "lock2", "requeue"}]
      /\ fpc'[t] = fpc[t] \/ (fpc[t] \in {"queued", "spin"} /\ fpc'[t] \in {"spin", "left"})
      /\ \A s \in Tasks : s # t => fpc'[s] = fpc[s]
      /\ UNCHANGED <<asleep_list, lock, awoken, task, call>>
  BY Zenon DEF IInv, Typed, WaitSleep, WaitLeave, Expire
<1>2. Typed'
  BY Zenon, <1>1 DEF IInv, Typed
<1>3. EntriesExist' /\ QueuedOnce' /\ NoOvertaking'
  BY Zenon, <1>1, ListsIdle
<1>4. CallOK(t)' /\ WalkInOrder(t)' /\ Reachable(t)'
  BY <1>1 DEF IInv, CallOK, WalkInOrder, Reachable, OnList
<1>5. ASSUME NEW s \in Tasks, s # t PROVE CallOK(s)' /\ WalkInOrder(s)' /\ Reachable(s)'
  BY Zenon, <1>1, <1>5, OthersIdle
<1> QED BY Zenon, <1>2, <1>3, <1>4, <1>5 DEF IInv

\* The calls as they begin.
LEMMA NewCall ==
  ASSUME FutexConstants, NEW a \in Addrs, NEW b \in Addrs \cup {NoThread}, NEW e \in Nat,
         NEW d \in BOOLEAN, NEW v \in Nat, NEW v3 \in Nat, NEW n \in Nat
  PROVE  /\ [NoCall EXCEPT !.addr = a, !.entry = e, !.timed = d] \in Calls
         /\ [NoCall EXCEPT !.addr = a, !.value = v, !.i = n] \in Calls
         /\ [NoCall EXCEPT !.addr = a, !.addr2 = b, !.value = v, !.value3 = v3, !.i = n] \in Calls
         /\ NoCall \in Calls
BY Zenon DEF NoCall, Calls

\* FUTEX_WAIT puts its entry last, behind everybody who came before.
LEMMA EnqueueStep ==
  ASSUME IInv, FutexConstants, NEW t \in Tasks, NEW a \in Addrs, NEW d \in BOOLEAN,
         WaitEnqueue(t, a, d)
  PROVE  IInv'
<1>0. Typed /\ EntriesExist /\ QueuedOnce /\ NoOvertaking
  BY Zenon DEF IInv
<1>1. PICK e \in Entries :
        /\ task[e] = NoThread
        /\ task' = [task EXCEPT ![e] = t]
        /\ asleep_list' = [asleep_list EXCEPT ![a] = Append(@, e)]
        /\ call' = [call EXCEPT ![t] = [NoCall EXCEPT !.addr = a, !.entry = e, !.timed = d]]
  BY Zenon DEF WaitEnqueue
<1>2. /\ fpc' = [fpc EXCEPT ![t] = "queued"] /\ lock[a] = NoThread
      /\ UNCHANGED <<lock, awoken>>
  BY Zenon DEF WaitEnqueue, Free
<1>3. /\ asleep_list' \in [Addrs -> Seq(Entries)]
      /\ \A b \in Addrs : Len(asleep_list[b]) \in Nat /\ (b # a => asleep_list'[b] = asleep_list[b])
      /\ Len(asleep_list'[a]) = Len(asleep_list[a]) + 1
      /\ \A k \in 1 .. Len(asleep_list[a]) : asleep_list'[a][k] = asleep_list[a][k]
      /\ asleep_list'[a][Len(asleep_list[a]) + 1] = e
  <2>1. asleep_list \in [Addrs -> Seq(Entries)] /\ PushedOn(asleep_list, asleep_list', a, e)
    BY Zenon, <1>0, <1>1 DEF Typed, PushedOn
  <2> QED BY <2>1, Pushed
<1>4. Typed'
  <2>1. e \in Nat
    BY SMTT(40) DEF Entries, FutexConstants
  <2>2. [NoCall EXCEPT !.addr = a, !.entry = e, !.timed = d] \in Calls
    BY Zenon, <2>1, NewCall
  <2>3. call' \in [Tasks -> Calls]
    BY Zenon, <1>0, <1>1, <2>2 DEF Typed
  <2> QED BY Zenon, <1>0, <1>1, <1>2, <1>3, <2>3 DEF Typed
<1>5. EntriesExist' /\ QueuedOnce' /\ NoOvertaking'
  <2>1. NotOn(asleep_list, e)
    BY Zenon, <1>0, <1>1 DEF EntriesExist, NotOn
  <2>2. \A b \in Addrs : \A k \in 1 .. Len(asleep_list[b]) : asleep_list[b][k] \in Entries
    BY Zenon, <1>0, ElementOfSeq DEF Typed
  <2>3. Exist(asleep_list, task')
    BY Zenon, <1>0, <1>1, <2>1, <2>2 DEF Exist, EntriesExist, Typed, NotOn
  <2>4. Sound(asleep_list, awoken, task')
    BY Zenon, <1>0, <2>3, SoundLists DEF Sound, Typed
  <2>5. ~awoken[e] /\ task'[e] # NoThread
    BY Zenon, <1>0, <1>1 DEF EntriesExist, Typed, FutexConstants
  <2>6. PushedOn(asleep_list, asleep_list', a, e)
    BY Zenon, <1>1 DEF PushedOn
  <2>7. Sound(asleep_list', awoken, task')
    BY Zenon, <2>1, <2>4, <2>5, <2>6, PushKeeps
  <2>8. \A f \in Entries : task'[f] = NoThread => ~awoken'[f]
    BY Zenon, <1>0, <1>1, <1>2 DEF EntriesExist, Typed
  <2>9. Sound(asleep_list', awoken', task')
    BY Zenon, <1>2, <2>7
  <2> QED BY Zenon, <2>8, <2>9, SoundNext
<1>6. \A f : \A b \in Addrs : OnList(f, b) => OnList(f, b)'
  <2> SUFFICES ASSUME NEW f, NEW b \in Addrs, NEW k \in 1 .. Len(asleep_list[b]),
                      asleep_list[b][k] = f
               PROVE  \E j \in 1 .. Len(asleep_list'[b]) : asleep_list'[b][j] = f
    BY Zenon DEF OnList
  <2>1. k \in 1 .. Len(asleep_list'[b]) /\ asleep_list'[b][k] = f
    BY <1>3
  <2> QED BY Zenon, <2>1
<1>7. CallOK(t)' /\ WalkInOrder(t)' /\ Reachable(t)'
  <2>1. fpc'[t] = "queued" /\ call'[t].addr = a /\ call'[t].entry = e
    BY Zenon, <1>0, <1>1, <1>2 DEF Typed, NoCall
  <2>2. OnList(e, a)'
    <3>1. Len(asleep_list[a]) + 1 \in 1 .. Len(asleep_list'[a])
      BY <1>3
    <3> QED BY Zenon, <1>3, <3>1 DEF OnList
  <2> QED BY Zenon, <2>1, <2>2 DEF CallOK, WalkInOrder, Reachable
<1>8. ASSUME NEW s \in Tasks, s # t PROVE CallOK(s)' /\ WalkInOrder(s)' /\ Reachable(s)'
  <2>1. fpc'[s] = fpc[s] /\ call'[s] = call[s]
    BY Zenon, <1>0, <1>1, <1>2, <1>8 DEF Typed
  <2>2. \A b \in Addrs : lock[b] = s => lock'[b] = s /\ asleep_list'[b] = asleep_list[b]
    BY Zenon, <1>2, <1>3 DEF FutexConstants
  <2> QED BY Zenon, <1>2, <1>6, <1>8, <2>1, <2>2, OthersKept
<1> QED BY Zenon, <1>4, <1>5, <1>7, <1>8 DEF IInv

\* FUTEX_WAIT takes its own entry from the list it is on by then.
LEMMA FinishStep ==
  ASSUME IInv, FutexConstants, NEW t \in Tasks, WaitFinish(t)
  PROVE  IInv'
<1> DEFINE a == call[t].addr
           e == call[t].entry
<1>0. Typed /\ EntriesExist /\ QueuedOnce /\ NoOvertaking /\ CallOK(t)
  BY Zenon DEF IInv
<1>1. /\ fpc[t] = "left" /\ lock[a] = NoThread /\ a \in Addrs /\ e \in Entries
      /\ asleep_list' = [asleep_list EXCEPT ![a] = IF awoken[e] THEN Unqueued(@, e) ELSE @]
      /\ lock' = lock
      /\ fpc' = [fpc EXCEPT ![t] = "user"]
      /\ call' = [call EXCEPT ![t] = NoCall]
      /\ UNCHANGED <<awoken, task>>
  BY Zenon, <1>0 DEF WaitFinish, Free, Unlocked, CallOK, Typed
<1> HIDE DEF a, e
<1>2. CallOK(t)' /\ WalkInOrder(t)' /\ Reachable(t)'
  BY Zenon, <1>0, <1>1 DEF CallOK, WalkInOrder, Reachable, Typed
<1>3. NoCall \in Calls
  BY Zenon DEF NoCall, Calls
<1>4. call' \in [Tasks -> Calls] /\ fpc' \in [Tasks -> {"user", "queued", "spin", "left", "wake", "lock2", "requeue"}]
  BY Zenon, <1>0, <1>1, <1>3 DEF Typed
<1>5. \A s \in Tasks : s # t => fpc'[s] = fpc[s] /\ call'[s] = call[s]
  BY Zenon, <1>0, <1>1 DEF Typed
<1>6. CASE asleep_list' = asleep_list
  <2>1. Typed'
    BY Zenon, <1>0, <1>1, <1>4, <1>6 DEF Typed
  <2>2. EntriesExist' /\ QueuedOnce' /\ NoOvertaking'
    BY Zenon, <1>1, <1>6, ListsIdle
  <2>3. ASSUME NEW s \in Tasks, s # t PROVE CallOK(s)' /\ WalkInOrder(s)' /\ Reachable(s)'
    BY Zenon, <1>1, <1>5, <1>6, <2>3, OthersIdle
  <2> QED BY Zenon, <1>2, <2>1, <2>2, <2>3 DEF IInv
<1>7. ASSUME awoken[e], NEW n \in 1 .. Len(asleep_list[a]), asleep_list[a][n] = e,
             asleep_list' = [asleep_list EXCEPT ![a] = Without(@, n)]
      PROVE  IInv'
  <2>1. /\ asleep_list' \in [Addrs -> Seq(Entries)]
        /\ \A b \in Addrs : b # a => asleep_list'[b] = asleep_list[b]
    <3>1. asleep_list \in [Addrs -> Seq(Entries)] /\ a \in Addrs
      BY Zenon, <1>0, <1>1 DEF Typed
    <3>2. RemovedFrom(asleep_list, asleep_list', a, n)
      BY Zenon, <1>7 DEF RemovedFrom
    <3> QED BY <3>1, <3>2, Removed
  <2>2. Typed'
    BY Zenon, <1>0, <1>1, <1>4, <2>1 DEF Typed
  <2>3. Sound(asleep_list, awoken, task)
    BY SMTT(40), <1>0, SoundLists DEF EntriesExist, Exist, Sound, Typed
  <2>4. RemovedFrom(asleep_list, asleep_list', a, n)
    BY Zenon, <1>7 DEF RemovedFrom
  <2>5. Sound(asleep_list', awoken, task) /\ Keeps(asleep_list, asleep_list', asleep_list[a][n])
    BY Zenon, <1>1, <2>3, <2>4, RemoveKeeps
  <2>6. EntriesExist' /\ QueuedOnce' /\ NoOvertaking'
    <3>1. Sound(asleep_list', awoken', task')
      BY Zenon, <1>1, <2>5
    <3>2. \A f \in Entries : task'[f] = NoThread => ~awoken'[f]
      BY Zenon, <1>0, <1>1 DEF EntriesExist
    <3> QED BY Zenon, <3>1, <3>2, SoundNext
  <2>7. ASSUME NEW f \in Entries, ~awoken[f], NEW b \in Addrs, OnList(f, b) PROVE OnList(f, b)'
    BY <1>7, <2>5, <2>7 DEF OnList, Keeps
  <2>8. ASSUME NEW s \in Tasks, s # t PROVE CallOK(s)' /\ WalkInOrder(s)' /\ Reachable(s)'
    <3>1. \A b \in Addrs : lock[b] = s => lock'[b] = s /\ asleep_list'[b] = asleep_list[b]
      BY SMTT(40), <1>1, <2>1 DEF FutexConstants
    <3> QED BY Zenon, <1>1, <1>5, <2>7, <2>8, <3>1, OthersKept
  <2> QED BY Zenon, <1>2, <2>2, <2>6, <2>8 DEF IInv
<1>8. CASE awoken[e] /\ \E k \in 1 .. Len(asleep_list[a]) : asleep_list[a][k] = e
  <2> DEFINE n == CHOOSE k \in 1 .. Len(asleep_list[a]) : asleep_list[a][k] = e
  <2>1. n \in 1 .. Len(asleep_list[a]) /\ asleep_list[a][n] = e
    BY Zenon, <1>8
  <2>2. asleep_list' = [asleep_list EXCEPT ![a] = Without(@, n)]
    BY Zenon, <1>1, <1>8 DEF Unqueued
  <2> HIDE DEF n
  <2> QED BY Zenon, <1>7, <1>8, <2>1, <2>2
<1>9. CASE ~(awoken[e] /\ \E k \in 1 .. Len(asleep_list[a]) : asleep_list[a][k] = e)
  <2>1. asleep_list' = asleep_list
    BY Zenon, <1>0, <1>1, <1>9 DEF Unqueued, Typed
  <2> QED BY Zenon, <1>6, <2>1
<1> QED BY Zenon, <1>8, <1>9

\* A call that gets a futex's lock, knowing nothing of the list yet, keeps the invariant:
LEMMA LockSteps ==
  ASSUME IInv, FutexConstants, NEW t \in Tasks, NEW a \in Addrs, lock[a] = NoThread,
         lock' = [lock EXCEPT ![a] = t],
         NEW c \in Calls, call' = [call EXCEPT ![t] = c],
         NEW p \in {"wake", "lock2", "requeue"}, fpc' = [fpc EXCEPT ![t] = p],
         UNCHANGED <<asleep_list, awoken, task>>,
         (CallOK(t) /\ WalkInOrder(t) /\ Reachable(t))'
  PROVE  IInv'
<1>1. Typed'
  BY Zenon DEF IInv, Typed
<1>2. EntriesExist' /\ QueuedOnce' /\ NoOvertaking'
  BY Zenon, ListsIdle
<1>3. ASSUME NEW s \in Tasks, s # t PROVE CallOK(s)' /\ WalkInOrder(s)' /\ Reachable(s)'
  <2>1. fpc'[s] = fpc[s] /\ call'[s] = call[s]
    BY Zenon, <1>3 DEF IInv, Typed
  <2>2. \A b \in Addrs : lock[b] = s => lock'[b] = s
    BY Zenon DEF IInv, Typed, FutexConstants
  <2> QED BY Zenon, <1>3, <2>1, <2>2, OthersIdle
<1> QED BY Zenon, <1>1, <1>2, <1>3 DEF IInv

\* so FUTEX_WAKE,
LEMMA WakeLockStep ==
  ASSUME IInv, FutexConstants, NEW t \in Tasks, NEW a \in Addrs, NEW v \in Nat, WakeLock(t, a, v)
  PROVE  IInv'
<1> DEFINE c == [NoCall EXCEPT !.addr = a, !.value = v, !.i = 1]
<1>1. c \in Calls /\ c.addr = a /\ c.i = 1
  BY Zenon DEF NoCall, Calls
<1>2. /\ lock[a] = NoThread /\ lock' = [lock EXCEPT ![a] = t]
      /\ call' = [call EXCEPT ![t] = c] /\ fpc' = [fpc EXCEPT ![t] = "wake"]
      /\ UNCHANGED <<asleep_list, awoken, task>>
  BY Zenon DEF WakeLock, Free
<1> HIDE DEF c
<1>3. call'[t] = c /\ fpc'[t] = "wake" /\ lock'[a] = t
  BY Zenon, <1>2 DEF IInv, Typed
<1>4. (CallOK(t) /\ WalkInOrder(t) /\ Reachable(t))'
  BY SMTT(40), <1>1, <1>3 DEF CallOK, WalkInOrder, Reachable
<1> QED BY Zenon, <1>1, <1>2, <1>4, LockSteps

\* the first lock of FUTEX_REQUEUE,
LEMMA RequeueLockStep ==
  ASSUME IInv, FutexConstants, NEW t \in Tasks, NEW p \in RequeuePairs,
         NEW v \in Nat, NEW v3 \in Nat, RequeueLock(t, p, v, v3)
  PROVE  IInv'
<1> DEFINE c == [NoCall EXCEPT !.addr = p[1], !.addr2 = p[2], !.value = v, !.value3 = v3, !.i = 1]
<1>0. p[1] \in Addrs /\ p[2] \in Addrs
  BY Zenon DEF FutexConstants
<1>1. c \in Calls /\ c.addr = p[1] /\ c.addr2 = p[2] /\ c.i = 1
  BY Zenon, <1>0 DEF NoCall, Calls
<1>2. /\ lock[p[1]] = NoThread /\ lock' = [lock EXCEPT ![p[1]] = t]
      /\ call' = [call EXCEPT ![t] = c] /\ fpc' = [fpc EXCEPT ![t] = "lock2"]
      /\ UNCHANGED <<asleep_list, awoken, task>>
  BY Zenon DEF RequeueLock, Free
<1> HIDE DEF c
<1>3. call'[t] = c /\ fpc'[t] = "lock2" /\ lock'[p[1]] = t
  BY Zenon, <1>0, <1>2 DEF IInv, Typed
<1>4. (CallOK(t) /\ WalkInOrder(t) /\ Reachable(t))'
  BY <1>0, <1>1, <1>3 DEF CallOK, WalkInOrder, Reachable
<1> QED BY Zenon, <1>0, <1>1, <1>2, <1>4, LockSteps

\* and its second.
LEMMA RequeueLock2Step ==
  ASSUME IInv, FutexConstants, NEW t \in Tasks, RequeueLock2(t)
  PROVE  IInv'
<1> DEFINE c == call[t]
<1>0. Typed /\ CallOK(t) /\ WalkInOrder(t)
  BY Zenon DEF IInv
<1>1. /\ c \in Calls /\ c.addr \in Addrs /\ c.addr2 \in Addrs /\ lock[c.addr] = t
      /\ fpc[t] = "lock2" /\ c.i >= 1 /\ lock[c.addr2] = NoThread
      /\ lock' = [lock EXCEPT ![c.addr2] = t]
      /\ fpc' = [fpc EXCEPT ![t] = "requeue"] /\ call' = call
      /\ UNCHANGED <<asleep_list, awoken, task>>
  BY Zenon, <1>0 DEF RequeueLock2, Free, CallOK, Typed
<1>2. call' = [call EXCEPT ![t] = c] /\ call'[t] = c
  BY Zenon, <1>0, <1>1 DEF Typed
<1>3. fpc'[t] = "requeue" /\ lock'[c.addr2] = t /\ lock'[c.addr] = t /\ c.addr # c.addr2
  BY Zenon, <1>0, <1>1 DEF Typed, FutexConstants
<1>4. (CallOK(t) /\ WalkInOrder(t) /\ Reachable(t))'
  BY Zenon, <1>0, <1>1, <1>2, <1>3 DEF CallOK, WalkInOrder, Reachable
<1> HIDE DEF c
<1> QED BY ZenonT(60), <1>1, <1>2, <1>4, LockSteps

\* WAKE and REQUEUE return: the locks they held are free again.
LEMMA WakerReturnStep ==
  ASSUME IInv, FutexConstants, NEW t \in Tasks, WakerReturn(t)
  PROVE  IInv'
<1>0. Typed
  BY Zenon DEF IInv
<1>1. /\ lock' = [a \in Addrs |-> IF lock[a] = t THEN NoThread ELSE lock[a]]
      /\ fpc' = [fpc EXCEPT ![t] = "user"]
      /\ call' = [call EXCEPT ![t] = NoCall]
      /\ UNCHANGED <<asleep_list, awoken, task>>
  BY Zenon DEF WakerReturn
<1>2. NoCall \in Calls
  BY Zenon DEF NoCall, Calls
<1>3. Typed'
  BY Zenon, <1>0, <1>1, <1>2 DEF Typed
<1>4. EntriesExist' /\ QueuedOnce' /\ NoOvertaking'
  BY Zenon, <1>1, ListsIdle
<1>5. CallOK(t)' /\ WalkInOrder(t)' /\ Reachable(t)'
  BY Zenon, <1>0, <1>1 DEF CallOK, WalkInOrder, Reachable, Typed
<1>6. ASSUME NEW s \in Tasks, s # t PROVE CallOK(s)' /\ WalkInOrder(s)' /\ Reachable(s)'
  <2>1. fpc'[s] = fpc[s] /\ call'[s] = call[s]
    BY Zenon, <1>0, <1>1, <1>6 DEF Typed
  <2>2. \A b \in Addrs : lock[b] = s => lock'[b] = s
    BY Zenon, <1>1, <1>6
  <2> QED BY Zenon, <1>1, <1>6, <2>1, <2>2, OthersIdle
<1> QED BY Zenon, <1>3, <1>4, <1>5, <1>6 DEF IInv

\* A walk that wakes an entry steps on and counts it,
LEMMA CallUpdates ==
  ASSUME NEW c \in Calls, NEW d, d = [c EXCEPT !.i = @ + 1, !.awoken_count = @ + 1]
  PROVE  /\ d \in Calls /\ d.addr = c.addr /\ d.addr2 = c.addr2 /\ d.i = c.i + 1
         /\ d.value = c.value /\ d.awoken_count = c.awoken_count + 1
<1>1. c.i + 1 \in Nat /\ c.awoken_count + 1 \in Nat
  BY DEF Calls
<1>2. d = [addr |-> c.addr, addr2 |-> c.addr2, entry |-> c.entry, timed |-> c.timed,
           value |-> c.value, value3 |-> c.value3, i |-> c.i + 1,
           awoken_count |-> c.awoken_count + 1, moved_count |-> c.moved_count]
  BY Zenon DEF Calls
<1> QED BY Zenon, <1>1, <1>2 DEF Calls

\* A walk wakes the entry it has come to.
LEMMA WakesEntry ==
  ASSUME IInv, FutexConstants, NEW t \in Tasks, fpc[t] \in {"wake", "requeue"},
         NEW e, e = asleep_list[call[t].addr][call[t].i],
         call[t].i <= Len(asleep_list[call[t].addr]),
         call[t].awoken_count < call[t].value,
         awoken' = [awoken EXCEPT ![e] = TRUE],
         call' = [call EXCEPT ![t].i = @ + 1, ![t].awoken_count = @ + 1],
         UNCHANGED <<asleep_list, lock, task, fpc>>
  PROVE  IInv'
<1> DEFINE c == call[t]
           a == c.addr
           n == c.i
<1>0. Typed /\ EntriesExist /\ QueuedOnce /\ NoOvertaking /\ CallOK(t) /\ WalkInOrder(t)
  BY Zenon DEF IInv
<1>1. c \in Calls /\ a \in Addrs /\ asleep_list[a] \in Seq(Entries) /\ n \in 1 .. Len(asleep_list[a])
  <2>1. c \in Calls /\ a \in Addrs /\ n >= 1 /\ asleep_list[a] \in Seq(Entries) /\ n \in Nat
    BY Zenon, <1>0 DEF Typed, CallOK, Calls
  <2> QED BY <2>1, LenProperties
<1>2. e \in Entries
  BY Zenon, <1>1, ElementOfSeq
<1>3. call'[t] = [c EXCEPT !.i = @ + 1, !.awoken_count = @ + 1]
  BY SMTT(40), <1>0 DEF Typed
<1>4. /\ call'[t] \in Calls /\ call'[t].addr = a /\ call'[t].addr2 = c.addr2 /\ call'[t].i = n + 1
      /\ call'[t].value = c.value /\ call'[t].awoken_count = c.awoken_count + 1
  BY Zenon, <1>1, <1>3, CallUpdates
<1>5. call' \in [Tasks -> Calls] /\ \A s \in Tasks : s # t => call'[s] = call[s]
  BY Zenon, <1>0, <1>4 DEF Typed
<1>6. awoken' \in [Entries -> BOOLEAN] /\ awoken'[e] /\ \A f \in Entries : awoken[f] => awoken'[f]
  BY Zenon, <1>0, <1>2 DEF Typed
<1>7. Typed'
  BY Zenon, <1>0, <1>5, <1>6 DEF Typed
<1>8. \A k \in 1 .. Len(asleep_list[a]) : k < n => awoken[asleep_list[a][k]]
  BY SMTT(40), <1>0 DEF WalkInOrder
<1>9. EntriesExist' /\ QueuedOnce' /\ NoOvertaking'
  <2>1. Sound(asleep_list, awoken, task) /\ awoken \in [Entries -> BOOLEAN]
    BY Zenon, <1>0, SoundLists DEF EntriesExist, Exist, Sound, Typed
  <2>2. Woken(asleep_list, awoken, awoken', a, n)
    BY Zenon, <1>1, <1>8 DEF Woken
  <2> HIDE DEF a, n, c
  <2>3. Sound(asleep_list, awoken', task)
    BY Zenon, <1>1, <2>1, <2>2, WakeKeeps
  <2>4. Sound(asleep_list', awoken', task')
    BY Zenon, <2>3
  <2>5. task[e] # NoThread
    BY Zenon, <1>0, <1>1 DEF EntriesExist, n, a, c
  <2>6. \A f \in Entries : task'[f] = NoThread => ~awoken'[f]
    BY Zenon, <1>0, <1>2, <2>5 DEF EntriesExist, Typed
  <2> QED BY Zenon, <2>4, <2>6, SoundNext
<1>10. CallOK(t)' /\ Reachable(t)'
  BY <1>0, <1>1, <1>4 DEF CallOK, Reachable
<1>11. WalkInOrder(t)'
  <2> SUFFICES ASSUME NEW k \in 1 .. Len(asleep_list[a]), k < n + 1
               PROVE  awoken'[asleep_list[a][k]]
    BY Zenon, <1>4 DEF WalkInOrder
  <2>1. asleep_list[a][k] \in Entries /\ (k < n \/ k = n)
    BY <1>1, ElementOfSeq, LenProperties
  <2> QED BY SMTT(40), <1>6, <1>8, <2>1
<1>12. ASSUME NEW s \in Tasks, s # t PROVE CallOK(s)' /\ WalkInOrder(s)' /\ Reachable(s)'
  <2>1. \A f : \A b : OnList(f, b)' = OnList(f, b)
    BY Zenon DEF OnList
  <2> QED BY Zenon, <1>5, <1>6, <1>12, <2>1, OthersKept
<1> QED BY Zenon, <1>7, <1>9, <1>10, <1>11, <1>12 DEF IInv

\* one that passes an entry steps on,
LEMMA StepUpdates ==
  ASSUME NEW c \in Calls, NEW d, d = [c EXCEPT !.i = @ + 1]
  PROVE  /\ d \in Calls /\ d.addr = c.addr /\ d.addr2 = c.addr2 /\ d.i = c.i + 1
         /\ d.value = c.value /\ d.awoken_count = c.awoken_count
<1>1. c.i + 1 \in Nat
  BY DEF Calls
<1>2. d = [addr |-> c.addr, addr2 |-> c.addr2, entry |-> c.entry, timed |-> c.timed,
           value |-> c.value, value3 |-> c.value3, i |-> c.i + 1,
           awoken_count |-> c.awoken_count, moved_count |-> c.moved_count]
  BY Zenon DEF Calls
<1> QED BY Zenon, <1>1, <1>2 DEF Calls

\* A walk passes over an entry that is awake, or for which it has no wake left.
LEMMA PassesEntry ==
  ASSUME IInv, FutexConstants, NEW t \in Tasks, fpc[t] \in {"wake", "requeue"},
         NEW e, e = asleep_list[call[t].addr][call[t].i],
         call[t].i <= Len(asleep_list[call[t].addr]),
         awoken[e] \/ ~(call[t].awoken_count < call[t].value),
         call' = [call EXCEPT ![t].i = @ + 1],
         UNCHANGED <<asleep_list, lock, task, fpc, awoken>>
  PROVE  IInv'
<1> DEFINE c == call[t]
           a == c.addr
           n == c.i
<1>0. Typed /\ CallOK(t) /\ WalkInOrder(t)
  BY Zenon DEF IInv
<1>1. c \in Calls /\ a \in Addrs /\ asleep_list[a] \in Seq(Entries) /\ n \in Nat
  BY Zenon, <1>0 DEF Typed, CallOK, Calls
<1>3. call'[t] = [c EXCEPT !.i = @ + 1]
  BY Zenon, <1>0 DEF Typed
<1>4. /\ call'[t] \in Calls /\ call'[t].addr = a /\ call'[t].addr2 = c.addr2 /\ call'[t].i = n + 1
      /\ call'[t].value = c.value /\ call'[t].awoken_count = c.awoken_count
  BY Zenon, <1>1, <1>3, StepUpdates
<1>5. call' \in [Tasks -> Calls] /\ \A s \in Tasks : s # t => call'[s] = call[s]
  BY Zenon, <1>0, <1>4 DEF Typed
<1>7. Typed'
  BY Zenon, <1>0, <1>5 DEF Typed
<1>9. EntriesExist' /\ QueuedOnce' /\ NoOvertaking'
  BY Zenon, ListsIdle
<1>10. CallOK(t)' /\ Reachable(t)'
  <2>1. fpc'[t] \in {"wake", "requeue"} /\ n >= 1 /\ call'[t].i >= 1
    BY <1>0, <1>1, <1>4 DEF CallOK
  <2> QED BY Zenon, <1>0, <1>4, <2>1 DEF CallOK, Reachable
<1>11. WalkInOrder(t)'
  <2> SUFFICES ASSUME NEW k \in 1 .. Len(asleep_list[a]), k < n + 1, c.awoken_count < c.value
               PROVE  awoken[asleep_list[a][k]]
    BY Zenon, <1>4 DEF WalkInOrder
  <2>1. k < n \/ k = n
    BY <1>1, LenProperties
  <2> QED BY Zenon, <1>0, <2>1 DEF WalkInOrder
<1>12. ASSUME NEW s \in Tasks, s # t PROVE CallOK(s)' /\ WalkInOrder(s)' /\ Reachable(s)'
  BY Zenon, <1>5, <1>12, OthersIdle
<1> QED BY Zenon, <1>7, <1>9, <1>10, <1>11, <1>12 DEF IInv

\* What moving an entry does to the lists and to the call.
MovesNow(t, e) ==
  /\ asleep_list' = [asleep_list EXCEPT ![call[t].addr] = Without(@, call[t].i),
                                        ![call[t].addr2] = Append(@, e)]
  /\ call' = [call EXCEPT ![t].moved_count = @ + 1]

\* one that moves an entry stays where it is and counts it.
LEMMA MoveUpdates ==
  ASSUME NEW c \in Calls, NEW d, d = [c EXCEPT !.moved_count = @ + 1]
  PROVE  /\ d \in Calls /\ d.addr = c.addr /\ d.addr2 = c.addr2 /\ d.i = c.i
         /\ d.value = c.value /\ d.awoken_count = c.awoken_count
<1>1. c.moved_count + 1 \in Nat
  BY DEF Calls
<1>2. d = [addr |-> c.addr, addr2 |-> c.addr2, entry |-> c.entry, timed |-> c.timed,
           value |-> c.value, value3 |-> c.value3, i |-> c.i,
           awoken_count |-> c.awoken_count, moved_count |-> c.moved_count + 1]
  BY SMTT(40) DEF Calls
<1> QED BY Zenon, <1>1, <1>2 DEF Calls

\* A requeue moves a sleeping entry, once its wakes are used up, to the end of the
\* second futex's list.
Moving(t, e) ==
  /\ fpc[t] = "requeue" /\ e = asleep_list[call[t].addr][call[t].i]
  /\ call[t].i <= Len(asleep_list[call[t].addr])
  /\ ~awoken[e] /\ ~(call[t].awoken_count < call[t].value)
  /\ MovesNow(t, e) /\ UNCHANGED <<lock, task, fpc, awoken>>

\* Moving an entry from the first list to the end of the second keeps the invariant.
LEMMA MovesEntry ==
  ASSUME IInv, FutexConstants, NEW t \in Tasks, NEW e, Moving(t, e)
  PROVE  IInv'
<1> DEFINE c == call[t]
           a == c.addr
           b == c.addr2
           n == c.i
<1>0. Typed /\ EntriesExist /\ QueuedOnce /\ NoOvertaking /\ CallOK(t)
  BY Zenon DEF IInv
<1>m. fpc[t] = "requeue" /\ e = asleep_list[a][n] /\ n <= Len(asleep_list[a])
  BY Zenon DEF Moving
<1>w. ~awoken[e] /\ ~(c.awoken_count < c.value)
  BY Zenon DEF Moving
<1>n. MovesNow(t, e)
  BY Zenon DEF Moving
<1>u. UNCHANGED <<lock, task, fpc, awoken>>
  BY Zenon DEF Moving
<1>1. /\ c \in Calls /\ a \in Addrs /\ b \in Addrs /\ lock[a] = t /\ lock[b] = t /\ a # b
      /\ asleep_list \in [Addrs -> Seq(Entries)] /\ n \in 1 .. Len(asleep_list[a])
  <2>1. c \in Calls /\ asleep_list \in [Addrs -> Seq(Entries)]
    BY Zenon, <1>0 DEF Typed
  <2>2. a \in Addrs /\ b \in Addrs /\ lock[a] = t /\ lock[b] = t /\ a # b /\ n >= 1
    BY Zenon, <1>0, <1>m DEF CallOK
  <2>3. n \in Nat
    BY Zenon, <2>1 DEF Calls
  <2>4. Len(asleep_list[a]) \in Nat
    BY Zenon, <2>1, <2>2, LenProperties
  <2> QED BY <1>m, <2>1, <2>2, <2>3, <2>4
<1>2. e \in Entries
  BY Zenon, <1>1, <1>m, ElementOfSeq
<1>3. call' = [call EXCEPT ![t] = call'[t]] /\ call'[t] = [c EXCEPT !.moved_count = @ + 1]
  BY Zenon, <1>0, <1>n DEF Typed, MovesNow
<1>4. /\ call'[t] \in Calls /\ call'[t].addr = a /\ call'[t].addr2 = b /\ call'[t].i = n
      /\ call'[t].value = c.value /\ call'[t].awoken_count = c.awoken_count
  BY Zenon, <1>1, <1>3, MoveUpdates
<1>5. call' \in [Tasks -> Calls] /\ \A s \in Tasks : s # t => call'[s] = call[s]
  BY Zenon, <1>0, <1>3, <1>4 DEF Typed
<1> DEFINE G == [asleep_list EXCEPT ![a] = Without(@, n)]
<1>6. RemovedFrom(asleep_list, G, a, n) /\ PushedOn(G, asleep_list', b, e)
  BY ZenonT(60), <1>1, <1>n DEF RemovedFrom, PushedOn, MovesNow
<1>e. e = asleep_list[a][n]
  BY Zenon, <1>m
<1> HIDE DEF a, b, n, c, G
<1>7. Sound(asleep_list, awoken, task) /\ task[e] # NoThread
  BY SMTT(40), <1>0, <1>1, <1>e, SoundLists DEF EntriesExist, Exist, Sound, Typed
<1>8. Sound(G, awoken, task) /\ NotOn(G, e) /\ Keeps(asleep_list, G, e)
  BY SMTT(40), <1>1, <1>6, <1>7, <1>e, RemoveKeeps
<1>9. Sound(asleep_list', awoken, task)
  BY ZenonT(60), <1>1, <1>2, <1>6, <1>7, <1>8, <1>w, PushKeeps
<1>10. Typed'
  BY Zenon, <1>0, <1>5, <1>9, <1>u DEF Typed, Sound
<1>11. EntriesExist' /\ QueuedOnce' /\ NoOvertaking'
  <2>1. Sound(asleep_list', awoken', task')
    BY Zenon, <1>9, <1>u
  <2>2. \A f \in Entries : task'[f] = NoThread => ~awoken'[f]
    BY Zenon, <1>0, <1>u DEF EntriesExist
  <2> QED BY Zenon, <2>1, <2>2, SoundNext
<1>12. CallOK(t)' /\ WalkInOrder(t)' /\ Reachable(t)'
  BY Zenon, <1>0, <1>1, <1>4, <1>m, <1>u, <1>w DEF CallOK, WalkInOrder, Reachable, a, b, c, n
<1>13. /\ \A d \in Addrs : d # a => G[d] = asleep_list[d]
       /\ G \in [Addrs -> Seq(Entries)]
  <2>1. /\ asleep_list \in [Addrs -> Seq(Entries)] /\ a \in Addrs
        /\ RemovedFrom(asleep_list, G, a, n)
    BY SMTT(40), <1>1, <1>6
  <2>2. /\ G \in [Addrs -> Seq(Entries)]
        /\ \A d \in Addrs : Len(asleep_list[d]) \in Nat /\ (d # a => G[d] = asleep_list[d])
    BY <2>1, Removed, SMTT(40)
  <2> QED BY SMTT(40), <2>2
<1>14. /\ \A d \in Addrs : d # b => asleep_list'[d] = G[d]
       /\ Len(G[b]) \in Nat /\ Len(asleep_list'[b]) = Len(G[b]) + 1
       /\ \A k \in 1 .. Len(G[b]) : asleep_list'[b][k] = G[b][k]
       /\ asleep_list'[b][Len(G[b]) + 1] = e
  <2>1. G \in [Addrs -> Seq(Entries)] /\ PushedOn(G, asleep_list', b, e) /\ b \in Addrs /\ e \in Entries
    BY SMTT(40), <1>1, <1>2, <1>6, <1>13
  <2>2. /\ \A d \in Addrs : Len(G[d]) \in Nat /\ (d # b => asleep_list'[d] = G[d])
        /\ Len(asleep_list'[b]) = Len(G[b]) + 1
        /\ \A k \in 1 .. Len(G[b]) : asleep_list'[b][k] = G[b][k]
        /\ asleep_list'[b][Len(G[b]) + 1] = e
    BY <2>1, Pushed, SMTT(40)
  <2> QED BY SMTT(40), <2>1, <2>2
<1>15. ASSUME NEW f \in Entries, NEW d \in Addrs, OnList(f, d)
       PROVE  \E h \in Addrs : OnList(f, h)'
  <2>1. CASE f = e
    <3>1. Len(G[b]) + 1 \in 1 .. Len(asleep_list'[b])
      BY <1>14
    <3>2. asleep_list'[b][Len(G[b]) + 1] = f
      BY Zenon, <1>14, <2>1
    <3>3. \E k \in 1 .. Len(asleep_list'[b]) : asleep_list'[b][k] = f
      BY SMTT(40), <3>1, <3>2
    <3>4. b \in Addrs
      BY Zenon, <1>1
    <3> QED BY Zenon, <3>3, <3>4 DEF OnList
  <2>2. CASE f # e
    <3>1. PICK j \in 1 .. Len(G[d]) : G[d][j] = f
      <4>1. PICK k \in 1 .. Len(asleep_list[d]) : asleep_list[d][k] = f
        BY Zenon, <1>15 DEF OnList
      <4> QED BY Zenon, <1>8, <2>2, <4>1 DEF Keeps
    <3>2. j \in 1 .. Len(asleep_list'[d]) /\ asleep_list'[d][j] = f
      <4>1. CASE d = b
        BY SMTT(40), <1>14, <3>1, <4>1
      <4>2. CASE d # b
        BY SMTT(40), <1>14, <3>1, <4>2
      <4> QED BY Zenon, <4>1, <4>2
    <3> QED BY SMTT(40), <3>2 DEF OnList
  <2> QED BY Zenon, <2>1, <2>2
<1>16. ASSUME NEW s \in Tasks, s # t PROVE CallOK(s)' /\ WalkInOrder(s)' /\ Reachable(s)'
  <2>1. \A d \in Addrs : lock[d] = s => lock'[d] = s /\ asleep_list'[d] = asleep_list[d]
    BY Zenon, <1>1, <1>13, <1>14, <1>16, <1>u
  <2> QED BY ZenonT(60), <1>5, <1>15, <1>16, <1>u, <2>1, OthersKept
<1> QED BY SMTT(40), <1>10, <1>11, <1>12, <1>16 DEF IInv

\* Empty lists satisfy the invariant.
LEMMA InitIInv == ASSUME FutexConstants PROVE FutexInit => IInv
<1> SUFFICES ASSUME FutexInit PROVE IInv
  BY Zenon
<1>1. NoCall \in Calls
  BY Zenon DEF NoCall, Calls
<1>2. asleep_list \in [Addrs -> Seq(Entries)] /\ \A a \in Addrs : Len(asleep_list[a]) = 0
  BY Zenon, EmptySeq DEF FutexInit
<1>3. awoken \in [Entries -> BOOLEAN] /\ \A e \in Entries : ~awoken[e]
  BY Zenon DEF FutexInit
<1>4. Typed
  BY Zenon, <1>1, <1>2, <1>3 DEF FutexInit, Typed
<1>5. EntriesExist /\ QueuedOnce /\ NoOvertaking
  BY <1>2, <1>3 DEF EntriesExist, QueuedOnce, NoOvertaking
<1>6. \A t \in Tasks : CallOK(t) /\ WalkInOrder(t) /\ Reachable(t)
  <2>1. \A t \in Tasks : fpc[t] = "user"
    BY Zenon DEF FutexInit
  <2> QED BY Zenon, <2>1 DEF CallOK, WalkInOrder, Reachable
<1> QED BY Zenon, <1>4, <1>5, <1>6 DEF IInv

\* Every step of the futex calls and timeouts keeps the invariant.
LEMMA NextIInv == ASSUME FutexConstants PROVE IInv /\ [FutexNext]_futexVars => IInv'
<1> SUFFICES ASSUME IInv, [FutexNext]_futexVars PROVE IInv'
  BY Zenon
<1>1. ASSUME NEW t \in Tasks, WaitSleep(t) \/ WaitLeave(t) \/ Expire(t) PROVE IInv'
  BY Zenon, <1>1, WaitSteps
<1>2. ASSUME NEW t \in Tasks, NEW a \in Addrs, NEW d \in BOOLEAN, WaitEnqueue(t, a, d) PROVE IInv'
  BY Zenon, <1>2, EnqueueStep
<1>3. ASSUME NEW t \in Tasks, WaitFinish(t) PROVE IInv'
  BY Zenon, <1>3, FinishStep
<1>4. ASSUME NEW t \in Tasks, NEW a \in Addrs, NEW n \in 0 .. MaxCount, WakeLock(t, a, n) PROVE IInv'
  BY <1>4, WakeLockStep
<1>5. ASSUME NEW t \in Tasks, NEW p \in RequeuePairs, NEW n \in 0 .. MaxCount,
             NEW n3 \in 0 .. MaxCount, RequeueLock(t, p, n, n3)
      PROVE  IInv'
  <2>1. n \in Nat /\ n3 \in Nat
    OBVIOUS
  <2> QED BY Zenon, <1>5, <2>1, RequeueLockStep
<1>6. ASSUME NEW t \in Tasks, RequeueLock2(t) PROVE IInv'
  BY Zenon, <1>6, RequeueLock2Step
<1>7. ASSUME NEW t \in Tasks, WakerReturn(t) PROVE IInv'
  BY Zenon, <1>7, WakerReturnStep
<1>8. ASSUME NEW t \in Tasks, WakeEntry(t) PROVE IInv'
  <2> DEFINE e == asleep_list[call[t].addr][call[t].i]
  <2>1. CASE Eligible(t, e) /\ call[t].awoken_count < call[t].value
    <3>1. /\ fpc[t] \in {"wake", "requeue"} /\ call[t].i <= Len(asleep_list[call[t].addr])
          /\ awoken' = [awoken EXCEPT ![e] = TRUE]
          /\ call' = [call EXCEPT ![t].i = @ + 1, ![t].awoken_count = @ + 1]
          /\ UNCHANGED <<asleep_list, lock, task, fpc>>
      BY Zenon, <1>8, <2>1 DEF WakeEntry
    <3> QED BY ZenonT(60), <2>1, <3>1, WakesEntry
  <2>2. CASE ~(Eligible(t, e) /\ call[t].awoken_count < call[t].value)
    <3>1. /\ fpc[t] \in {"wake", "requeue"} /\ call[t].i <= Len(asleep_list[call[t].addr])
          /\ call' = [call EXCEPT ![t].i = @ + 1]
          /\ UNCHANGED <<asleep_list, lock, task, fpc, awoken>>
      BY Zenon, <1>8, <2>2 DEF WakeEntry
    <3>2. awoken[e] \/ ~(call[t].awoken_count < call[t].value)
      BY Zenon, <2>2 DEF Eligible
    <3> QED BY Zenon, <3>1, <3>2, PassesEntry
  <2> QED BY SMTT(40), <2>1, <2>2
<1>9. ASSUME NEW t \in Tasks, RequeueEntry(t) PROVE IInv'
  <2> DEFINE e == asleep_list[call[t].addr][call[t].i]
             wakes == Eligible(t, e) /\ call[t].awoken_count < call[t].value
             moves == Eligible(t, e) /\ call[t].moved_count < call[t].value3
  <2>1. CASE wakes
    <3>1. /\ fpc[t] \in {"wake", "requeue"} /\ call[t].i <= Len(asleep_list[call[t].addr])
          /\ awoken' = [awoken EXCEPT ![e] = TRUE]
          /\ call' = [call EXCEPT ![t].i = @ + 1, ![t].awoken_count = @ + 1]
          /\ UNCHANGED <<asleep_list, lock, task, fpc>>
      BY Zenon, <1>9, <2>1 DEF RequeueEntry
    <3> QED BY ZenonT(60), <2>1, <3>1, WakesEntry
  <2>2. CASE ~wakes /\ moves
    <3>1. /\ fpc[t] = "requeue" /\ call[t].i <= Len(asleep_list[call[t].addr])
          /\ MovesNow(t, e)
          /\ UNCHANGED <<lock, task, fpc, awoken>>
      BY ZenonT(60), <1>9, <2>2 DEF RequeueEntry, Moved, MovesNow
    <3>2. ~awoken[e] /\ ~(call[t].awoken_count < call[t].value)
      BY SMTT(40), <2>2 DEF Eligible
    <3>3. Moving(t, e)
      BY Zenon, <3>1, <3>2 DEF Moving
    <3> QED BY Zenon, <3>3, MovesEntry
  <2>3. CASE ~wakes /\ ~moves
    <3>1. /\ fpc[t] \in {"wake", "requeue"} /\ call[t].i <= Len(asleep_list[call[t].addr])
          /\ call' = [call EXCEPT ![t].i = @ + 1]
          /\ UNCHANGED <<asleep_list, lock, task, fpc, awoken>>
      BY ZenonT(60), <1>9, <2>3 DEF RequeueEntry
    <3>2. awoken[e] \/ ~(call[t].awoken_count < call[t].value)
      BY SMTT(40), <2>3 DEF Eligible
    <3> QED BY Zenon, <3>1, <3>2, PassesEntry
  <2> QED BY SMTT(40), <2>1, <2>2, <2>3
<1>10. CASE UNCHANGED futexVars
  <2>0. UNCHANGED <<asleep_list, lock, awoken, task, state, wakeup_time, fpc, call, calls>>
    BY Zenon, <1>10 DEF futexVars
  <2>1. Typed'
    BY Zenon, <2>0 DEF IInv, Typed
  <2>2. EntriesExist'
    BY Zenon, <2>0 DEF IInv, EntriesExist
  <2>3. QueuedOnce'
    BY <2>0 DEF IInv, QueuedOnce
  <2>4. NoOvertaking'
    BY Zenon, <2>0 DEF IInv, NoOvertaking
  <2>5. \A t \in Tasks : CallOK(t)'
    BY Zenon, <2>0 DEF IInv, CallOK
  <2>6. \A t \in Tasks : WalkInOrder(t)'
    BY Zenon, <2>0 DEF IInv, WalkInOrder
  <2>7. \A t \in Tasks : Reachable(t)'
    BY Zenon, <2>0 DEF IInv, Reachable, OnList
  <2> QED BY Zenon, <2>1, <2>2, <2>3, <2>4, <2>5, <2>6, <2>7 DEF IInv
<1> QED
  BY Zenon, <1>1, <1>2, <1>3, <1>4, <1>5, <1>6, <1>7, <1>8, <1>9, <1>10 DEF FutexNext, Step

\* FUTEX_WAIT, FUTEX_WAKE and FUTEX_REQUEUE, however they interleave: a waiter that has
\* not been woken is queued, once, where a wake can reach it, and nobody is woken
\* before one who is ahead on the same list.
THEOREM FutexWaitersKept == ASSUME FutexConstants PROVE FutexSpec => []WaitersKept
<1>1. IInv => WaitersKept
  BY Zenon DEF IInv, WaitersKept, WaiterReachable, Reachable
<1>2. FutexInit => IInv
  BY Zenon, InitIInv
<1>3. IInv /\ [FutexNext]_futexVars => IInv'
  BY Zenon, NextIInv
<1> QED BY <1>1, <1>2, <1>3, PTL DEF FutexSpec
=============================================================================
