--------------------------- MODULE SchedulerProofs ---------------------------
(* What schedule, the timer interrupt and the task lifecycle keep, for any     *)
(* number of user tasks, any clock and any registers.                          *)
EXTENDS Scheduler, SequenceTheorems, WellFoundedInduction, TLAPS

\* schedule.rs and task.rs number the states of a task alike, as the kernel's
\* header does: a dead task is a zeroed one, and no two states share a number.
ConsistentCodes ==
  /\ READY = TASK_STATE_READY /\ DEAD = 0
  /\ READY \notin {DEAD, CREATED, BLOCKED, DUMMY, TASK_STATE_SIGKILLED}
  /\ BLOCKED \notin {DEAD, CREATED, DUMMY, TASK_STATE_SIGKILLED}

-----------------------------------------------------------------------------
(* The inductive invariant                                                   *)

Typed ==
  /\ state \in [Tasks -> States]
  /\ wakeup \in [Tasks -> Nat]
  /\ entry \in [Tasks -> BOOLEAN]
  /\ building \in [Tasks -> Tasks \cup {None}]
  /\ regs \in [Tasks -> Int] /\ work \in [Tasks -> Int] /\ cpu \in Int
  /\ current \in Tasks /\ ticks \in Nat
  /\ reaper \in Users \cup {None}

Distinct(s) == \A i, j \in 1 .. Len(s) : s[i] = s[j] => i = j

\* The list holds no task twice, and it always holds the kernel's own tasks,
\* the running task and the one the reaper has been given.
ListSound ==
  /\ list \in Seq(Tasks) /\ Distinct(list)
  /\ Listed(first) /\ Listed(dummy) /\ Listed(current)
  /\ reaper # None => Listed(reaper)

\* Nothing can wake the dummy task or a task somebody is still making.
AsleepForGood ==
  /\ state[dummy] = DUMMY /\ wakeup[dummy] = 0
  /\ \A t \in Tasks : building[t] # None =>
       t \in Users /\ state[t] \in {DEAD, CREATED} /\ wakeup[t] = 0

\* The registers of a stopped task are saved, those of the helper before it is
\* started included.
Contexts ==
  /\ cpu = work[current]
  /\ \A t \in Tasks \ {current} : Listed(t) \/ t = helper => regs[t] = work[t]

IInv == Typed /\ ListSound /\ AsleepForGood /\ Contexts /\ SleeperHoldsNoLock

-----------------------------------------------------------------------------
(* Lists and searches                                                        *)

\* A search that goes up meets a first hit, if there is one.
LEMMA LeastIndex ==
  ASSUME NEW S \in SUBSET Nat, S # {}
  PROVE  \E k \in S : \A j \in S : k <= j
<1>1. PICK k \in S : \A j \in S : ~(<<j, k>> \in OpToRel(<, Nat))
  BY NatLessThanWellFounded, WFMin, Zenon
<1>2. \A j \in S : ~(j < k)
  BY Zenon, <1>1 DEF OpToRel
<1> QED
  BY <1>2

\* Without drops one position and keeps the order of the others.
LEMMA WithoutProperties ==
  ASSUME NEW S, NEW s \in Seq(S), NEW i \in 1 .. Len(s)
  PROVE  /\ Without(s, i) \in Seq(S)
         /\ Len(Without(s, i)) = Len(s) - 1
         /\ \A k \in 1 .. Len(s) - 1 : Without(s, i)[k] = s[IF k < i THEN k ELSE k + 1]
<1> DEFINE A == SubSeq(s, 1, i - 1)
           B == SubSeq(s, i + 1, Len(s))
<1>1. Len(s) \in Nat /\ \A k \in 1 .. Len(s) : s[k] \in S
  BY LenProperties, ElementOfSeq
<1>2. A \in Seq(S) /\ Len(A) = i - 1 /\ \A k \in 1 .. i - 1 : A[k] = s[k]
  <2>1. 1 \in Int /\ i - 1 \in Int /\ \A k \in 1 .. i - 1 : s[k] \in S
    BY <1>1
  <2>2. /\ A \in Seq(S) /\ Len(A) = IF 1 <= i - 1 THEN i - 1 - 1 + 1 ELSE 0
        /\ \A k \in 1 .. i - 1 - 1 + 1 : A[k] = s[1 + k - 1]
    BY <2>1, SubSeqProperties
  <2> HIDE DEF A
  <2> QED BY <1>1, <2>2
<1>3. B \in Seq(S) /\ Len(B) = Len(s) - i /\ \A k \in 1 .. Len(s) - i : B[k] = s[i + k]
  <2>1. i + 1 \in Int /\ Len(s) \in Int /\ \A k \in i + 1 .. Len(s) : s[k] \in S
    BY <1>1
  <2>2. /\ B \in Seq(S) /\ Len(B) = IF i + 1 <= Len(s) THEN Len(s) - (i + 1) + 1 ELSE 0
        /\ \A k \in 1 .. Len(s) - (i + 1) + 1 : B[k] = s[i + 1 + k - 1]
    BY <2>1, SubSeqProperties
  <2> HIDE DEF B
  <2>3. \A k \in 1 .. Len(s) - i : k \in 1 .. Len(s) - (i + 1) + 1 /\ i + 1 + k - 1 = i + k
    BY <1>1
  <2>4. \A k \in 1 .. Len(s) - i : B[k] = s[i + k]
    BY <2>2, <2>3
  <2> QED BY <1>1, <2>2, <2>4
<1> HIDE DEF A, B
<1> DEFINE R == A \o B
<1>4. /\ R \in Seq(S)
      /\ Len(R) = Len(A) + Len(B)
      /\ \A k \in 1 .. Len(A) + Len(B) : R[k] = IF k <= Len(A) THEN A[k] ELSE B[k - Len(A)]
  BY Zenon, <1>2, <1>3, ConcatProperties
<1>5. Without(s, i) = R
  BY DEF Without, A, B
<1> HIDE DEF R
<1>6. ASSUME NEW k \in 1 .. Len(s) - 1
      PROVE  R[k] = s[IF k < i THEN k ELSE k + 1]
  <2>0. k \in 1 .. Len(A) + Len(B) /\ (k <= Len(A)) = (k < i)
    BY <1>1, <1>2, <1>3
  <2>a. R[k] = IF k < i THEN A[k] ELSE B[k - (i - 1)]
    BY <1>2, <1>4, <2>0
  <2>1. CASE k < i
    <3>1. k \in 1 .. i - 1
      BY <1>1, <2>1
    <3> QED BY <1>2, <2>1, <2>a, <3>1
  <2>2. CASE k >= i
    <3>1. R[k] = B[k - (i - 1)]
      BY <1>1, <2>2, <2>a
    <3>2. k - (i - 1) \in 1 .. Len(s) - i /\ i + (k - (i - 1)) = k + 1
      BY <1>1, <2>2
    <3>3. B[k - (i - 1)] = s[k + 1]
      BY <1>3, <3>2
    <3>4. ~(k < i)
      BY <1>1, <2>2
    <3> QED BY <3>1, <3>3, <3>4
  <2>3. k < i \/ k >= i
    BY <1>1
  <2> QED BY <2>1, <2>2, <2>3
<1>7. Len(R) = Len(s) - 1
  BY <1>1, <1>2, <1>3, <1>4
<1> QED BY <1>4, <1>5, <1>6, <1>7

\* Linking a new task at the end of the list.
LEMMA AppendDistinct ==
  ASSUME NEW S, NEW s \in Seq(S), NEW e \in S, Distinct(s), ~On(s, e)
  PROVE  /\ Append(s, e) \in Seq(S) /\ Distinct(Append(s, e))
         /\ \A x : On(Append(s, e), x) <=> On(s, x) \/ x = e
<1> DEFINE R == Append(s, e)
<1>1. /\ R \in Seq(S) /\ Len(R) = Len(s) + 1 /\ Len(s) \in Nat
      /\ \A i \in 1 .. Len(s) : R[i] = s[i]
      /\ R[Len(s) + 1] = e
  BY AppendProperties, LenProperties
<1> HIDE DEF R
<1>2. \A i \in 1 .. Len(s) + 1 : i \in 1 .. Len(s) \/ i = Len(s) + 1
  BY <1>1
<1>3. Distinct(R)
  BY <1>1, <1>2 DEF Distinct, On
<1>4. \A x : On(R, x) <=> On(s, x) \/ x = e
  BY <1>1, <1>2 DEF On
<1> QED
  BY <1>1, <1>3, <1>4 DEF R

\* Unlinking a task from the list.
LEMMA RemoveDistinct ==
  ASSUME NEW S, NEW s \in Seq(S), NEW i \in 1 .. Len(s), Distinct(s)
  PROVE  /\ Without(s, i) \in Seq(S) /\ Distinct(Without(s, i))
         /\ \A x : On(Without(s, i), x) <=> On(s, x) /\ x # s[i]
<1> DEFINE R == Without(s, i)
           at0(k) == IF k < i THEN k ELSE k + 1
<1>1. /\ R \in Seq(S) /\ Len(R) = Len(s) - 1 /\ Len(s) \in Nat
      /\ \A k \in 1 .. Len(s) - 1 : R[k] = s[at0(k)]
  BY WithoutProperties, LenProperties
<1>2. \A k \in 1 .. Len(s) - 1 : at0(k) \in 1 .. Len(s) /\ at0(k) # i
  BY <1>1
<1>3. \A k, l \in 1 .. Len(s) - 1 : at0(k) = at0(l) => k = l
  BY <1>1
<1>4. \A j \in 1 .. Len(s) : j # i => \E k \in 1 .. Len(s) - 1 : at0(k) = j
  <2> SUFFICES ASSUME NEW j \in 1 .. Len(s), j # i
               PROVE  \E k \in 1 .. Len(s) - 1 : at0(k) = j
    OBVIOUS
  <2>1. CASE j < i
    BY <2>1, <1>1
  <2>2. CASE j > i
    <3>1. j - 1 \in 1 .. Len(s) - 1 /\ at0(j - 1) = j
      BY <2>2, <1>1
    <3> QED BY <3>1
  <2> QED BY <2>1, <2>2, <1>1
<1> HIDE DEF R, at0
<1>5. Distinct(R)
  BY <1>1, <1>2, <1>3 DEF Distinct
<1>6. \A x : On(R, x) <=> On(s, x) /\ x # s[i]
  <2>1. ASSUME NEW x, On(R, x)
        PROVE  On(s, x) /\ x # s[i]
    <3>1. PICK k \in 1 .. Len(s) - 1 : s[at0(k)] = x
      BY <2>1, <1>1 DEF On
    <3> QED BY <3>1, <1>2 DEF On, Distinct
  <2>2. ASSUME NEW x, On(s, x), x # s[i]
        PROVE  On(R, x)
    <3>1. PICK j \in 1 .. Len(s) : s[j] = x /\ j # i
      BY <2>2 DEF On
    <3>2. PICK k \in 1 .. Len(s) - 1 : at0(k) = j
      BY <3>1, <1>4
    <3> QED BY <3>1, <3>2, <1>1 DEF On
  <2> QED BY <2>1, <2>2
<1> QED
  BY <1>1, <1>5, <1>6 DEF R

\* Where a listed task stands.
LEMMA PositionSound ==
  ASSUME NEW t, Listed(t)
  PROVE  Position(t) \in 1 .. Len(list) /\ list[Position(t)] = t
BY DEF Listed, On, Position

-----------------------------------------------------------------------------
(* schedule                                                                  *)

\* The search only meets tasks of the list.
LEMMA CandidatesListed ==
  ASSUME ListSound
  PROVE  /\ Len(Candidates) \in Nat
         /\ \A k \in 1 .. Len(Candidates) : Candidates[k] \in Tasks /\ Listed(Candidates[k])
<1> DEFINE p == Position(current)
           A == SubSeq(list, p + 1, Len(list))
<1>1. p \in 1 .. Len(list)
  BY PositionSound DEF ListSound
<1>2. list \in Seq(Tasks) /\ Len(list) \in Nat /\ \A k \in 1 .. Len(list) : list[k] \in Tasks
  BY LenProperties, ElementOfSeq DEF ListSound
<1> HIDE DEF p
<1>3. /\ p + 1 \in Int /\ Len(list) \in Int
      /\ \A k \in p + 1 .. Len(list) : list[k] \in Tasks
  BY <1>1, <1>2
<1>4. /\ A \in Seq(Tasks) /\ Len(A) = IF p + 1 <= Len(list) THEN Len(list) - (p + 1) + 1 ELSE 0
      /\ \A k \in 1 .. Len(list) - (p + 1) + 1 : A[k] = list[p + 1 + k - 1]
  BY <1>3, SubSeqProperties
<1> HIDE DEF A
<1>5. ASSUME NEW k \in 1 .. Len(A)
      PROVE  \E j \in 1 .. Len(list) : A[k] = list[j]
  <2>1. k \in 1 .. Len(list) - (p + 1) + 1 /\ p + 1 + k - 1 \in 1 .. Len(list)
    BY <1>1, <1>2, <1>4
  <2> QED BY <2>1, <1>4
<1> DEFINE C == A \o list
<1>6. /\ C \in Seq(Tasks) /\ Len(C) = Len(A) + Len(list)
      /\ \A k \in 1 .. Len(A) + Len(list) : C[k] = IF k <= Len(A) THEN A[k] ELSE list[k - Len(A)]
  BY <1>2, <1>4, ConcatProperties
<1>7. C = Candidates
  BY DEF Candidates, A, p
<1> HIDE DEF C
<1>8. Len(A) \in Nat
  BY <1>4, LenProperties
<1>9. ASSUME NEW k \in 1 .. Len(C)
      PROVE  \E j \in 1 .. Len(list) : C[k] = list[j]
  <2>1. CASE k <= Len(A)
    <3>1. k \in 1 .. Len(A) /\ C[k] = A[k]
      BY <2>1, <1>2, <1>6, <1>8
    <3> QED BY <3>1, <1>5
  <2>2. CASE k > Len(A)
    <3>1. k - Len(A) \in 1 .. Len(list) /\ C[k] = list[k - Len(A)]
      BY <2>2, <1>2, <1>6, <1>8
    <3> QED BY <3>1
  <2> QED BY <2>1, <2>2, <1>8
<1> QED
  BY <1>2, <1>6, <1>7, <1>8, <1>9 DEF Listed, On

\* schedule picks a listed task that can run, or the dummy task.
LEMMA PickedSound ==
  ASSUME Typed, ListSound
  PROVE  /\ Picked \in Tasks /\ Listed(Picked)
         /\ Picked = dummy \/ Wakes(Picked)
<1> DEFINE woken == {k \in 1 .. Len(Candidates) : Wakes(Candidates[k])}
           hit == CHOOSE k \in woken : \A j \in woken : k <= j
<1>1. CASE woken = {}
  <2>1. Picked = dummy
    BY <1>1 DEF Picked
  <2> QED BY <2>1 DEF ListSound, Tasks, Kernel
<1>2. CASE woken # {}
  <2>1. woken \in SUBSET Nat
    BY CandidatesListed
  <2>2. \E k \in woken : \A j \in woken : k <= j
    BY Zenon, <1>2, <2>1, LeastIndex
  <2>3. hit \in woken
    BY <2>2
  <2>4. Picked = Candidates[hit]
    BY <1>2 DEF Picked
  <2> HIDE DEF hit
  <2> QED BY <2>3, <2>4, CandidatesListed
<1> QED BY <1>1, <1>2

\* Starting over or not, a call of schedule keeps the invariant.
LEMMA ScheduleInv ==
  ASSUME ConsistentCodes, IInv, Schedule, ticks' \in Nat
  PROVE  IInv'
<1> DEFINE next == Picked
           old == current
           revived == Revived(next)
           st == IF revived THEN [state EXCEPT ![next] = TASK_STATE_READY] ELSE state
           fires == Fires(next)
           sigs == IF fires THEN pending[next] \cup {"ALRM"} ELSE pending[next]
           killed == Signalled(next, UserCS, sigs) /\ "TERM" \in sigs
<1>p. next \in Tasks /\ Listed(next) /\ (next = dummy \/ Wakes(next))
  BY PickedSound DEF IInv
<1>k. killed => next \in Users
  BY <1>p DEF Signalled, Tasks
<1>s. /\ wakeup' = IF revived THEN [wakeup EXCEPT ![next] = 0] ELSE wakeup
      /\ entry' = IF Releases(old, st) THEN [entry EXCEPT ![old] = FALSE] ELSE entry
      /\ state' = IF killed THEN [st EXCEPT ![next] = TASK_STATE_SIGKILLED] ELSE st
      /\ \/ killed /\ UNCHANGED <<current, regs, cpu>>
         \/ ~killed /\ current' = next /\ regs' = Saved(old) /\ cpu' = Saved(old)[next]
      /\ UNCHANGED <<list, building, work, reaper>>
  BY DEF Schedule
<1>r. revived => Wakes(next)
  BY DEF Revived
<1> HIDE DEF next, revived, killed
<1>t. Typed
  BY DEF IInv
<1>1. Typed'
  <2>1. st \in [Tasks -> States]
    BY <1>t, <1>p DEF Typed, States
  <2> HIDE DEF st
  <2>2. state' \in [Tasks -> States] /\ wakeup' \in [Tasks -> Nat]
    BY <1>t, <1>p, <1>s, <2>1 DEF Typed, States
  <2>3. entry' \in [Tasks -> BOOLEAN]
    BY <1>t, <1>s DEF Typed
  <2>4. regs' \in [Tasks -> Int] /\ cpu' \in Int /\ current' \in Tasks
    BY <1>t, <1>s, <1>p DEF Typed, Saved
  <2> QED
    BY <1>t, <1>s, <2>2, <2>3, <2>4 DEF Typed
<1>2. ListSound'
  <2>1. Listed(current')
    BY <1>p, <1>s DEF IInv, ListSound
  <2> QED
    BY <2>1, <1>s DEF IInv, ListSound, Listed
<1>3. AsleepForGood'
  <2>1. ~Wakes(dummy) /\ dummy \in Tasks /\ dummy \notin Users
    BY SchedulerAssumption
       DEF ConsistentCodes, IInv, AsleepForGood, Wakes, ReadyToRun, Revivable, Expired, Tasks, Kernel
  <2>2. state'[dummy] = DUMMY /\ wakeup'[dummy] = 0
    <3>1. next = dummy => ~revived /\ ~killed
      BY <2>1, <1>r, <1>k
    <3> QED BY <3>1, <2>1, <1>s, <1>t DEF IInv, AsleepForGood, Typed
  <2>3. ASSUME NEW t \in Tasks, building[t] # None
        PROVE  t # next /\ t \in Users /\ state[t] \in {DEAD, CREATED} /\ wakeup[t] = 0
    <3>1. t \in Users /\ state[t] \in {DEAD, CREATED} /\ wakeup[t] = 0
      BY <2>3 DEF IInv, AsleepForGood
    <3>2. ~Wakes(t)
      BY <3>1 DEF ConsistentCodes, Wakes, ReadyToRun, Revivable, Expired
    <3> QED BY <3>1, <3>2, <1>p, <2>1
  <2>4. \A t \in Tasks : t # next => state'[t] = state[t] /\ wakeup'[t] = wakeup[t]
    BY <1>s, <1>t DEF Typed
  <2> HIDE DEF st
  <2> QED
    BY <2>2, <2>3, <2>4, <1>s DEF AsleepForGood
<1>4. Contexts'
  <2>1. \A t \in Tasks : Listed(t)' <=> Listed(t)
    BY <1>s DEF Listed
  <2>2. CASE killed
    BY <2>1, <2>2, <1>s DEF IInv, Contexts
  <2>3. CASE ~killed
    <3>1. current' = next /\ regs' = [regs EXCEPT ![old] = cpu] /\ cpu' = regs'[next] /\ work' = work
      BY Zenon, <2>3, <1>s DEF Saved
    <3>2. regs'[old] = work[old] /\ \A t \in Tasks : t # old => regs'[t] = regs[t]
      BY <3>1, <1>t DEF Typed, IInv, Contexts
    <3>3. \A t \in Tasks : Listed(t) \/ t = helper => regs'[t] = work[t]
      BY <3>2 DEF IInv, Contexts
    <3> QED BY <3>1, <3>3, <2>1, <1>p DEF Contexts
  <2> QED BY <2>2, <2>3
<1>5. SleeperHoldsNoLock'
  <2> SUFFICES ASSUME NEW t \in Users, t # current', state'[t] = BLOCKED
               PROVE  ~entry'[t]
    BY DEF SleeperHoldsNoLock
  <2>0. t \in Tasks
    BY DEF Tasks
  <2>1. st[t] = BLOCKED /\ state[t] = BLOCKED
    BY <2>0, <1>s, <1>t DEF Typed, ConsistentCodes
  <2>2. CASE t = old
    <3>1. Releases(old, st) \/ ~entry[old]
      BY <2>1, <2>2 DEF Releases, ConsistentCodes
    <3> HIDE DEF st
    <3> QED BY <3>1, <2>0, <2>2, <1>s, <1>t DEF Typed
  <2>3. CASE t # old
    <3>1. ~entry[t]
      BY <2>1, <2>3 DEF IInv, SleeperHoldsNoLock
    <3> HIDE DEF st
    <3> QED BY <3>1, <2>0, <2>3, <1>s, <1>t DEF Typed
  <2> QED BY <2>2, <2>3
<1> QED
  BY <1>1, <1>2, <1>3, <1>4, <1>5 DEF IInv

-----------------------------------------------------------------------------
(* The other steps                                                           *)

\* The list and the registers at boot satisfy the invariant.
LEMMA InitInv ==
  ASSUME ConsistentCodes, Init
  PROVE  IInv
<1>1. Typed
  BY SchedulerAssumption DEF Init, Typed, Tasks, Kernel, States
<1>2. list = <<first, dummy>> /\ first \in Tasks /\ dummy \in Tasks /\ first # dummy
  BY SchedulerAssumption DEF Init, Tasks, Kernel
<1>3. list \in Seq(Tasks) /\ Len(list) = 2 /\ list[1] = first /\ list[2] = dummy
  BY <1>2
<1>4. Distinct(list) /\ Listed(first) /\ Listed(dummy)
  BY <1>2, <1>3 DEF Distinct, Listed, On
<1>5. ListSound
  BY <1>3, <1>4 DEF Init, ListSound
<1>6. AsleepForGood
  BY <1>2 DEF Init, AsleepForGood
<1>7. Contexts
  BY <1>2 DEF Init, Contexts
<1>8. SleeperHoldsNoLock
  BY DEF Init, SleeperHoldsNoLock, Tasks
<1> QED
  BY <1>1, <1>5, <1>6, <1>7, <1>8 DEF IInv

\* Every step of the tasks, the timer, schedule and the reaper keeps the invariant.
LEMMA NextInv ==
  ASSUME ConsistentCodes, IInv, [Next]_vars
  PROVE  IInv'
<1> USE DEF task, signal, context
<1>t. Typed /\ ListSound /\ AsleepForGood /\ Contexts /\ SleeperHoldsNoLock
  BY DEF IInv
<1>c. /\ Users \subseteq Tasks /\ Kernel \subseteq Tasks /\ Kernel \cap Users = {}
      /\ None \notin Tasks
  BY SchedulerAssumption DEF Tasks
<1>k. /\ first \in Kernel /\ dummy \in Kernel /\ helper \in Kernel
      /\ first # dummy /\ first # helper /\ dummy # helper
  BY SchedulerAssumption DEF Kernel
<1>1. CASE HandControl
  BY <1>1, <1>t, ScheduleInv DEF HandControl, Typed
<1>2. CASE TimerTick
  <2>1. Typed'
    BY SMTT(40), <1>2, <1>t DEF TimerTick, Typed
  <2> QED
    BY <2>1, <1>2, <1>t
    DEF IInv, TimerTick, ListSound, Listed, AsleepForGood, Contexts, SleeperHoldsNoLock
<1>3. CASE Compute
  <2>1. Typed'
    BY <1>3, <1>t, SchedulerAssumption DEF Compute, Typed
  <2>2. Contexts'
    BY <1>3, <1>t DEF Compute, Contexts, Typed, Listed
  <2> QED
    BY <2>1, <2>2, <1>3, <1>t
    DEF IInv, Compute, ListSound, Listed, AsleepForGood, SleeperHoldsNoLock
<1>4. CASE StartHelper
  <2>1. Typed'
    BY Zenon, <1>4, <1>t DEF StartHelper, Typed, States
  <2>2. /\ Append(list, helper) \in Seq(Tasks) /\ Distinct(Append(list, helper))
        /\ \A x : On(Append(list, helper), x) <=> On(list, x) \/ x = helper
    BY <1>4, <1>t, <1>c, <1>k, AppendDistinct DEF StartHelper, ListSound, Listed
  <2>3. ListSound'
    BY <2>2, <1>4, <1>t DEF StartHelper, ListSound, Listed
  <2>4. AsleepForGood'
    BY <1>4, <1>t, <1>c, <1>k DEF StartHelper, AsleepForGood, Typed
  <2>5. Contexts'
    BY <2>2, <1>4, <1>t DEF StartHelper, Contexts, Listed
  <2>6. SleeperHoldsNoLock'
    BY <1>4, <1>t, <1>c, <1>k DEF StartHelper, SleeperHoldsNoLock, Typed
  <2> QED
    BY <2>1, <2>3, <2>4, <2>5, <2>6 DEF IInv
<1>5. CASE Reap
  <2>0. reaper \in Users /\ current = helper /\ reaper # helper /\ reaper # first /\ reaper # dummy
    BY <1>5, <1>t, <1>c, <1>k DEF Reap, Runs, Typed
  <2>1. Typed'
    BY <2>0, <1>5, <1>t, <1>c DEF Reap, Typed, States
  <2>2. /\ Position(reaper) \in 1 .. Len(list) /\ list[Position(reaper)] = reaper
        /\ list \in Seq(Tasks) /\ Distinct(list)
    BY <2>0, <1>t, <1>c, PositionSound DEF ListSound
  <2>3. /\ Unlinked(reaper) \in Seq(Tasks) /\ Distinct(Unlinked(reaper))
        /\ \A x : On(Unlinked(reaper), x) <=> On(list, x) /\ x # reaper
    BY <2>2, RemoveDistinct DEF Unlinked
  <2>4. ListSound'
    BY <2>0, <2>3, <1>5, <1>t DEF Reap, ListSound, Listed
  <2>5. AsleepForGood'
    BY SMTT(40), <2>0, <1>5, <1>t, <1>c DEF Reap, AsleepForGood, Typed
  <2>6. Contexts'
    BY <2>3, <1>5, <1>t DEF Reap, Contexts, Listed
  <2>7. SleeperHoldsNoLock'
    BY SMTT(40), <1>5, <1>t, <1>c DEF Reap, SleeperHoldsNoLock, Typed, ConsistentCodes
  <2> QED
    BY <2>1, <2>4, <2>5, <2>6, <2>7 DEF IInv
<1>6. ASSUME NEW t \in Tasks \ {dummy}, Wake(t)
      PROVE  IInv'
  <2>1. Typed'
    BY <1>6, <1>t DEF Wake, Typed, States
  <2>2. AsleepForGood'
    BY <1>6, <1>t, <1>c, <1>k DEF Wake, AsleepForGood, Typed, ConsistentCodes
  <2>3. SleeperHoldsNoLock'
    BY SMTT(40), <1>6, <1>t, <1>c DEF Wake, SleeperHoldsNoLock, Typed, ConsistentCodes
  <2> QED
    BY <2>1, <2>2, <2>3, <1>6, <1>t DEF IInv, Wake, ListSound, Listed, Contexts
<1>7. ASSUME NEW d \in Sleeps, NEW lock \in BOOLEAN, Block(d, lock)
      PROVE  IInv'
  <2>0. d \in Nat /\ ticks \in Nat /\ current \in Tasks /\ current # dummy
    BY <1>7, <1>t, <1>c, <1>k, SchedulerAssumption DEF Typed, Block
  <2>1. Typed'
    <3>1. (IF d = 0 THEN 0 ELSE ticks + d) \in Nat
      BY <2>0
    <3>2. wakeup' \in [Tasks -> Nat]
      BY <3>1, <1>7, <1>t DEF Block, Typed
    <3>3. entry' \in [Tasks -> BOOLEAN]
      BY <1>7, <1>t DEF Block, Typed
    <3>4. state' \in [Tasks -> States]
      BY <1>7, <1>t DEF Block, Typed, States
    <3> QED BY <3>2, <3>3, <3>4, <1>7, <1>t DEF Block, Typed
  <2>2. AsleepForGood'
    BY <2>0, <1>7, <1>t, <1>c, <1>k DEF Block, Runs, AsleepForGood, Typed, ConsistentCodes
  <2>3. SleeperHoldsNoLock'
    BY SMTT(40), <1>7, <1>t, <1>c DEF Block, SleeperHoldsNoLock, Typed
  <2> QED
    BY <2>1, <2>2, <2>3, <1>7, <1>t DEF IInv, Block, ListSound, Listed, Contexts
<1>8. ASSUME NEW d \in Timers, NEW p \in Timers, SetItimer(d, p)
      PROVE  IInv'
  BY <1>8, <1>t
  DEF IInv, SetItimer, Typed, ListSound, Listed, AsleepForGood, Contexts, SleeperHoldsNoLock
<1>9. ASSUME NEW t \in Users, ListAllocate(t)
      PROVE  IInv'
  <2>0. ~Listed(t) /\ t \in Tasks /\ t # current /\ t # helper /\ t # dummy /\ current \in Tasks
    BY SMTT(40), <1>9, <1>t, <1>c, <1>k DEF ListAllocate, ListSound, Typed
  <2>1. Typed'
    <3>1. 0 \in States
      BY DEF States, ConsistentCodes
    <3> QED BY SMTT(60), <2>0, <3>1, <1>9, <1>t DEF ListAllocate, Typed
  <2>2. /\ Append(list, t) \in Seq(Tasks) /\ Distinct(Append(list, t))
        /\ \A x : On(Append(list, t), x) <=> On(list, x) \/ x = t
    BY <2>0, <1>t, AppendDistinct DEF ListSound, Listed
  <2>3. ListSound'
    BY <2>2, <1>9, <1>t DEF ListAllocate, ListSound, Listed
  <2>4. AsleepForGood'
    BY <2>0, <1>9, <1>t, <1>c DEF ListAllocate, AsleepForGood, Typed, ConsistentCodes
  <2>5. Contexts'
    BY <2>0, <2>2, <1>9, <1>t DEF ListAllocate, Contexts, Listed, Typed
  <2>6. SleeperHoldsNoLock'
    BY SMTT(40), <1>9, <1>t, <1>c DEF ListAllocate, SleeperHoldsNoLock, Typed
  <2> QED
    BY <2>1, <2>3, <2>4, <2>5, <2>6 DEF IInv
<1>10. ASSUME NEW t \in Users, Create(t)
       PROVE  IInv'
  <2>1. Typed'
    BY ZenonT(60), <1>10, <1>t DEF Create, Typed, States
  <2>2. AsleepForGood'
    BY <1>10, <1>t, <1>c, <1>k DEF Create, AsleepForGood, Typed
  <2>3. SleeperHoldsNoLock'
    BY <1>10, <1>t, <1>c DEF Create, SleeperHoldsNoLock, Typed, ConsistentCodes
  <2> QED
    BY ZenonT(60), <2>1, <2>2, <2>3, <1>10, <1>t DEF IInv, Create, ListSound, Listed, Contexts
<1>11. ASSUME NEW t \in Users, CreateFinish(t)
       PROVE  IInv'
  <2>1. Typed'
    BY ZenonT(60), <1>11, <1>t DEF CreateFinish, Typed, States
  <2>2. AsleepForGood'
    BY <1>11, <1>t, <1>c, <1>k DEF CreateFinish, AsleepForGood, Typed
  <2>3. SleeperHoldsNoLock'
    BY <1>11, <1>t, <1>c DEF CreateFinish, SleeperHoldsNoLock, Typed, ConsistentCodes
  <2> QED
    BY Zenon, <2>1, <2>2, <2>3, <1>11, <1>t DEF IInv, CreateFinish, ListSound, Listed, Contexts
<1>12. ASSUME NEW t \in Users, Kill(t)
       PROVE  IInv'
  <2>1. Typed'
    BY Zenon, <1>12, <1>t DEF Kill, Typed, States
  <2>2. AsleepForGood'
    BY <1>12, <1>t, <1>c, <1>k DEF Kill, AsleepForGood, Typed
  <2>3. SleeperHoldsNoLock'
    BY <1>12, <1>t, <1>c DEF Kill, SleeperHoldsNoLock, Typed, ConsistentCodes
  <2> QED
    BY Zenon, <2>1, <2>2, <2>3, <1>12, <1>t DEF IInv, Kill, ListSound, Listed, Contexts
<1>13. ASSUME NEW t \in Users, CallReaper(t)
       PROVE  IInv'
  BY SMTT(40), <1>13, <1>t
  DEF IInv, CallReaper, Typed, ListSound, Listed, AsleepForGood, Contexts, SleeperHoldsNoLock
<1>14. ASSUME NEW t \in Users, NEW s \in Signals, SendSignal(t, s)
       PROVE  IInv'
  BY SMTT(40), <1>14, <1>t
  DEF IInv, SendSignal, Typed, ListSound, Listed, AsleepForGood, Contexts, SleeperHoldsNoLock
<1>15. CASE UNCHANGED vars
  BY <1>15, <1>t
  DEF IInv, vars, Typed, ListSound, Listed, AsleepForGood, Contexts, SleeperHoldsNoLock
<1>16. first \in Tasks \ {dummy} /\ Users \subseteq Tasks \ {dummy}
  BY <1>c, <1>k
<1> QED
  BY <1>1, <1>2, <1>3, <1>4, <1>5, <1>6, <1>7, <1>8, <1>9, <1>10, <1>11, <1>12, <1>13, <1>14,
     <1>15, <1>16 DEF Next

-----------------------------------------------------------------------------
(* The theorems                                                              *)

\* So it holds always.
LEMMA Inductive ==
  ASSUME ConsistentCodes
  PROVE  Spec => []IInv
<1>1. Init => IInv
  BY InitInv
<1>2. IInv /\ [Next]_vars => IInv'
  BY NextInv
<1> QED
  BY <1>1, <1>2, PTL DEF Spec

\* Every task runs on with the registers it was stopped with, whoever runs, is
\* made, killed or reaped in between.
THEOREM SchedulerSafe ==
  ASSUME ConsistentCodes
  PROVE  Spec => []ContextPreserved
<1>1. IInv => ContextPreserved
  BY SMTT(40) DEF IInv, Contexts, ContextPreserved
<1> QED
  BY <1>1, Inductive, PTL

\* No task sleeps off the processor with the lock it left for schedule to release.
THEOREM SchedulerReleasesLock ==
  ASSUME ConsistentCodes
  PROVE  Spec => []SleeperHoldsNoLock
<1>1. IInv => SleeperHoldsNoLock
  BY DEF IInv
<1> QED
  BY <1>1, Inductive, PTL

\* Only schedule changes the running task.
LEMMA OnlyScheduleSwitches ==
  ASSUME [Next]_vars, current' # current
  PROVE  Schedule /\ ticks' = ticks /\ current' = Picked
<1> USE DEF task, signal, context
<1>1. HandControl
  BY ZenonT(60) DEF Next, vars, TimerTick, Compute, StartHelper, Reap, Wake, Block, SetItimer, ListAllocate,
         Create, CreateFinish, Kill, CallReaper, SendSignal
<1> QED
  BY ZenonT(60), <1>1 DEF HandControl, Schedule

\* schedule gives the processor to a listed task that is made and ready, or to
\* the dummy task.
THEOREM SchedulerOnlyReadyRun ==
  ASSUME ConsistentCodes
  PROVE  Spec => OnlyReadyRun
<1>1. ASSUME IInv, [Next]_vars, current' # current
      PROVE  /\ Listed(current') /\ building[current'] = None
             /\ state'[current'] = READY \/ current' = dummy
  <2> DEFINE next == Picked
  <2>1. Schedule /\ current' = next
    BY <1>1, OnlyScheduleSwitches
  <2>2. next \in Tasks /\ Listed(next) /\ (next = dummy \/ Wakes(next))
    BY <1>1, PickedSound DEF IInv
  <2> HIDE DEF next
  <2>3. building[next] = None
    BY SMTT(40), <1>1, <2>2, SchedulerAssumption
    DEF IInv, AsleepForGood, ConsistentCodes, Wakes, ReadyToRun, Revivable, Expired, Tasks, Kernel
  <2>4. Wakes(next) => state'[next] = READY
    BY ZenonT(60), <1>1, <2>1, <2>2 DEF Schedule, Revived, ReadyToRun, IInv, Typed, ConsistentCodes, next
  <2> QED BY Zenon, <2>1, <2>2, <2>3, <2>4
<1>2. IInv /\ [Next]_vars =>
        [current' # current => /\ Listed(current') /\ building[current'] = None
                               /\ state'[current'] = READY \/ current' = dummy]_vars
  BY <1>1
<1> QED
  BY <1>2, Inductive, PTL DEF Spec, OnlyReadyRun

\* A sleeper that schedule lets run has a signal, or its deadline has come.
THEOREM SchedulerNoEarlyWake ==
  ASSUME ConsistentCodes
  PROVE  Spec => NoEarlyWake
<1> DEFINE OnTime == \A t \in Users :
             ~ReadyToRun(t) /\ state'[t] = TASK_STATE_READY /\ current' = t /\ current # t =>
               pending[t] # {} \/ wakeup[t] <= ticks'
<1>1. IInv /\ [Next]_vars => OnTime
  <2> SUFFICES ASSUME IInv, [Next]_vars, NEW t \in Users, ~ReadyToRun(t), current' = t, current # t
               PROVE  pending[t] # {} \/ wakeup[t] <= ticks'
    OBVIOUS
  <2>1. current' = Picked /\ ticks' = ticks
    BY OnlyScheduleSwitches
  <2>2. t # dummy
    BY SchedulerAssumption DEF Kernel
  <2>3. Wakes(t)
    BY <2>1, <2>2, PickedSound DEF IInv
  <2> QED
    BY <2>1, <2>3 DEF Wakes, PendingQuick, Expired
<1>2. IInv /\ [Next]_vars => [OnTime]_vars
  BY <1>1
<1> QED
  BY <1>2, Inductive, PTL DEF Spec, NoEarlyWake
=============================================================================
