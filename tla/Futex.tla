-------------------------------- MODULE Futex --------------------------------
(* futex_syscall: FUTEX_WAIT, FUTEX_WAKE and FUTEX_REQUEUE called by several   *)
(* threads (src/src/kernel/syscalls/flutex.rs).                                *)
(*                                                                             *)
(* One step is one lock-protected piece of the code.  A WAIT takes the futex's *)
(* lock to queue its entry, takes the task's lock to go to sleep, spins, and   *)
(* takes the futex's lock again to leave.  WAKE and REQUEUE hold the lock over *)
(* the whole list and handle one entry per step.  The word in user memory is   *)
(* not part of the state: a WAIT whose word differs returns EAGAIN before it   *)
(* has changed anything.                                                       *)
EXTENDS Naturals, Sequences, FiniteSets

CONSTANTS
  Tasks,        \* the tasks that make the calls
  Addrs,          \* the futex words
  RequeuePairs,   \* the (from, to) pairs given to FUTEX_REQUEUE
  MaxWaits,       \* bound: FUTEX_WAIT calls
  MaxCalls,       \* bound: FUTEX_WAKE and FUTEX_REQUEUE calls
  MaxCount,       \* bound: the counts a caller asks for
  NoThread

Entries == 1 .. MaxWaits

VARIABLES
  asleep_list,    \* per futex, the queued entries in order
  lock,           \* per futex, who holds its Mutex
  awoken,         \* per entry, FutexAsleep.awoken
  task,           \* per entry, FutexAsleep.task (NoThread: not created yet)
  state,          \* per task, Ready or Futex
  wakeup_time,    \* per task, forceful_wakeup_time: None, Armed or Passed
  fpc, call,       \* per task, where it is in its call, and the call's locals
  calls           \* WAKE and REQUEUE calls made so far

futexVars == <<asleep_list, lock, awoken, task, state, wakeup_time, fpc, call, calls>>

NoCall == [addr |-> NoThread, addr2 |-> NoThread, entry |-> 0, timed |-> FALSE,
           value |-> 0, value3 |-> 0, i |-> 0, awoken_count |-> 0, moved_count |-> 0]

FutexInit ==
  /\ asleep_list = [a \in Addrs |-> <<>>]
  /\ lock = [a \in Addrs |-> NoThread]
  /\ awoken = [e \in Entries |-> FALSE]
  /\ task = [e \in Entries |-> NoThread]
  /\ state = [t \in Tasks |-> "Ready"]
  /\ wakeup_time = [t \in Tasks |-> "None"]
  /\ fpc = [t \in Tasks |-> "user"]
  /\ call = [t \in Tasks |-> NoCall]
  /\ calls = 0

Free(a) == lock[a] = NoThread

-----------------------------------------------------------------------------
(* Slips one could make in this code.                                        *)

\* Drop the moved waiter when the second queue is not empty.
MutantMovedDrops(list, e) == IF list = <<>> THEN <<e>> ELSE list
\* Return on the timeout path without unlocking the futex.
MutantUnlocked(t, timedOut) == IF timedOut THEN t ELSE NoThread

-----------------------------------------------------------------------------
Eligible(t, e) == ~awoken[e]
Moved(list, e) == Append(list, e)
\* A list without its entry at a position (Vec::remove).
Without(list, k) == SubSeq(list, 1, k - 1) \o SubSeq(list, k + 1, Len(list))
\* retain: an entry is on a list at most once (QueuedOnce), so that dropping every
\* pointer to it drops the one there is.
Unqueued(list, e) ==
  IF \E k \in 1 .. Len(list) : list[k] = e
    THEN Without(list, CHOOSE k \in 1 .. Len(list) : list[k] = e) ELSE list
Unlocked(t, timedOut) == NoThread

\* FUTEX_WAIT up to the unlock: a fresh entry at the end of the futex's list.
WaitEnqueue(t, a, timed) ==
  /\ fpc[t] = "user" /\ Free(a)
  /\ \E e \in Entries :
       /\ task[e] = NoThread
       /\ \A d \in 1 .. e - 1 : task[d] # NoThread
       /\ task' = [task EXCEPT ![e] = t]
       /\ asleep_list' = [asleep_list EXCEPT ![a] = Append(@, e)]
       /\ call' = [call EXCEPT ![t] = [NoCall EXCEPT !.addr = a, !.entry = e, !.timed = timed]]
  /\ fpc' = [fpc EXCEPT ![t] = "queued"]
  /\ UNCHANGED <<lock, awoken, state, wakeup_time, calls>>

\* Under the task's lock: asleep, with a deadline when the caller gave one.
WaitSleep(t) ==
  /\ fpc[t] = "queued"
  /\ state' = [state EXCEPT ![t] = "Futex"]
  /\ wakeup_time' = [wakeup_time EXCEPT ![t] = IF call[t].timed THEN "Armed" ELSE @]
  /\ fpc' = [fpc EXCEPT ![t] = "spin"]
  /\ UNCHANGED <<asleep_list, lock, awoken, task, call, calls>>

\* The clock reaches a task's deadline.
Expire(t) ==
  /\ wakeup_time[t] = "Armed"
  /\ wakeup_time' = [wakeup_time EXCEPT ![t] = "Passed"]
  /\ UNCHANGED <<asleep_list, lock, awoken, task, state, fpc, call, calls>>

\* The spin loop is left when the task is ready or its deadline has passed.
WaitLeave(t) ==
  /\ fpc[t] = "spin"
  /\ state[t] = "Ready" \/ wakeup_time[t] = "Passed"
  /\ fpc' = [fpc EXCEPT ![t] = "left"]
  /\ UNCHANGED <<asleep_list, lock, awoken, task, state, wakeup_time, call, calls>>

\* Awoken: take the entry off the futex it was queued on and return 0.
\* Otherwise: return ETIMEDOUT at once, the entry stays where it is.
WaitFinish(t) ==
  LET a == call[t].addr
      e == call[t].entry
  IN /\ fpc[t] = "left" /\ Free(a)
     /\ asleep_list' = [asleep_list EXCEPT ![a] = IF awoken[e] THEN Unqueued(@, e) ELSE @]
     /\ lock' = [lock EXCEPT ![a] = Unlocked(t, ~awoken[e])]
     /\ fpc' = [fpc EXCEPT ![t] = "user"]
     /\ call' = [call EXCEPT ![t] = NoCall]
     /\ UNCHANGED <<awoken, task, state, wakeup_time, calls>>

\* FUTEX_WAKE: lock the futex and start at the head of its list.
WakeLock(t, a, value) ==
  /\ fpc[t] = "user" /\ calls < MaxCalls /\ Free(a)
  /\ lock' = [lock EXCEPT ![a] = t]
  /\ call' = [call EXCEPT ![t] = [NoCall EXCEPT !.addr = a, !.value = value, !.i = 1]]
  /\ fpc' = [fpc EXCEPT ![t] = "wake"]
  /\ calls' = calls + 1
  /\ UNCHANGED <<asleep_list, awoken, task, state, wakeup_time>>

\* One entry of the list, under the entry's and its task's lock.
WakeEntry(t) ==
  LET c == call[t]
      e == asleep_list[c.addr][c.i]
  IN /\ fpc[t] = "wake" /\ c.i <= Len(asleep_list[c.addr])
     /\ \/ /\ Eligible(t, e) /\ c.awoken_count < c.value
           /\ state' = [state EXCEPT ![task[e]] = "Ready"]
           /\ wakeup_time' = [wakeup_time EXCEPT ![task[e]] = "None"]
           /\ awoken' = [awoken EXCEPT ![e] = TRUE]
           /\ call' = [call EXCEPT ![t].i = @ + 1, ![t].awoken_count = @ + 1]
        \/ /\ ~(Eligible(t, e) /\ c.awoken_count < c.value)
           /\ call' = [call EXCEPT ![t].i = @ + 1]
           /\ UNCHANGED <<state, wakeup_time, awoken>>
     /\ UNCHANGED <<asleep_list, lock, task, fpc, calls>>

\* FUTEX_REQUEUE: lock the first futex, then the second.
RequeueLock(t, p, value, value3) ==
  /\ fpc[t] = "user" /\ calls < MaxCalls /\ Free(p[1])
  /\ lock' = [lock EXCEPT ![p[1]] = t]
  /\ call' = [call EXCEPT ![t] = [NoCall EXCEPT !.addr = p[1], !.addr2 = p[2],
                                  !.value = value, !.value3 = value3, !.i = 1]]
  /\ fpc' = [fpc EXCEPT ![t] = "lock2"]
  /\ calls' = calls + 1
  /\ UNCHANGED <<asleep_list, awoken, task, state, wakeup_time>>

RequeueLock2(t) ==
  /\ fpc[t] = "lock2" /\ Free(call[t].addr2)
  /\ lock' = [lock EXCEPT ![call[t].addr2] = t]
  /\ fpc' = [fpc EXCEPT ![t] = "requeue"]
  /\ UNCHANGED <<asleep_list, awoken, task, state, wakeup_time, call, calls>>

\* One entry: wake it (its deadline is kept), move it, or pass over it.
RequeueEntry(t) ==
  LET c == call[t]
      e == asleep_list[c.addr][c.i]
      wakes == Eligible(t, e) /\ c.awoken_count < c.value
      moves == Eligible(t, e) /\ c.moved_count < c.value3
  IN /\ fpc[t] = "requeue" /\ c.i <= Len(asleep_list[c.addr])
     /\ \/ /\ wakes
           /\ state' = [state EXCEPT ![task[e]] = "Ready"]
           /\ awoken' = [awoken EXCEPT ![e] = TRUE]
           /\ call' = [call EXCEPT ![t].i = @ + 1, ![t].awoken_count = @ + 1]
           /\ UNCHANGED asleep_list
        \/ /\ ~wakes /\ moves
           /\ asleep_list' = [asleep_list EXCEPT ![c.addr] = Without(@, c.i),
                                                 ![c.addr2] = Moved(@, e)]
           /\ call' = [call EXCEPT ![t].moved_count = @ + 1]
           /\ UNCHANGED <<state, awoken>>
        \/ /\ ~wakes /\ ~moves
           /\ call' = [call EXCEPT ![t].i = @ + 1]
           /\ UNCHANGED <<state, awoken, asleep_list>>
     /\ UNCHANGED <<lock, task, wakeup_time, fpc, calls>>

\* The end of either list walk: unlock and return the count.
WakerReturn(t) ==
  LET c == call[t]
  IN /\ fpc[t] \in {"wake", "requeue"} /\ c.i > Len(asleep_list[c.addr])
     /\ lock' = [a \in Addrs |-> IF lock[a] = t THEN NoThread ELSE lock[a]]
     /\ fpc' = [fpc EXCEPT ![t] = "user"]
     /\ call' = [call EXCEPT ![t] = NoCall]
     /\ UNCHANGED <<asleep_list, awoken, task, state, wakeup_time, calls>>

\* The steps of a call that has begun.
Step(t) ==
  \/ WaitSleep(t)
  \/ WaitLeave(t)
  \/ WaitFinish(t)
  \/ WakeEntry(t)
  \/ RequeueLock2(t)
  \/ RequeueEntry(t)
  \/ WakerReturn(t)

FutexNext ==
  \E t \in Tasks :
    \/ Step(t)
    \/ Expire(t)
    \/ \E a \in Addrs, timed \in BOOLEAN : WaitEnqueue(t, a, timed)
    \/ \E a \in Addrs, n \in 0 .. MaxCount : WakeLock(t, a, n)
    \/ \E p \in RequeuePairs, n, n3 \in 0 .. MaxCount : RequeueLock(t, p, n, n3)

FutexSpec == FutexInit /\ [][FutexNext]_futexVars

\* A thread inside a call is scheduled until the call is over, and time passes.
FutexFairness == \A t \in Tasks : WF_futexVars(Step(t)) /\ WF_futexVars(Expire(t))

FutexFairSpec == FutexSpec /\ FutexFairness

-----------------------------------------------------------------------------
OnList(e, a) == \E k \in 1 .. Len(asleep_list[a]) : asleep_list[a][k] = e

FutexTypeOK ==
  /\ asleep_list \in [Addrs -> Seq(Entries)]
  /\ \A a \in Addrs : Len(asleep_list[a]) <= MaxWaits
  /\ lock \in [Addrs -> Tasks \cup {NoThread}]
  /\ awoken \in [Entries -> BOOLEAN]
  /\ task \in [Entries -> Tasks \cup {NoThread}]
  /\ state \in [Tasks -> {"Ready", "Futex"}]
  /\ wakeup_time \in [Tasks -> {"None", "Armed", "Passed"}]
  /\ fpc \in [Tasks -> {"user", "queued", "spin", "left", "wake", "lock2", "requeue"}]
  /\ calls \in 0 .. MaxCalls

\* An entry is queued on at most one futex, and there once.
QueuedOnce ==
  \A a, b \in Addrs : 
    \A i \in 1 .. Len(asleep_list[a]), j \in 1 .. Len(asleep_list[b]) :
      asleep_list[a][i] = asleep_list[b][j] => a = b /\ i = j

\* Wakes go to the waiters in the order they queued: no entry of a list is awoken
\* while one ahead of it is not, also after requeues (lines 129-138, 156-172).
NoOvertaking ==
  \A a \in Addrs : \A i, j \in 1 .. Len(asleep_list[a]) :
    i < j /\ awoken[asleep_list[a][j]] => awoken[asleep_list[a][i]]

\* A task that waits without having been woken is queued on some futex, the one it
\* asked for or one it was moved to, so that a later wake can reach it; and no
\* entry is queued twice, so that it uses up one wake only (lines 85, 121, 166-167).
WaiterReachable ==
  /\ QueuedOnce
  /\ \A t \in Tasks :
       fpc[t] \in {"queued", "spin", "left"} /\ ~awoken[call[t].entry] =>
         \E a \in Addrs : OnList(call[t].entry, a)

\* A waiter that nobody has woken stays where a wake will find it, once, and waiters
\* leave in the order they came (FUTEX_WAIT, FUTEX_WAKE, FUTEX_REQUEUE).
WaitersKept == WaiterReachable /\ NoOvertaking

\* A call that holds a futex's lock, or wants it, comes to an end: WAKE and
\* REQUEUE return, and a WAIT that has left its loop does (Mutex guards are
\* dropped on every path).  For requeues that agree on the order of the locks.
CallsEnd ==
  \A t \in Tasks : fpc[t] \in {"wake", "lock2", "requeue", "left"} ~> fpc[t] = "user"

\* "Spin-wait until awoken" (line 96): a wait whose entry has been awoken ends.
SpinsUntilAwoken ==
  \A t \in Tasks :
    fpc[t] \in {"queued", "spin"} /\ awoken[call[t].entry] ~> fpc[t] = "user"
=============================================================================
