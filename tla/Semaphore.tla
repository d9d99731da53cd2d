------------------------------ MODULE Semaphore ------------------------------
(* The counting semaphore of src/src/kernel/utilities/spinlock.rs: `wait` with *)
(* an optional timeout in timer ticks, and `post`.  The inner spinlock and the *)
(* timer run concurrently with both.                                          *)
EXTENDS Integers, FiniteSets

CONSTANTS
  Waiters,
  Initial,    \* the argument of Semaphore::new
  Timeouts,   \* the timeouts callers pass; 0 means for ever
  MaxTicks,   \* bound: the timer stops here
  MaxPosts    \* bound: number of calls of post

VARIABLES
  sflag,       \* lock.flag
  scnt,
  timerTicks,
  spc,
  timeout,    \* the argument of the thread's current wait
  start,      \* timerTicks when that wait began
  granted,    \* threads whose wait took a unit in this call
  posted,     \* units added by post so far
  taken       \* units removed by wait so far

semVars == <<sflag, scnt, timerTicks, spc, timeout, start, granted, posted, taken>>

PCs == {"idle", "check", "lock", "test", "unlock_ok", "unlock_again", "true",
        "false", "post_lock", "post_add", "post_unlock"}
Waiting == {"check", "lock", "test", "unlock_again"}

SemTypeOK ==
  /\ sflag \in BOOLEAN
  /\ scnt \in 0 .. Initial + MaxPosts
  /\ timerTicks \in 0 .. MaxTicks
  /\ spc \in [Waiters -> PCs]
  /\ timeout \in [Waiters -> Timeouts \cup {0}]
  /\ start \in [Waiters -> 0 .. MaxTicks]
  /\ granted \in SUBSET Waiters
  /\ posted \in 0 .. MaxPosts
  /\ taken \in Nat

SemInit ==
  /\ sflag = FALSE
  /\ scnt = Initial
  /\ timerTicks = 0
  /\ spc = [t \in Waiters |-> "idle"]
  /\ timeout = [t \in Waiters |-> 0]
  /\ start = [t \in Waiters |-> 0]
  /\ granted = {}
  /\ posted = 0
  /\ taken = 0

Goto(t, l) == spc' = [spc EXCEPT ![t] = l]

\* The timer interrupt.
Tick ==
  /\ timerTicks < MaxTicks
  /\ timerTicks' = timerTicks + 1
  /\ UNCHANGED <<sflag, scnt, spc, timeout, start, granted, posted, taken>>

CallWait(t, d) ==
  /\ spc[t] = "idle"
  /\ timeout' = [timeout EXCEPT ![t] = d]
  /\ start' = [start EXCEPT ![t] = timerTicks]
  /\ granted' = granted \ {t}
  /\ Goto(t, "check")
  /\ UNCHANGED <<sflag, scnt, timerTicks, posted, taken>>

\* Slip: a wait takes the unit without counting it down.
MutantTestKeepsUnit(t) ==
  /\ spc[t] = "test"
  /\ \/ /\ scnt > 0
        /\ scnt' = scnt
        /\ taken' = taken + 1
        /\ granted' = granted \cup {t}
        /\ Goto(t, "unlock_ok")
     \/ /\ scnt <= 0
        /\ Goto(t, "unlock_again")
        /\ UNCHANGED <<scnt, taken, granted>>
  /\ UNCHANGED <<sflag, timerTicks, timeout, start, posted>>

\* Slip: post returns without freeing the inner flag.
MutantUnlockPost(t) ==
  /\ spc[t] \in {"unlock_ok", "unlock_again", "post_unlock"}
  /\ sflag' = (spc[t] = "post_unlock")
  /\ Goto(t, CASE spc[t] = "unlock_ok"    -> "true"
               [] spc[t] = "unlock_again" -> "check"
               [] spc[t] = "post_unlock"  -> "idle")
  /\ UNCHANGED <<scnt, timerTicks, timeout, start, granted, posted, taken>>
-----------------------------------------------------------------------------
\* The head of wait's loop: only a wait with a timeout looks at the clock.
CheckTimeout(t) ==
  /\ spc[t] = "check"
  /\ Goto(t, IF timeout[t] > 0 /\ timerTicks > start[t] + timeout[t]
               THEN "false" ELSE "lock")
  /\ UNCHANGED <<sflag, scnt, timerTicks, timeout, start, granted, posted, taken>>

\* Spinlock.acquire's successful swap, in wait and in post.
SemSwap(t) ==
  /\ spc[t] \in {"lock", "post_lock"}
  /\ ~sflag
  /\ sflag' = TRUE
  /\ Goto(t, IF spc[t] = "lock" THEN "test" ELSE "post_add")
  /\ UNCHANGED <<scnt, timerTicks, timeout, start, granted, posted, taken>>

Test(t) ==
  /\ spc[t] = "test"
  /\ \/ /\ scnt > 0
        /\ scnt' = scnt - 1
        /\ taken' = taken + 1
        /\ granted' = granted \cup {t}
        /\ Goto(t, "unlock_ok")
     \/ /\ scnt <= 0
        /\ Goto(t, "unlock_again")
        /\ UNCHANGED <<scnt, taken, granted>>
  /\ UNCHANGED <<sflag, timerTicks, timeout, start, posted>>

\* Spinlock.release: on success wait returns true, otherwise it loops.
SemUnlock(t) ==
  /\ spc[t] \in {"unlock_ok", "unlock_again", "post_unlock"}
  /\ sflag' = FALSE
  /\ Goto(t, CASE spc[t] = "unlock_ok"    -> "true"
               [] spc[t] = "unlock_again" -> "check"
               [] spc[t] = "post_unlock"  -> "idle")
  /\ UNCHANGED <<scnt, timerTicks, timeout, start, granted, posted, taken>>

\* The caller looks at the result and goes on.
Return(t) ==
  /\ spc[t] \in {"true", "false"}
  /\ Goto(t, "idle")
  /\ UNCHANGED <<sflag, scnt, timerTicks, timeout, start, granted, posted, taken>>

CallPost(t) ==
  /\ spc[t] = "idle"
  /\ posted + Cardinality({u \in Waiters : spc[u] \in {"post_lock", "post_add"}})
       < MaxPosts
  /\ Goto(t, "post_lock")
  /\ UNCHANGED <<sflag, scnt, timerTicks, timeout, start, granted, posted, taken>>

Post(t) ==
  /\ spc[t] = "post_add"
  /\ scnt' = scnt + 1
  /\ posted' = posted + 1
  /\ Goto(t, "post_unlock")
  /\ UNCHANGED <<sflag, timerTicks, timeout, start, granted, taken>>

SemStep(t) ==
  CheckTimeout(t) \/ SemSwap(t) \/ Test(t) \/ SemUnlock(t) \/ Return(t) \/ Post(t)

SemNext ==
  \/ Tick
  \/ \E t \in Waiters : SemStep(t) \/ CallPost(t) \/ \E d \in Timeouts : CallWait(t, d)

SemSpec == SemInit /\ [][SemNext]_semVars

\* The timer keeps ticking, threads inside a call are scheduled, and
\* a spinning swap meets a free flag again and again, because a
\* failed test frees it before handControl.
CallFairness == \A t \in Waiters : WF_semVars(SemStep(t)) /\ SF_semVars(SemSwap(t))

SemFairSpec == SemSpec /\ WF_semVars(Tick) /\ CallFairness

-----------------------------------------------------------------------------
InSemSection(t) == spc[t] \in {"test", "unlock_ok", "unlock_again", "post_add", "post_unlock"}

\* No unit is lost or invented whatever the interleaving of waits, posts and
\* timeouts: what was put in is what is left plus what was handed out.  wait
\* returns true exactly when this call took a unit; one that gave up took none.
UnitsConserved ==
  /\ scnt + taken = Initial + posted
  /\ \A t \in Waiters : /\ spc[t] = "true" => t \in granted
                        /\ spc[t] \in Waiting \cup {"false"} => t \notin granted

\* A wait that has a timeout, called with enough of the (bounded) timer left,
\* ends, even when no post ever comes.
TimedWaitEnds ==
  \A t \in Waiters :
    (spc[t] \in Waiting /\ timeout[t] > 0 /\ start[t] + timeout[t] < MaxTicks)
       ~> spc[t] \notin Waiting

\* A unit that is there is not slept through: while a unit is available and a
\* thread waits without a timeout, a unit is handed out.
UnitIsHandedOut ==
  \A k \in 0 .. Initial + MaxPosts :
    (taken = k /\ scnt > 0 /\ \E t \in Waiters : spc[t] \in Waiting /\ timeout[t] = 0)
       ~> taken > k
=============================================================================
