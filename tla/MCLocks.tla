------------------------------- MODULE MCLocks -------------------------------
(* Everything threads wait on, for TLC: the lock primitives of spinlock.rs     *)
(* (SpinlockCnt and Semaphore), pipes and futexes.  They share nothing, so     *)
(* each is explored while the others rest in their initial states; `scope`     *)
(* says which one is in use.  Pipes and futexes have fewer threads here than   *)
(* in MCIpc, which checks their safety.  Requeues go from the first futex to   *)
(* the second, as a condition variable's broadcast makes them.  Spurious       *)
(* wakeups are not fair, so that a wake the pipe's code owes is not supplied   *)
(* by them.                                                                    *)
EXTENDS SpinlockCnt, Semaphore

CONSTANTS Consumers, Producers, PIPE_BUFF, MaxChunk, MaxBytes,
          Tasks, a1, a2, MaxWaits, MaxCalls, MaxCount, NoThread

VARIABLES scope,
          buf, read_fds, write_fds, ppc, left, sent, broken, received, eof,
          asleep_list, lock, awoken, task, state, wakeup_time, fpc, call, calls

pvars == <<buf, read_fds, write_fds, ppc, left, sent, broken, received, eof>>
fvars == <<asleep_list, lock, awoken, task, state, wakeup_time, fpc, call, calls>>
all == <<lockVars, semVars, pvars, fvars, scope>>

Pip == INSTANCE Pipe WITH Readers <- Consumers, Writers <- Producers, pc <- ppc
Ftx == INSTANCE Futex WITH Addrs <- {a1, a2}, RequeuePairs <- {<<a1, a2>>}

MCInit ==
  /\ LockInit /\ SemInit /\ Pip!Init /\ Ftx!FutexInit
  /\ scope \in {"rwlock", "semaphore", "pipe", "futex"}

\* Pipes and futexes may come to rest, with nobody left to make a call.
Rests == scope \in {"pipe", "futex"} /\ UNCHANGED all

MCNext ==
  \/ scope = "rwlock" /\ LockNext /\ UNCHANGED <<semVars, pvars, fvars, scope>>
  \/ scope = "semaphore" /\ SemNext /\ UNCHANGED <<lockVars, pvars, fvars, scope>>
  \/ scope = "pipe" /\ Pip!Next /\ UNCHANGED <<lockVars, semVars, fvars, scope>>
  \/ scope = "futex" /\ Ftx!FutexNext /\ UNCHANGED <<lockVars, semVars, pvars, scope>>
  \/ Rests

\* The timer of the semaphores' timeouts.
SemTick == scope = "semaphore" /\ Tick /\ UNCHANGED <<lockVars, pvars, fvars, scope>>

MCSpec ==
  /\ MCInit /\ [][MCNext]_all
  /\ WF_all(SemTick) /\ CallFairness /\ Pip!Fairness /\ Ftx!FutexFairness

\* Semaphore: a wait with a timeout ends even when nobody posts, and a unit that is
\* there is handed to somebody who waits.
WaitsEnd == TimedWaitEnds /\ UnitIsHandedOut
\* Pipe: a thread that waits for the other end is released when that end is closed.
CloseReleases == Pip!CloseReleases
\* Futex: a call that holds a futex's lock, or wants it, comes to an end.
CallsEnd == Ftx!CallsEnd
=============================================================================
