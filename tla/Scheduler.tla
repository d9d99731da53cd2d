------------------------------ MODULE Scheduler ------------------------------
(* The task list and the round-robin scheduler of the single processor:        *)
(* schedule (src/src/kernel/multitasking/schedule.rs), the creation, killing   *)
(* and destruction of tasks (multitasking/task.rs), the timer interrupt        *)
(* (cpu/timer.rs) and the reaper of the kernel helper (entry/kernel_helper.rs).*)
(*                                                                             *)
(* schedule runs with interrupts off and is one step, except that it starts    *)
(* over when the task it has picked is killed by a signal.  What the running   *)
(* task does between two calls is cut where an interrupt can fall in between.  *)
(* The walks over the list in task_kill are taken as one step.                 *)
EXTENDS Integers, Sequences, FiniteSets

CONSTANTS
  first, dummy, helper,     \* firstTask, dummyTask and the kernel helper
  Users,                    \* the Task structures user tasks are made from
  None,
  TASK_STATE_READY, TASK_STATE_SIGKILLED,                      \* schedule.rs
  DEAD, CREATED, READY, BLOCKED, DUMMY,                        \* task.rs
  GDT_KERNEL_CODE, UserCS,  \* code selectors of the kernel and of user tasks
  MaxTicks,                 \* bound: the clock stops to count here
  Words,                    \* bound: register contents told apart
  Sleeps,                   \* bound: how long tasks sleep (0: no deadline)
  Signals,                  \* bound: the signals that are sent
  Timers                    \* bound: delays and periods of interval timers

Kernel == {first, dummy, helper}
Tasks == Kernel \cup Users
States == {TASK_STATE_READY, TASK_STATE_SIGKILLED, DEAD, CREATED, READY, BLOCKED, DUMMY}

ASSUME SchedulerAssumption ==
  /\ first # dummy /\ first # helper /\ dummy # helper
  /\ Kernel \cap Users = {} /\ None \notin Tasks
  /\ States \subseteq Nat /\ MaxTicks \in Nat
  /\ Words \in Nat \ {0} /\ Sleeps \subseteq Nat /\ Timers \subseteq Nat
  /\ GDT_KERNEL_CODE \in 0 .. 127 /\ UserCS \in 0 .. 127

VARIABLES
  list,       \* firstTask and what follows it
  state, wakeup, \* per task, state and forcefulWakeupTimeUnsafe
  entry,      \* per task, spinlockQueueEntry is not null
  building,   \* per task, who is creating it
  pending,    \* per task, sigPendingList
  at, reset,  \* per task, itimerReal
  regs, cpu,  \* the saved registers of a task, and those of the processor
  work,       \* what the registers of a task have to be when it runs on
  current, again,  \* currentTask, and whether schedule has to start over
  ticks, reaper    \* timerTicks and REAPER_TASK

task == <<state, wakeup, entry, building>>
signal == <<pending, at, reset>>
context == <<regs, cpu, work>>
vars == <<list, task, signal, context, current, again, ticks, reaper>>

Init ==
  /\ list = <<first, dummy>>
  /\ state = [t \in Tasks |-> IF t = dummy THEN DUMMY ELSE IF t = first THEN READY ELSE DEAD]
  /\ wakeup = [t \in Tasks |-> 0]
  /\ entry = [t \in Tasks |-> FALSE]
  /\ building = [t \in Tasks |-> None]
  /\ pending = [t \in Tasks |-> {}]
  /\ at = [t \in Tasks |-> 0] /\ reset = [t \in Tasks |-> 0]
  /\ regs = [t \in Tasks |-> 0] /\ cpu = 0 /\ work = [t \in Tasks |-> 0]
  /\ current = first /\ again = FALSE
  /\ ticks = 0 /\ reaper = None

\* A task is on a list; a list without the task at a position.
On(l, t) == \E k \in 1 .. Len(l) : l[k] = t
Without(l, k) == SubSeq(l, 1, k - 1) \o SubSeq(l, k + 1, Len(l))

Listed(t) == On(list, t)
Position(t) == CHOOSE k \in 1 .. Len(list) : list[k] = t
Runs(t) == current = t /\ state[t] = READY /\ ~again

-----------------------------------------------------------------------------
(* Slips one could make in this code.                                        *)

\* Look for the next task from the start of the list every time.
MutantCandidates == list
\* Wake a sleeper one tick early.
MutantExpired(t) == wakeup[t] # 0 /\ wakeup[t] <= ticks + 1
\* Never look at deadlines.
MutantExpiredNever(t) == FALSE
\* Take created tasks for ready ones.
MutantReadyToRun(t) == state[t] \in {TASK_STATE_READY, CREATED}
\* Keep the lock of a task that sleeps with a deadline.
MutantReleases(old, st) == st[old] # TASK_STATE_READY /\ entry[old] /\ wakeup[old] = 0
\* Load the next task's registers and forget to save the old one's.
MutantSaved(old) == regs
\* Handle signals of no task.
MutantSignalled(t, cs, sigs) == FALSE

-----------------------------------------------------------------------------
(* schedule                                                                  *)

AnyBit(x, mask) ==
  \E k \in 0 .. 6 : (x \div 2 ^ k) % 2 = 1 /\ (mask \div 2 ^ k) % 2 = 1

\* signalsRevivableState and signalsPendingQuick.
Revivable(s) == s = BLOCKED
PendingQuick(t) == t \notin Kernel /\ pending[t] # {}
ReadyToRun(t) == state[t] = TASK_STATE_READY
Expired(t) == wakeup[t] # 0 /\ wakeup[t] <= ticks
Wakes(t) == ReadyToRun(t) \/ (Revivable(state[t]) /\ PendingQuick(t)) \/ Expired(t)

\* The order of the search: behind the current task, then from the start.
Candidates == SubSeq(list, Position(current) + 1, Len(list)) \o list
Picked ==
  LET woken == {k \in 1 .. Len(Candidates) : Wakes(Candidates[k])}
  IN IF woken = {} THEN dummy ELSE Candidates[CHOOSE k \in woken : \A j \in woken : k <= j]

Revived(t) == Wakes(t) /\ ~ReadyToRun(t)

\* The interval timer of a user task, looked at when the task is picked.
Fires(t) == t \notin Kernel /\ at[t] # 0 /\ at[t] <= ticks

Releases(old, st) == st[old] # TASK_STATE_READY /\ entry[old]
Saved(old) == [regs EXCEPT ![old] = cpu]

\* signalsPendingHandleSched is called for a user task stopped in user mode:
\* TERM kills it, other signals go to its handler.
Signalled(t, cs, sigs) == t \notin Kernel /\ ~AnyBit(cs, GDT_KERNEL_CODE) /\ sigs # {}

Schedule ==
  LET next == Picked
      old == current
      revived == Revived(next)
      st == IF revived THEN [state EXCEPT ![next] = TASK_STATE_READY] ELSE state
      fires == Fires(next)
      sigs == IF fires THEN pending[next] \cup {"ALRM"} ELSE pending[next]
      handled == Signalled(next, UserCS, sigs)
      killed == handled /\ "TERM" \in sigs
  IN /\ wakeup' = IF revived THEN [wakeup EXCEPT ![next] = 0] ELSE wakeup
     /\ entry' = IF Releases(old, st) THEN [entry EXCEPT ![old] = FALSE] ELSE entry
     /\ at' = IF fires THEN [at EXCEPT ![next] = IF reset[next] = 0 THEN 0 ELSE ticks + reset[next]]
              ELSE at
     /\ pending' = [pending EXCEPT ![next] = IF handled /\ ~killed THEN {} ELSE sigs]
     /\ state' = IF killed THEN [st EXCEPT ![next] = TASK_STATE_SIGKILLED] ELSE st
     /\ again' = killed
     /\ \/ /\ killed
           /\ UNCHANGED <<current, regs, cpu>>
        \/ /\ ~killed
           /\ current' = next
           /\ regs' = Saved(old)
           /\ cpu' = Saved(old)[next]
     /\ UNCHANGED <<list, building, reset, work, reaper>>

\* The running task gives up the processor, or schedule starts over.
HandControl == Schedule /\ UNCHANGED ticks
\* The timer interrupt: the search sees the new time.
TimerTick ==
  /\ ~again /\ ticks < MaxTicks
  /\ ticks' = ticks + 1
  /\ UNCHANGED <<list, task, signal, context, current, reaper>>
  /\ again' = TRUE

-----------------------------------------------------------------------------
(* What running tasks do                                                     *)

\* The running task computes.
Compute ==
  /\ Runs(current) /\ current \in Users
  /\ cpu' = (cpu + 1) % Words
  /\ work' = [work EXCEPT ![current] = (@ + 1) % Words]
  /\ UNCHANGED <<list, task, signal, regs, current, again, ticks, reaper>>

\* The running task goes to sleep, with a deadline or not, and may leave a lock
\* for schedule to release.  The kernel's own first task sleeps during the boot.
Block(delay, lock) ==
  /\ Runs(current)
  /\ current \in Users \/ (current = first /\ ~Listed(helper) /\ ~lock)
  /\ state' = [state EXCEPT ![current] = BLOCKED]
  /\ wakeup' = [wakeup EXCEPT ![current] = IF delay = 0 THEN 0 ELSE ticks + delay]
  /\ entry' = [entry EXCEPT ![current] = @ \/ lock]
  /\ UNCHANGED <<list, building, signal, context, current, again, ticks, reaper>>

\* Another task or an interrupt handler wakes a sleeper.
Wake(t) ==
  /\ ~again /\ Listed(t) /\ state[t] = BLOCKED
  /\ state' = [state EXCEPT ![t] = READY]
  /\ wakeup' = [wakeup EXCEPT ![t] = 0]
  /\ UNCHANGED <<list, entry, building, signal, context, current, again, ticks, reaper>>

\* A signal is sent, and the interval timer is set.
SendSignal(t, s) ==
  /\ ~again /\ Listed(t) /\ t \in Users /\ building[t] = None
  /\ pending' = [pending EXCEPT ![t] = @ \cup {s}]
  /\ UNCHANGED <<list, task, at, reset, context, current, again, ticks, reaper>>

SetItimer(delay, period) ==
  /\ Runs(current) /\ current \in Users
  /\ at' = [at EXCEPT ![current] = IF delay = 0 THEN 0 ELSE ticks + delay]
  /\ reset' = [reset EXCEPT ![current] = period]
  /\ UNCHANGED <<list, task, pending, context, current, again, ticks, reaper>>

\* task_list_allocate links a zeroed Task; task_create fills it in and marks it
\* CREATED; its creator makes it READY.
ListAllocate(t) ==
  /\ Runs(current) /\ current \in Users \cup {first} /\ Listed(helper) /\ ~Listed(t)
  /\ \A u \in Users : building[u] # current
  /\ list' = Append(list, t)
  /\ state' = [state EXCEPT ![t] = 0]
  /\ wakeup' = [wakeup EXCEPT ![t] = 0]
  /\ entry' = [entry EXCEPT ![t] = FALSE]
  /\ building' = [building EXCEPT ![t] = current]
  /\ pending' = [pending EXCEPT ![t] = {}]
  /\ at' = [at EXCEPT ![t] = 0] /\ reset' = [reset EXCEPT ![t] = 0]
  /\ regs' = [regs EXCEPT ![t] = 0] /\ work' = [work EXCEPT ![t] = 0]
  /\ UNCHANGED <<cpu, current, again, ticks, reaper>>

Create(t) ==
  /\ Runs(building[t]) /\ state[t] = 0
  /\ state' = [state EXCEPT ![t] = CREATED]
  /\ UNCHANGED <<list, wakeup, entry, building, signal, context, current, again, ticks, reaper>>

CreateFinish(t) ==
  /\ Runs(building[t]) /\ state[t] = CREATED
  /\ state' = [state EXCEPT ![t] = READY]
  /\ building' = [building EXCEPT ![t] = None]
  /\ UNCHANGED <<list, wakeup, entry, signal, context, current, again, ticks, reaper>>

\* initiate_kernel_threads: the kernel starts its helper.
StartHelper ==
  /\ Runs(first) /\ ~Listed(helper)
  /\ list' = Append(list, helper)
  /\ state' = [state EXCEPT ![helper] = READY]
  /\ UNCHANGED <<wakeup, entry, building, signal, context, current, again, ticks, reaper>>

\* task_kill, of another task or of the running one (which then loops until the
\* next interrupt).
Kill(t) ==
  /\ Runs(current) /\ current \in Users \cup {first}
  /\ Listed(t) /\ building[t] = None /\ \A u \in Users : building[u] # t
  /\ state' = [state EXCEPT ![t] = DEAD]
  /\ UNCHANGED <<list, wakeup, entry, building, signal, context, current, again, ticks, reaper>>

\* A dead or killed task is handed to the reaper's one slot.
CallReaper(t) ==
  /\ ~again /\ reaper = None /\ Listed(t) /\ building[t] = None
  /\ state[t] \in {DEAD, TASK_STATE_SIGKILLED} /\ \A u \in Users : building[u] # t
  /\ reaper' = t
  /\ UNCHANGED <<list, task, signal, context, current, again, ticks>>

Unlinked(t) == Without(list, Position(t))

\* helper_reaper: kill what a signal killed, then take it off the list and free it.
Reap ==
  /\ Runs(helper) /\ reaper # None
  /\ state[reaper] \in {DEAD, TASK_STATE_SIGKILLED}
  /\ state' = [state EXCEPT ![reaper] = DEAD]
  /\ list' = Unlinked(reaper)
  /\ reaper' = None
  /\ UNCHANGED <<wakeup, entry, building, signal, context, current, again, ticks>>

Next ==
  \/ HandControl \/ TimerTick \/ Compute \/ StartHelper \/ Reap
  \/ Wake(first)
  \/ \E d \in Sleeps, lock \in BOOLEAN : Block(d, lock)
  \/ \E d, p \in Timers : SetItimer(d, p)
  \/ \E t \in Users :
       \/ Wake(t) \/ ListAllocate(t) \/ Create(t) \/ CreateFinish(t) \/ Kill(t) \/ CallReaper(t)
       \/ \E s \in Signals : SendSignal(t, s)

Spec == Init /\ [][Next]_vars

\* The timer interrupt and schedule keep happening, whatever the tasks do: an
\* interrupt that comes while schedule runs is delivered when it is done.
FairSpec == Spec /\ WF_vars(HandControl) /\ SF_vars(TimerTick)

-----------------------------------------------------------------------------
TypeOK ==
  /\ Len(list) <= Cardinality(Tasks)
  /\ Listed(first) /\ Listed(dummy) /\ state[dummy] = DUMMY
  /\ state \in [Tasks -> States]
  /\ entry \in [Tasks -> BOOLEAN]
  /\ pending \in [Tasks -> SUBSET {"ALRM", "TERM"}]
  /\ at \in [Tasks -> Nat]
  /\ current \in Tasks

\* schedule gives the processor to a task that is on the list, that nobody is
\* still making and that is ready by then, or to the dummy task.
OnlyReadyRun ==
  [][current' # current =>
       /\ Listed(current') /\ building[current'] = None
       /\ state'[current'] = READY \/ current' = dummy]_vars

\* Every task runs on with the registers it was stopped with.
ContextPreserved ==
  /\ cpu = work[current]
  /\ \A t \in Tasks \ {current} : Listed(t) => regs[t] = work[t]

\* A lock left for schedule is released by the time a sleeping task is off the
\* processor.
SleeperHoldsNoLock ==
  \A t \in Users : t # current /\ state[t] = BLOCKED => ~entry[t]

\* schedule wakes nobody before the time: without a signal the deadline has come.
NoEarlyWake ==
  [][\A t \in Users :
       ~ReadyToRun(t) /\ state'[t] = TASK_STATE_READY /\ current' = t /\ current # t =>
         pending[t] # {} \/ wakeup[t] <= ticks']_vars

\* A ready task gets the processor, unless it stops being ready first.
ReadyRuns ==
  \A t \in Users : Listed(t) /\ state[t] = READY ~> current = t \/ state[t] # READY

\* A task that sleeps with a deadline does not sleep for ever.
DeadlineHonoured ==
  \A t \in Users : state[t] = BLOCKED /\ wakeup[t] # 0 /\ wakeup[t] <= MaxTicks ~> state[t] # BLOCKED

\* A fatal signal ends a user task that could run.
FatalSignalKills ==
  \A t \in Users : Listed(t) /\ state[t] = READY /\ "TERM" \in pending[t] ~>
                     state[t] # READY \/ "TERM" \notin pending[t]

\* A task that has been killed, or not finished, is never given the processor.
DeadNeverRuns == [][current' # current => state'[current'] # DEAD]_vars
=============================================================================
