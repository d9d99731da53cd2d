------------------------------ MODULE Timeouts ------------------------------
(***************************************************************************)
(* The timers of the network stack (timeouts.c): one list of timeouts,     *)
(* sorted by a 32-bit clock that wraps, from which sys_check_timeouts runs *)
(* the handlers that are due; the cyclic timers, which arm themselves      *)
(* again, and the TCP timer, which runs only while there are connections.  *)
(*                                                                         *)
(* sys_check_timeouts is to be called by the stack's thread.  The port     *)
(* does not provide that loop, so the model lets it be called at any time, *)
(* up to MaxLate clock ticks late.  The clock also moves while a handler   *)
(* runs.                                                                   *)
(***************************************************************************)
EXTENDS Integers, Sequences, FiniteSets

CONSTANTS Cyclic,      \* the cyclic timers
          Interval,    \* their periods, and the TCP timer's
          Clock,       \* size of the u32 clock
          MaxLate      \* bound on how far the thread falls behind

VARIABLES now,         \* sys_now()
          starting,    \* the cyclic timers that sys_timeouts_init has yet to start
          timeouts,    \* the list from next_timeout on
          current,     \* the handler that runs, with current_timeout_due_time
          seen,        \* the time sys_check_timeouts read when it was called, or Asleep
          pcbs,        \* tcp_active_pcbs or tcp_tw_pcbs is not empty
          tcpip_tcp_timer_active

timeVars == <<now, starting, timeouts, current, seen, pcbs, tcpip_tcp_timer_active>>

Tcp == "tcpip_tcp_timer"

Timers == Cyclic \cup {Tcp}

Asleep == -1

Nothing == [h |-> "none", time |-> 0]

\* Slip: the comparison forgets that the clock wraps.
MutantLess(t, compare) == t < compare

TIME_LESS_THAN(t, compare) == ((t - compare) + Clock) % Clock >= Clock \div 2

\* The new timeout goes behind every timeout that is not later than it.
sys_timeout_abs(list, time, h) ==
  LET at == CHOOSE k \in 1..(Len(list) + 1) :
              /\ k \in DOMAIN list => TIME_LESS_THAN(time, list[k].time)
              /\ \A j \in 1..(k - 1) : ~TIME_LESS_THAN(time, list[j].time)
  IN  [i \in 1..(Len(list) + 1) |-> IF i < at THEN list[i]
                                    ELSE IF i = at THEN [h |-> h, time |-> time]
                                    ELSE list[i - 1]]

sys_timeout(list, msecs, h) == sys_timeout_abs(list, (now + msecs) % Clock, h)

\* One turn of the loop of sys_timeouts_init; the stack is used only after it.
sys_timeouts_init ==
  \E c \in starting :
    /\ starting' = starting \ {c}
    /\ timeouts' = sys_timeout(timeouts, Interval[c], c)
    /\ UNCHANGED <<now, current, seen, pcbs, tcpip_tcp_timer_active>>

Started == starting = {}

\* A connection is registered or the last one goes; TCP_REG calls tcp_timer_needed.
tcp_timer_needed ==
  /\ Started /\ seen = Asleep
  /\ pcbs' = TRUE
  /\ tcpip_tcp_timer_active' = TRUE
  /\ timeouts' = IF tcpip_tcp_timer_active THEN timeouts
                 ELSE sys_timeout(timeouts, Interval[Tcp], Tcp)
  /\ UNCHANGED <<now, starting, current, seen>>

LastPcbGone ==
  /\ seen = Asleep /\ pcbs
  /\ pcbs' = FALSE
  /\ UNCHANGED <<now, starting, timeouts, current, seen, tcpip_tcp_timer_active>>

\* sys_check_timeouts: the time is read once ...
sys_check_timeouts ==
  /\ Started /\ seen = Asleep
  /\ seen' = now
  /\ UNCHANGED <<now, starting, timeouts, current, pcbs, tcpip_tcp_timer_active>>

\* ... then the head of the list is taken while it is due ...
RunHead ==
  /\ seen # Asleep /\ current = Nothing
  /\ timeouts # <<>> /\ ~TIME_LESS_THAN(seen, Head(timeouts).time)
  /\ current' = Head(timeouts)
  /\ timeouts' = Tail(timeouts)
  /\ UNCHANGED <<now, starting, seen, pcbs, tcpip_tcp_timer_active>>

\* ... and the call returns when it is not.
Return ==
  /\ seen # Asleep /\ current = Nothing
  /\ timeouts = <<>> \/ TIME_LESS_THAN(seen, Head(timeouts).time)
  /\ seen' = Asleep
  /\ UNCHANGED <<now, starting, timeouts, current, pcbs, tcpip_tcp_timer_active>>

\* Slip: the next run is due when this one was.
MutantRearmed(due, period) == due

\* A cyclic timer's handler has run: the next run is one period after this one
\* was due, or after now when that has passed already.
Rearmed(due, period) ==
  LET next == (due + period) % Clock
  IN  IF TIME_LESS_THAN(next, now) THEN (now + period) % Clock ELSE next

lwip_cyclic_timer ==
  /\ current.h \in Cyclic
  /\ timeouts' = sys_timeout_abs(timeouts, Rearmed(current.time, Interval[current.h]), current.h)
  /\ current' = Nothing
  /\ UNCHANGED <<now, starting, seen, pcbs, tcpip_tcp_timer_active>>

\* tcp_tmr may remove the last connection; with none left the timer stops.
tcpip_tcp_timer ==
  /\ current.h = Tcp
  /\ pcbs' \in {FALSE, pcbs}
  /\ timeouts' = IF pcbs' THEN sys_timeout(timeouts, Interval[Tcp], Tcp) ELSE timeouts
  /\ tcpip_tcp_timer_active' = pcbs'
  /\ current' = Nothing
  /\ UNCHANGED <<now, starting, seen>>

\* How long until a time, below zero when it has passed.
Left(time) ==
  LET d == ((time - now) + Clock) % Clock
  IN  IF d < Clock \div 2 THEN d ELSE d - Clock

Tick ==
  /\ \A i \in DOMAIN timeouts : Left(timeouts[i].time) > -MaxLate
  /\ current # Nothing => Left(current.time) > -MaxLate
  /\ now' = (now + 1) % Clock
  /\ UNCHANGED <<starting, timeouts, current, seen, pcbs, tcpip_tcp_timer_active>>

\* Before sys_timeouts_init, at any value of the clock.
TimeInit ==
  /\ now \in 0..(Clock - 1)
  /\ starting = Cyclic /\ timeouts = <<>>
  /\ current = Nothing /\ seen = Asleep
  /\ pcbs = FALSE /\ tcpip_tcp_timer_active = FALSE

TimeNext ==
  \/ sys_timeouts_init
  \/ tcp_timer_needed \/ LastPcbGone
  \/ sys_check_timeouts \/ RunHead \/ Return
  \/ lwip_cyclic_timer \/ tcpip_tcp_timer
  \/ Tick

\* The clock runs, the loop of sys_timeouts_init ends, sys_check_timeouts is called
\* again and again, and ends.
TimeFairness ==
  /\ WF_timeVars(sys_timeouts_init)
  /\ WF_timeVars(Tick)
  /\ WF_timeVars(sys_check_timeouts)
  /\ WF_timeVars(RunHead \/ Return \/ lwip_cyclic_timer \/ tcpip_tcp_timer)

TimeSpec == TimeInit /\ [][TimeNext]_timeVars /\ TimeFairness

----------------------------------------------------------------------------
(* Properties.                                                             *)

\* The list is in the order of time whatever the clock wraps to, and a timeout
\* is never run before it is due.
TimersInOrder ==
  /\ \A i, j \in DOMAIN timeouts : i < j => Left(timeouts[i].time) <= Left(timeouts[j].time)
  /\ current # Nothing => Left(current.time) <= 0

\* Every cyclic timer that was started is in the list or running, once; the TCP timer is there
\* exactly when it is marked active, and always while there are connections.
\* The pool of timeouts, sized for one of each, is never exhausted.
TimersArmed ==
  LET Armed(h) == Cardinality({i \in DOMAIN timeouts : timeouts[i].h = h})
                    + IF current.h = h THEN 1 ELSE 0
  IN  /\ \A h \in Cyclic : Armed(h) = IF h \in starting THEN 0 ELSE 1
      /\ Armed(Tcp) = IF tcpip_tcp_timer_active THEN 1 ELSE 0
      /\ pcbs => tcpip_tcp_timer_active

\* The timers of the stack are sound (timeouts.c).
TimersSound == TimersInOrder /\ TimersArmed

Runs(h) == current.h = h
=============================================================================
