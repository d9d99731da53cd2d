-------------------------------- MODULE Acd --------------------------------
(***************************************************************************)
(* The address conflict detector of the network stack (acd.c) as operators *)
(* on one `struct acd`: probes before an address is used, announcements,   *)
(* the defence of an address in use, and the rate limit after many         *)
(* conflicts.  An operator returns the detector's next record and the      *)
(* calls it makes to acd_conflict_callback, in order.                      *)
(*                                                                         *)
(* `ttw` is only ever counted down to zero, so the record does not keep    *)
(* it: a state that waits may see its wait end at any time.  Likewise      *)
(* lastconflict > 0 is the Boolean `defended`.                             *)
(***************************************************************************)
EXTENDS Naturals, Sequences

CONSTANTS ProbeNum, AnnounceNum, MaxConflicts

AcdOff == [st |-> "OFF", sent |-> 0, ip |-> "none", conflicts |-> 0, defended |-> FALSE]

Probing == {"PROBE_WAIT", "PROBING", "ANNOUNCE_WAIT"}

Defending == {"ANNOUNCING", "ONGOING"}

\* The states in which acd_tmr waits for ttw to reach zero.
Waiting == Probing \cup {"ANNOUNCING", "RATE_LIMIT"}

acd_start(a, ip) ==
  [a EXCEPT !.st = "PROBE_WAIT", !.sent = 0, !.ip = ip, !.defended = FALSE]

acd_stop(a) == [a EXCEPT !.st = "OFF"]

\* The conflict counter stops at MaxConflicts: only the comparison is used.
acd_restart(a) ==
  LET n == IF a.conflicts < MaxConflicts THEN a.conflicts + 1 ELSE a.conflicts
      b == [a EXCEPT !.conflicts = n]
  IN  IF n >= MaxConflicts
        THEN [acd |-> [b EXCEPT !.st = "RATE_LIMIT"], calls |-> <<"DECLINE">>]
        ELSE [acd |-> acd_stop(b), calls |-> <<"DECLINE", "RESTART">>]

acd_handle_arp_conflict(a) ==
  IF a.defended
    THEN acd_restart(a)
    ELSE [acd |-> [a EXCEPT !.defended = TRUE], calls |-> <<>>]

\* Another host's ARP packet claims the address the detector watches.
acd_arp_reply(a) ==
  IF a.st \in Probing THEN acd_restart(a)
  ELSE IF a.st \in Defending THEN acd_handle_arp_conflict(a)
  ELSE [acd |-> a, calls |-> <<>>]

ProbeTick(a) ==
  IF a.sent + 1 >= ProbeNum
    THEN [a EXCEPT !.st = "ANNOUNCE_WAIT", !.sent = 0]
    ELSE [a EXCEPT !.st = "PROBING", !.sent = a.sent + 1]

AnnounceTick(a) ==
  IF a.sent + 1 >= AnnounceNum
    THEN [acd |-> [a EXCEPT !.st = "ONGOING", !.sent = 0,
                            !.conflicts = IF a.sent = 0 THEN 0 ELSE @],
          calls |-> <<"IP_OK">>]
    ELSE [acd |-> [a EXCEPT !.st = "ANNOUNCING", !.sent = a.sent + 1,
                            !.conflicts = IF a.sent = 0 THEN 0 ELSE @],
          calls |-> <<>>]

\* acd_tmr when ttw reaches zero.
acd_tmr(a) ==
  CASE a.st \in {"PROBE_WAIT", "PROBING"} -> [acd |-> ProbeTick(a), calls |-> <<>>]
    [] a.st \in {"ANNOUNCE_WAIT", "ANNOUNCING"} -> AnnounceTick(a)
    [] a.st = "RATE_LIMIT" -> [acd |-> acd_stop(a), calls |-> <<"RESTART">>]
    [] OTHER -> [acd |-> a, calls |-> <<>>]
=============================================================================
