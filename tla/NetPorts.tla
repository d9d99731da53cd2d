------------------------------ MODULE NetPorts ------------------------------
(* Port numbers of the network stack (networking/stack/netports.rs). Every     *)
(* operation runs under the structure's mutex, so each is one action.          *)
EXTENDS Integers

CONSTANTS
  Sockets,    \* the callers; each keeps the port it got until it frees it
  NETPORTS_EPH_START, NETPORTS_AVAILABLE_PORTS,
  PortWidth,  \* number of values of a u16: 65536 in the code
  StartSpan   \* 128 in the code

VARIABLES
  ports,           \* ports whose bit is set
  last_eph_port,
  held,            \* the port of a socket, 0 when it has none
  exhausted        \* the panic of gen

portVars == <<ports, last_eph_port, held, exhausted>>

Indices == 0 .. NETPORTS_AVAILABLE_PORTS - 1
Ephemeral == NETPORTS_EPH_START .. NETPORTS_AVAILABLE_PORTS - 1
Starts == NETPORTS_EPH_START .. NETPORTS_EPH_START + StartSpan - 1

PortsTypeOK ==
  /\ ports \subseteq Indices /\ last_eph_port \in 0 .. PortWidth - 1
  /\ held \in [Sockets -> Indices] /\ exhausted \in BOOLEAN

\* new
PortsInit ==
  /\ ports = {} /\ last_eph_port \in Starts
  /\ held = [s \in Sockets |-> 0] /\ exhausted = FALSE

-----------------------------------------------------------------------------
\* The two scans of gen: from the port after the last one given, then from the
\* start of the ephemeral range.
Higher(from) == {i \in from .. NETPORTS_AVAILABLE_PORTS - 1 : i \notin ports}
Lower(from) == {i \in NETPORTS_EPH_START .. from - 1 : i \notin ports}

Lowest(S) == CHOOSE i \in S : \A j \in S : i <= j
-----------------------------------------------------------------------------
\* gen_inner
GenInner(s, port) ==
  /\ ports' = ports \cup {port}
  /\ last_eph_port' = port
  /\ held' = [held EXCEPT ![s] = port]
  /\ UNCHANGED exhausted

\* Where the scan of gen starts: wrapping_add, and a random start when that
\* leaves the ephemeral range.
ScanStarts ==
  LET next == (last_eph_port + 1) % PortWidth
  IN  IF next < NETPORTS_EPH_START THEN Starts ELSE {next}

Gen(s) ==
  /\ held[s] = 0
  /\ \E from \in ScanStarts :
       \/ Higher(from) # {} /\ GenInner(s, Lowest(Higher(from)))
       \/ Higher(from) = {} /\ Lower(from) # {} /\ GenInner(s, Lowest(Lower(from)))
       \/ /\ Higher(from) = {} /\ Lower(from) = {}
          /\ last_eph_port' = from /\ exhausted' = TRUE
          /\ UNCHANGED <<ports, held>>

\* mark_safe: a bind to a port the caller names; FALSE when it is taken.
MarkSafe(s, port) ==
  /\ held[s] = 0
  /\ port \notin ports
  /\ ports' = ports \cup {port}
  /\ held' = [held EXCEPT ![s] = port]
  /\ UNCHANGED <<last_eph_port, exhausted>>

FreePort(s) ==
  /\ held[s] # 0
  /\ ports' = ports \ {held[s]}
  /\ held' = [held EXCEPT ![s] = 0]
  /\ UNCHANGED <<last_eph_port, exhausted>>

PortsNext ==
  /\ ~exhausted
  /\ \E s \in Sockets :
       \/ Gen(s) \/ FreePort(s)
       \/ \E port \in Indices \ {0} : MarkSafe(s, port)

PortsSpec == PortsInit /\ [][PortsNext]_portVars
-----------------------------------------------------------------------------
\* Two sockets never hold one port, and the assertion of free never fails: the
\* bit of a port that is held is set, across generated and named ports.
PortsUnique ==
  \A s \in Sockets : held[s] # 0 =>
     /\ held[s] \in ports
     /\ \A t \in Sockets : held[t] = held[s] => s = t

\* gen panics only when every ephemeral port is held, wherever its scan started.
PanicOnlyWhenHeld == exhausted => \A port \in Ephemeral : \E s \in Sockets : held[s] = port

\* A port is not given out again before it is freed, and not refused while one is
\* free (gen, mark_safe, free).
PortsHeldOnce == PortsUnique /\ PanicOnlyWhenHeld
=============================================================================
