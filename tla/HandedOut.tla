------------------------------ MODULE HandedOut ------------------------------
(* What the kernel hands out and takes back by number: pages of memory, ids of *)
(* pseudo-terminals and network ports.                                         *)
EXTENDS PhysicalMemory, Pty, NetPorts

\* What is handed out is held by one caller and stays whole: an open descriptor's
\* pair is torn down once, after its last close (ptmxOpen, ptmxDuplicate,
\* ptmxClose), and a port is not given out again before it is freed (gen,
\* mark_safe, free); and ptyBitmapDecide and gen panic only when every id or
\* every ephemeral port is in use.
HeldOnce == PairsHeldOnce /\ PortsHeldOnce
=============================================================================
