------------------------------- MODULE MCArp --------------------------------
(* Arp for TLC: two hosts and two addresses, one caller.                       *)
EXTENDS Arp
=============================================================================
