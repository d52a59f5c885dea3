------------------------------ MODULE MCUpdater ------------------------------
(* A configuration of Updater for TLC: every relay has a port of its own. *)
EXTENDS Updater

MCPorts == [i \in Relays |-> 3000 + i]
=============================================================================
