------------------------------ MODULE MCTopology ------------------------------
(***************************************************************************)
(* A configuration of Topology for TLC: one published node, one node of    *)
(* the pool and four public relays, two of them under one address and port *)
(* and one of them the operator's own.                                     *)
(***************************************************************************)
EXTENDS Topology

CONSTANTS published, own, r1, r2, twin, mine

MCDefault == <<published>>
MCPoolNodes == <<own>>
MCPublic == <<r1, r2, twin, mine>>
MCOwnRelays == {mine}
MCKey == [p \in {r1, r2, twin, mine} |-> IF p = twin THEN r1 ELSE p]
MCRoles == RelayRoles \cup {"producer"}
=============================================================================
