---------------------------- MODULE MCConfigNodes ----------------------------
(***************************************************************************)
(* A configuration of ConfigNodes for TLC: two producers and three relays  *)
(* in up to two pools, and host lists that have room for two.  One entry   *)
(* of gocnode.yaml keeps its backups where a relay has its root directory. *)
(***************************************************************************)
EXTENDS ConfigNodes

MCNodeCount == [r \in Roles |-> IF r = "producer" THEN 2 ELSE 3]

(* Of pool a on the test network, with so many external hosts. *)
Plain(n) == [pool |-> "a", network |-> "testnet", exts |-> n, port |-> 0,
             rtPort |-> 0, rootDir |-> <<>>, backupDir |-> <<>>, tmpDir |-> <<>>]

MCSettings ==
    {Plain(0), Plain(1), Plain(2),
     [Plain(1) EXCEPT !.pool = "b", !.network = "mainnet"],
     [Plain(1) EXCEPT !.port = 5100, !.rtPort = 7601, !.rootDir = <<"/data">>],
     [Plain(0) EXCEPT !.backupDir = <<"testnet", "a", "relay", 0>>,
                      !.tmpDir = <<"/tmp", "testnet", "a", "relay", 0>>]}
=============================================================================
