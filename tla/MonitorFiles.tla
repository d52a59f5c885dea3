----------------------------- MODULE MonitorFiles -----------------------------
(***************************************************************************)
(* What gocnode writes for the two programs that watch the nodes, GetYaml  *)
(* of runner/prometheuscfg and GetJSON of runner/rtview, and what it puts  *)
(* into config.json for the nodes to be watched (cardanocfg/config_json.go)*)
(*                                                                         *)
(* conf.relays and conf.producers are the lists of nodes of gocnode.yaml,  *)
(* with the ports that config.New completes.                               *)
(***************************************************************************)
EXTENDS Naturals, Sequences

Names(role, nodes) == {role} \X (0 .. Len(nodes) - 1)

NodeNames(conf) == Names("relay", conf.relays) \cup Names("producer", conf.producers)

NodeOf(conf, name) == IF name[1] = "relay" THEN conf.relays[name[2] + 1]
                                           ELSE conf.producers[name[2] + 1]

(* SetPrometheus writes this port into every node's config.json.           *)
MetricsPort == 12798

(* SetPrometheus and SetTraceForwardTo: where a node offers its metrics,   *)
(* and the port of host monitor that it forwards its traces to.            *)
NodeSettings(node) == [hasPrometheus |-> MetricsPort, traceForwardTo |-> node.rtPort]

-----------------------------------------------------------------------------
(* GetYaml: the host's own exporter, then for every node its exporter and  *)
(* its metrics.                                                            *)

Job(node, what, port) == [node |-> node, what |-> what, port |-> port]

Jobs(role, nodes) ==
    [k \in 1 .. 2 * Len(nodes) |->
        LET i == (k - 1) \div 2
        IN  IF k % 2 = 1 THEN Job(<<role, i>>, "exporter", nodes[i + 1].expPort)
                         ELSE Job(<<role, i>>, "cardano", MetricsPort)]

ScrapeConfigs(conf) ==
    <<Job(<<"master">>, "exporter", 9100)>>
        \o Jobs("relay", conf.relays) \o Jobs("producer", conf.producers)

(* GetJSON: RTView accepts the traces of every node at a port of its own.  *)
Acceptors(role, nodes) ==
    [k \in 1 .. Len(nodes) |-> [node |-> <<role, k - 1>>, port |-> nodes[k].rtPort]]

TraceAcceptAt(conf) ==
    Acceptors("relay", conf.relays) \o Acceptors("producer", conf.producers)
=============================================================================
