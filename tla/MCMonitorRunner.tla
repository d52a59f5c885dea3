--------------------------- MODULE MCMonitorRunner ---------------------------
(***************************************************************************)
(* Configurations of MonitorRunner for TLC: a pool of one relay and one    *)
(* producer, and the same with a second relay and other RTView ports.      *)
(***************************************************************************)
EXTENDS MonitorRunner

NodeWith(rtPort) == [expPort |-> 9100, rtPort |-> rtPort]

MCConfs == {[relays |-> <<NodeWith(7600)>>, producers |-> <<NodeWith(7700)>>],
            [relays |-> <<NodeWith(6600), NodeWith(7601)>>, producers |-> <<NodeWith(6700)>>]}
=============================================================================
