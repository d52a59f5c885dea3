---------------------------- MODULE LatencyContract ----------------------------
(***************************************************************************)
(* What a latency test promises its caller, TestNetRelays.  The test of a  *)
(* set of candidate relays runs, then either returns an acceptable result  *)
(* or takes the process down with a panic; a probe that an incomplete test *)
(* left behind can still do so after the test has returned.  LatencyTest   *)
(* is the implementation, with its goroutines, channel and data races.     *)
(***************************************************************************)
EXTENDS RelayLists

CONSTANT Candidates  (* the occurrences of the list the test is given *)

VARIABLES state,   (* "running", "returned" or "crashed"        *)
          result   (* what was returned, NoResult until then    *)

vars == <<state, result>>

-----------------------------------------------------------------------------

Init == state = "running" /\ result = NoResult

Return == /\ state = "running"
          /\ state' = "returned"
          /\ result' \in Acceptable(Candidates)

(* A panic of the test or, when the result is incomplete, of a probe that  *)
(* it left behind.                                                         *)
Crash == /\ \/ state = "running"
            \/ state = "returned" /\ ~Complete(Candidates, result)
         /\ state' = "crashed"
         /\ UNCHANGED result

Next == Return \/ Crash

(* The test ends, because its timer fires. *)
Spec == Init /\ [][Next]_vars /\ WF_vars(state = "running" /\ Next)
=============================================================================
