---------------------------- MODULE RunnerContract ----------------------------
(***************************************************************************)
(* What a runner of gocnode promises whoever starts it, the container      *)
(* runtime: it prepares its files, serves by running its commands, and     *)
(* comes back with an error only when the preparation or a part of its     *)
(* service has failed; such a failure always brings it back.  It may be    *)
(* killed, or crash, at any time, and is then started again.               *)
(***************************************************************************)

VARIABLES stage,   (* "preparing", "serving", "returned" or "killed"       *)
          failed   (* a part of the service has failed                     *)

vars == <<stage, failed>>

-----------------------------------------------------------------------------

Init == stage = "preparing" /\ failed = FALSE

Serve == /\ stage = "preparing"
         /\ stage' = "serving"
         /\ UNCHANGED failed

GiveUp == /\ stage = "preparing"
          /\ stage' = "returned"
          /\ UNCHANGED failed

(* More parts may fail after the one that is reported. *)
Fail == /\ stage \in {"serving", "returned"}
        /\ failed' = TRUE
        /\ UNCHANGED stage

Return == /\ stage = "serving" /\ failed
          /\ stage' = "returned"
          /\ UNCHANGED failed

Die == /\ stage \in {"preparing", "serving"}
       /\ stage' = "killed"
       /\ UNCHANGED failed

Restart == /\ stage \in {"returned", "killed"}
           /\ stage' = "preparing"
           /\ failed' = FALSE

Next == Serve \/ GiveUp \/ Fail \/ Return \/ Die \/ Restart

Safety == Init /\ [][Next]_vars

Spec == Safety /\ WF_vars(Return)
=============================================================================
