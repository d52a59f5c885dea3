----------------------------- MODULE ExecContract -----------------------------
(***************************************************************************)
(* What process.Exec promises the runners that call it: the command is     *)
(* started or reported as not started, and Exec returns only after the     *)
(* command has ended, with an error exactly when it ended badly.           *)
(***************************************************************************)

VARIABLES phase,   (* "idle", "running", "exited" or "returned"   *)
          failed   (* the command, or its start, ended in failure *)

vars == <<phase, failed>>

-----------------------------------------------------------------------------

Init == phase = "idle" /\ failed = FALSE

Launch == /\ phase = "idle"
          /\ phase' = "running"
          /\ UNCHANGED failed

LaunchFails == /\ phase = "idle"
               /\ phase' = "returned"
               /\ failed' = TRUE

Exit == /\ phase = "running"
        /\ phase' = "exited"
        /\ failed' \in BOOLEAN

Return == /\ phase = "exited"
          /\ phase' = "returned"
          /\ UNCHANGED failed

Next == Launch \/ LaunchFails \/ Exit \/ Return

(* Nothing makes a command end, but Exec returns once it has. *)
Spec == Init /\ [][Next]_vars /\ WF_vars(Return)
=============================================================================
