--------------------------- MODULE TopologyContract ---------------------------
(***************************************************************************)
(* What DownloadAndSetTopologyFile promises the goroutine that calls it,   *)
(* about the file on disk.  It is written once or twice, with the search   *)
(* for public relays in between: it is whole during the search, and cut    *)
(* short only while it is written, or when that write has failed or the    *)
(* process has died in it.  Topology has what is in the file, ConfigFiles  *)
(* the other goroutines around the call; both implement this contract.     *)
(***************************************************************************)

VARIABLES phase,  (* "preparing", "writing", "searching", "rewriting",     *)
                  (* "over" or "dead" (the process)                        *)
          file    (* "absent", "partial" or "whole"                        *)

vars == <<phase, file>>

-----------------------------------------------------------------------------

Init == phase = "preparing" /\ file = "absent"

Truncate == /\ \/ phase = "preparing" /\ phase' = "writing"
               \/ phase = "searching" /\ phase' = "rewriting"
            /\ file' = "partial"

(* A producer's file is not written again. *)
Complete == /\ \/ phase = "writing" /\ phase' \in {"searching", "over"}
               \/ phase = "rewriting" /\ phase' = "over"
            /\ file' = "whole"

(* The search may be the end of it too, when the second write fails before *)
(* it has begun.                                                           *)
GiveUp == /\ phase \in {"preparing", "writing", "searching", "rewriting"}
          /\ phase' = "over"
          /\ UNCHANGED file

Die == /\ phase # "dead"
       /\ phase' = "dead"
       /\ UNCHANGED file

Restart == /\ phase = "dead"
           /\ phase' = "preparing"
           /\ UNCHANGED file

Work == Truncate \/ Complete \/ GiveUp

Next == Work \/ Die \/ Restart

Safety == Init /\ [][Next]_vars

(* The call ends: every download, test and write does. *)
Spec == Safety /\ WF_vars(Work)
=============================================================================
