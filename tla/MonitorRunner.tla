----------------------------- MODULE MonitorRunner -----------------------------
(***************************************************************************)
(* The commands start-prometheus and start-rtview: StartPrometheus of      *)
(* runner/prometheuscfg and StartRtView of runner/rtview.  Each writes the *)
(* configuration of the program it runs, as MonitorFiles says, starts it   *)
(* in a goroutine by process.Exec (ExecContract), and waits on a channel   *)
(* for its error.                                                          *)
(*                                                                         *)
(* The file outlives the process, and gocnode.yaml may be another at the   *)
(* next start.  A file is truncated before it is written, and the command  *)
(* reads it when it starts.                                                *)
(***************************************************************************)
EXTENDS MonitorFiles

CONSTANTS Kinds,     (* of the monitors considered: Monitors, or one       *)
          Confs,     (* what gocnode.yaml may say                          *)
          MaxStarts  (* bound: how often the program is started            *)

Monitors == {"prometheus", "rtview"}

ASSUME KindsKnown == Kinds \subseteq Monitors
ASSUME ConfsAreLists ==
    LET nodes == Seq([expPort : Nat, rtPort : Nat])
    IN  \A c \in Confs : c.relays \in nodes /\ c.producers \in nodes
ASSUME StartsPositive == MaxStarts \in Nat \ {0}

VARIABLES kind,
          conf,       (* the configuration of this start                   *)
          file,       (* the monitor's configuration file on disk          *)
          lost,       (* this start's write of it failed                   *)
          main,       (* where the runner is                               *)
          goroutine,  (* "idle", "exec", "send" or "done"                  *)
          cmdPhase, cmdFailed,  (* process.Exec on the monitor             *)
          loaded,     (* the file as the monitor read it                   *)
          starts

setting == <<kind, conf, starts>>
command == <<goroutine, cmdPhase, cmdFailed, loaded>>
vars == <<setting, file, lost, main, command>>

Absent == [state |-> "absent", list |-> <<>>]
Partial == [state |-> "partial", list |-> <<>>]
Written(list) == [state |-> "whole", list |-> list]

Content == IF kind = "prometheus" THEN ScrapeConfigs(conf) ELSE TraceAcceptAt(conf)

Exec == INSTANCE ExecContract WITH phase <- cmdPhase, failed <- cmdFailed

Step(from, to) == main = from /\ main' = to

-----------------------------------------------------------------------------
(* The configuration file. *)

(* initConfig, New and GetYaml or GetJSON ... *)
Prepare == /\ Step("config", "write")
           /\ UNCHANGED <<setting, file, lost, command>>

(* ... or no logger; RTView's directory cannot be looked at or made.  A    *)
(* gocnode.yaml that cannot be read is complained of for ever.             *)
PrepareFails == /\ \/ Step("config", "returned")
                   \/ Step("config", "stuck")
                /\ UNCHANGED <<setting, file, lost, command>>

(* ioutil.WriteFile truncates the file ... *)
Truncate == /\ Step("write", "fill")
            /\ file' = Partial
            /\ UNCHANGED <<setting, lost, command>>

(* ... and fills it. *)
Fill == /\ Step("fill", "launch")
        /\ file' = Written(Content)
        /\ UNCHANGED <<setting, lost, command>>

(* Slip: neither CreateConfigFile returns the error. *)
WriteFailsUnseen == /\ main \in {"write", "fill"}
                    /\ main' = "launch"
                    /\ lost' = TRUE
                    /\ UNCHANGED <<setting, file, command>>

(* It cannot be opened, or not be filled.  RTView's CreateConfigFile       *)
(* returns the error; that of Prometheus returns another variable, nil.    *)
WriteFails == /\ main \in {"write", "fill"}
              /\ main' = IF kind = "prometheus" THEN "launch" ELSE "returned"
              /\ lost' = TRUE
              /\ UNCHANGED <<setting, file, command>>

-----------------------------------------------------------------------------
(* The command. *)

Launch == /\ Step("launch", "select")
          /\ goroutine' = "exec"
          /\ UNCHANGED <<setting, file, lost, cmdPhase, cmdFailed, loaded>>

(* process.Exec; the monitor reads its file when it starts. *)
Run == /\ main = "select"
       /\ goroutine = "exec"
       /\ Exec!Next
       /\ loaded' = IF cmdPhase = "idle" THEN file ELSE loaded
       /\ UNCHANGED <<setting, file, lost, main, goroutine>>

(* Slip: the error of Exec is not sent. *)
EndSilently == /\ main = "select"
               /\ goroutine = "exec" /\ cmdPhase = "returned"
               /\ goroutine' = "done"
               /\ UNCHANGED <<setting, file, lost, main, cmdPhase, cmdFailed, loaded>>

(* Only an error is sent. *)
End == /\ main = "select"
       /\ goroutine = "exec" /\ cmdPhase = "returned"
       /\ goroutine' = IF cmdFailed THEN "send" ELSE "done"
       /\ UNCHANGED <<setting, file, lost, main, cmdPhase, cmdFailed, loaded>>

(* err = <-cmdsErr *)
Receive == /\ Step("select", "returned")
           /\ goroutine = "send"
           /\ goroutine' = "done"
           /\ UNCHANGED <<setting, file, lost, cmdPhase, cmdFailed, loaded>>

-----------------------------------------------------------------------------

Kill == /\ main \notin {"returned", "killed"}
        /\ starts < MaxStarts
        /\ main' = "killed"
        /\ UNCHANGED <<setting, file, lost, command>>

(* The container starts it again, perhaps with another gocnode.yaml. *)
Restart == /\ main \in {"returned", "killed"}
           /\ starts < MaxStarts
           /\ starts' = starts + 1
           /\ conf' \in Confs
           /\ main' = "config"
           /\ lost' = FALSE
           /\ goroutine' = "idle"
           /\ cmdPhase' = "idle" /\ cmdFailed' = FALSE
           /\ loaded' = Absent
           /\ UNCHANGED <<kind, file>>

(* It is over, or waits for ever: for the next complaint, or on the        *)
(* channel when the command has ended well.                                *)
Terminated == /\ \/ main \in {"stuck", "returned", "killed"}
                 \/ main = "select" /\ goroutine = "done"
              /\ UNCHANGED vars

Init == /\ kind \in Kinds
        /\ conf \in Confs
        /\ file = Absent
        /\ lost = FALSE
        /\ main = "config"
        /\ goroutine = "idle"
        /\ Exec!Init
        /\ loaded = Absent
        /\ starts = 1

Next == \/ Prepare \/ PrepareFails \/ Truncate \/ Fill \/ WriteFails
        \/ Launch \/ Run \/ End \/ Receive
        \/ Kill \/ Restart \/ Terminated

(* Goroutines that can run do, and Exec keeps its contract. *)
Fairness == /\ WF_vars(End) /\ WF_vars(Receive)
            /\ WF_vars(Run /\ cmdPhase = "exited")

Spec == Init /\ [][Next]_vars /\ Fairness

-----------------------------------------------------------------------------
(* Properties. *)

Preparing == {"config", "stuck", "write", "fill", "launch"}

FileContents == {Absent, Partial}
                    \cup {Written(ScrapeConfigs(c)) : c \in Confs}
                    \cup {Written(TraceAcceptAt(c)) : c \in Confs}

(* The types of the runner's state (prometheus_args.go:34-62,              *)
(* rtview_args.go:32-65).                                                  *)
TypeOK ==
    /\ kind \in Kinds /\ conf \in Confs
    /\ file \in FileContents /\ loaded \in FileContents
    /\ lost \in BOOLEAN
    /\ main \in Preparing \cup {"select", "returned", "killed"}
    /\ goroutine \in {"idle", "exec", "send", "done"}
    /\ cmdPhase \in {"idle", "running", "exited", "returned"}
    /\ cmdFailed \in BOOLEAN
    /\ starts \in 1 .. MaxStarts

(* The monitor that has read this file watches the node: Prometheus where  *)
(* the node's config.json offers metrics, RTView where it forwards traces. *)
Watched(name) ==
    LET node == NodeOf(conf, name)
        entries == {k \in DOMAIN loaded.list : loaded.list[k].node = name}
        at(k) == loaded.list[k].port
    IN  IF kind = "prometheus"
        THEN \E k \in entries : /\ loaded.list[k].what = "cardano"
                                /\ at(k) = NodeSettings(node).hasPrometheus
        ELSE \E k \in entries : /\ entries = {k}
                                /\ at(k) = NodeSettings(node).traceForwardTo

AllWatched == \A name \in NodeNames(conf) : Watched(name)

Unknown == {k \in DOMAIN loaded.list :
               loaded.list[k].node \notin NodeNames(conf) \cup {<<"master">>}}

(* However often it is killed, in the middle of a write as well, and       *)
(* whatever an earlier start left behind, a monitor runs with every node   *)
(* of this configuration and no other (rtview_args.go:40-43,               *)
(* prometheuscfg.go:108-115), unless Prometheus' write has failed.         *)
EveryNodeWatched ==
    cmdPhase # "idle" /\ (kind = "prometheus" => ~lost) => AllWatched /\ Unknown = {}

(* The runner as the container runtime sees it. *)
stage == CASE main \in Preparing -> "preparing"
           [] main = "select" -> "serving"
           [] OTHER -> main

failed == cmdPhase = "returned" /\ cmdFailed

Contract == INSTANCE RunnerContract

(* Both runners keep the contract of a runner: the command starts when the *)
(* file has been seen to, and its failure, nothing else, brings them back  *)
(* (prometheus_args.go:42-61, rtview_args.go:40-64).                       *)
ImplementsRunner == Contract!Spec
=============================================================================
