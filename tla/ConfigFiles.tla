------------------------------ MODULE ConfigFiles ------------------------------
(***************************************************************************)
(* DownloadConfigFiles of cardanocfg/configfiles.go and the start of the   *)
(* node that waits for it.  Four goroutines each bring one file up to date *)
(* and call Wg.Done; the caller waits for the group and starts the node    *)
(* with the paths they recorded.  A goroutine that fails panics, which     *)
(* ends the process and leaves the files of the others as they are; only   *)
(* the topology goroutine drops its error.  The files outlive the process, *)
(* which is started again.                                                 *)
(*                                                                         *)
(* A file is absent, stale (whole, from an earlier run), partial (it was   *)
(* truncated and not filled), fresh, or junk: whole and of this run, with  *)
(* whatever the server answered, since no HTTP status is looked at.  The   *)
(* topology goroutine writes its file as Topology says, seen here from the *)
(* outside.                                                                *)
(***************************************************************************)
EXTENDS Integers, FiniteSets

CONSTANT MaxCrashes  (* bound: how often the process ends and restarts *)

ASSUME MaxCrashesIsNat == MaxCrashes \in Nat

(* What filesToGet lists; the Alonzo genesis is commented out. *)
Files == {"config", "topology", "shelley", "byron"}

(* What a server answers: the file, or anything else.  A genesis is stored *)
(* as it comes, the settings are put into whatever came for config.json,   *)
(* and the topology is any list of the JSON that came.                     *)
Replies == {"good", "other"}

VARIABLES main,      (* "add", "wait" or "started": newArgs and StartCnode *)
          pc,        (* pc[f]: the next step of the goroutine of file f    *)
          body,      (* body[f]: what it has downloaded                    *)
          wg,        (* the counter of the wait group                      *)
          recorded,  (* the files whose path the Downloader holds          *)
          magic,     (* NetworkMagic of the node: "unset" or "set"         *)
          files,     (* files[f]: what is on disk                          *)
          up,        (* the process lives                                  *)
          crashes    (* how often it has ended                             *)

memory == <<main, pc, body, wg, recorded, magic>>
disk == <<files>>
life == <<up, crashes>>
vars == <<main, pc, body, wg, recorded, magic, files, up, crashes>>

-----------------------------------------------------------------------------

Goto(f, from, to) == /\ up
                     /\ pc[f] = from
                     /\ pc' = [pc EXCEPT ![f] = to]

(* The process ends, by a panic or killed, and its memory is lost. *)
Die == /\ up
       /\ up' = FALSE
       /\ crashes' = crashes + 1
       /\ main' = "add"
       /\ pc' = [f \in Files |-> "idle"]
       /\ body' = [f \in Files |-> "none"]
       /\ wg' = 0
       /\ recorded' = {}
       /\ magic' = "unset"
       /\ UNCHANGED disk

Panic(f, from) == pc[f] = from /\ Die

-----------------------------------------------------------------------------
(* The goroutine of file f: GetConfigFile. *)

(* config.json and the topology are downloaded to a temporary file first.  *)
Download(f) ==
    /\ Goto(f, "download", "open")
    /\ \E reply \in Replies : body' = [body EXCEPT ![f] = reply]
    /\ UNCHANGED <<main, wg, recorded, magic, disk, life>>

(* No directory, and for all but the topology no server, or a reply that   *)
(* does not parse.                                                         *)
DownloadFails(f) == Panic(f, "download")

(* os.Create and ioutil.WriteFile truncate what is there ... *)
Open(f) ==
    /\ \/ Goto(f, "open", "fill")
       \/ Goto(f, "reopen", "refill")
    /\ files' = [files EXCEPT ![f] = "partial"]
    /\ UNCHANGED <<main, body, wg, recorded, magic, life>>

AfterFill(f) == CASE f = "shelley" -> "magic"
                  [] f = "topology" -> "search"
                  [] OTHER -> "record"

(* Slip, for a mutant: the error of io.Copy is lost. *)
FillUnchecked(f) ==
    /\ \/ Goto(f, "fill", AfterFill(f))
       \/ Goto(f, "refill", "record")
    /\ \E content \in {"fresh", "partial"} : files' = [files EXCEPT ![f] = content]
    /\ UNCHANGED <<main, body, wg, recorded, magic, life>>

(* ... and fill it. *)
Fill(f) ==
    /\ \/ Goto(f, "fill", AfterFill(f))
       \/ Goto(f, "refill", "record")
    /\ files' = [files EXCEPT ![f] = IF body[f] = "good" THEN "fresh" ELSE "junk"]
    /\ UNCHANGED <<main, body, wg, recorded, magic, life>>

(* The disk is full, the connection breaks. *)
WriteFails(f) == f # "topology" /\ \E step \in {"open", "fill"} : Panic(f, step)

(* The search for public relays, before the second write of the topology;  *)
(* a producer has neither.  Its error is logged, or it panics.             *)
Search(f) ==
    /\ \/ Goto(f, "search", "reopen")
       \/ Goto(f, "search", "record")
    /\ UNCHANGED <<main, body, wg, recorded, magic, disk, life>>

SearchPanics(f) == Panic(f, "search")

(* Slip: the error returns before Wg.Done. *)
TopologyFailsReturns(f) ==
    /\ f = "topology"
    /\ \E step \in {"download", "open", "fill", "reopen", "refill"} :
          Goto(f, step, "done")
    /\ UNCHANGED <<main, body, wg, recorded, magic, disk, life>>

(* Any error of DownloadAndSetTopologyFile is assigned and not looked at.  *)
TopologyFails(f) ==
    /\ f = "topology"
    /\ \E step \in {"download", "open", "fill", "reopen", "refill"} :
          Goto(f, step, "record")
    /\ UNCHANGED <<main, body, wg, recorded, magic, disk, life>>

(* NetworkMagic, from the file just written; the type assertion panics on  *)
(* a file that has none.                                                   *)
ReadMagic(f) ==
    /\ Goto(f, "magic", "record")
    /\ files[f] = "fresh"
    /\ magic' = "set"
    /\ UNCHANGED <<main, body, wg, recorded, disk, life>>

NoMagic(f) == files[f] # "fresh" /\ Panic(f, "magic")

(* d.ConfigJSON = filePath, and its like ... *)
Record(f) ==
    /\ Goto(f, "record", "signal")
    /\ recorded' = recorded \cup {f}
    /\ UNCHANGED <<main, body, wg, magic, disk, life>>

(* Slip: Wg.Done, and a deferred one as well. *)
SignalTwice(f) ==
    /\ Goto(f, "signal", "done")
    /\ wg' = wg - 2
    /\ UNCHANGED <<main, body, recorded, magic, disk, life>>

(* ... then d.Wg.Done(). *)
Signal(f) ==
    /\ Goto(f, "signal", "done")
    /\ wg' = wg - 1
    /\ UNCHANGED <<main, body, recorded, magic, disk, life>>

-----------------------------------------------------------------------------
(* The caller. *)

(* Slip: the group counts one file too few, as when a name is added to the *)
(* list and a literal number is not.                                       *)
LaunchTooFew ==
    /\ up
    /\ main = "add"
    /\ main' = "wait"
    /\ wg' = wg + Cardinality(Files) - 1
    /\ pc' = [f \in Files |-> "download"]
    /\ UNCHANGED <<body, recorded, magic, disk, life>>

(* Wg.Add, then the go statements. *)
Launch ==
    /\ up
    /\ main = "add"
    /\ main' = "wait"
    /\ wg' = wg + Cardinality(Files)
    /\ pc' = [f \in Files |-> "download"]
    /\ UNCHANGED <<body, recorded, magic, disk, life>>

(* Wg.Wait returns and StartCnode goes on to start the node. *)
Start ==
    /\ up
    /\ main = "wait"
    /\ wg = 0
    /\ main' = "started"
    /\ UNCHANGED <<pc, body, wg, recorded, magic, disk, life>>

(* The process is killed, the node running or not. *)
Kill == crashes < MaxCrashes /\ Die

(* It is started again, and whole files have become stale. *)
Restart ==
    /\ ~up
    /\ crashes <= MaxCrashes
    /\ up' = TRUE
    /\ files' = [f \in Files |-> IF files[f] \in {"fresh", "junk"} THEN "stale" ELSE files[f]]
    /\ UNCHANGED <<memory, crashes>>

Terminated == /\ IF up THEN main = "started" ELSE crashes > MaxCrashes
              /\ UNCHANGED vars

-----------------------------------------------------------------------------

Init ==
    /\ main = "add"
    /\ pc = [f \in Files |-> "idle"]
    /\ body = [f \in Files |-> "none"]
    /\ wg = 0
    /\ recorded = {}
    /\ magic = "unset"
    /\ files = [f \in Files |-> "absent"]
    /\ up = TRUE
    /\ crashes = 0

GetConfigFile(f) ==
    \/ Download(f) \/ DownloadFails(f) \/ Open(f) \/ Fill(f) \/ WriteFails(f)
    \/ Search(f) \/ SearchPanics(f) \/ TopologyFails(f) \/ ReadMagic(f) \/ NoMagic(f)
    \/ Record(f) \/ Signal(f)

Main == Launch \/ Start

Next == \/ \E f \in Files : GetConfigFile(f)
        \/ Main \/ Kill \/ Restart \/ Terminated

(* The runtime runs every goroutine, and a server answers or hangs up:     *)
(* http.Get sets no time limit of its own.                                 *)
Fairness == WF_vars(Main) /\ \A f \in Files : WF_vars(GetConfigFile(f))

Spec == Init /\ [][Next]_vars /\ Fairness

-----------------------------------------------------------------------------
(* Properties. *)

Steps == {"idle", "download", "open", "fill", "magic", "search", "reopen",
          "refill", "record", "signal", "done"}

(* The types; in particular Wg.Done never takes the counter of the group   *)
(* below zero, where Go panics.                                            *)
TypeOK ==
    /\ main \in {"add", "wait", "started"}
    /\ pc \in [Files -> Steps]
    /\ body \in [Files -> Replies \cup {"none"}]
    /\ wg \in 0..Cardinality(Files)
    /\ recorded \subseteq Files
    /\ magic \in {"unset", "set"}
    /\ files \in [Files -> {"absent", "stale", "partial", "fresh", "junk"}]
    /\ up \in BOOLEAN
    /\ crashes \in Nat

Unfinished == {f \in Files : pc[f] # "done"}

(* Every path through GetConfigFile, the swallowed errors of the topology  *)
(* included, calls Wg.Done exactly once: the counter is the number of      *)
(* goroutines that have not finished.                                      *)
WaitGroupCounts == main # "add" => wg = Cardinality(Unfinished)

(* Files that were cut short by an earlier crash, or left from an earlier  *)
(* run, never reach the node: when it starts, config.json and the genesis  *)
(* files are whole and of this run, the Shelley genesis is one that has a  *)
(* magic number, and every path is known.  The topology is not promised.   *)
NodeStartsOnWholeFiles ==
    main = "started" =>
        /\ recorded = Files
        /\ files["config"] \in {"fresh", "junk"}
        /\ files["byron"] \in {"fresh", "junk"}
        /\ files["shelley"] = "fresh"
        /\ magic = "set"

(* No goroutine writes a file under a node that has started: Wg.Done is    *)
(* the last thing each one does, after the last write of the topology.     *)
RunningNodeKeepsFiles ==
    [][main = "started" /\ main' = "started" => files' = files]_vars

(* The topology goroutine as it is seen from the outside. *)
phase == IF ~up THEN "dead" ELSE
         CASE pc["topology"] \in {"idle", "download", "open"} -> "preparing"
           [] pc["topology"] = "fill" -> "writing"
           [] pc["topology"] \in {"search", "reopen"} -> "searching"
           [] pc["topology"] = "refill" -> "rewriting"
           [] OTHER -> "over"

TopologyCall == INSTANCE TopologyContract WITH
    file <- IF files["topology"] \in {"stale", "fresh", "junk"} THEN "whole"
            ELSE files["topology"]

(* The goroutine of the topology (configfiles.go:245-248) writes its file  *)
(* as DownloadAndSetTopologyFile does, which Topology models by itself:    *)
(* with three other goroutines beside it, any of which may end the         *)
(* process, both keep one contract.                                        *)
ImplementsTopologyCall == TopologyCall!Spec

(* DownloadConfigFiles ends: the node starts or the process has died.      *)
StartsOrDies == main = "wait" ~> main = "started" \/ ~up
=============================================================================
