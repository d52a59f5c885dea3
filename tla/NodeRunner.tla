------------------------------ MODULE NodeRunner ------------------------------
(***************************************************************************)
(* The command start-node: initConfig and startNodeCmd of cmd/, and R of   *)
(* runner/node/node.go.  NewCardanoNodeRunner and StartCnode find the      *)
(* node's configuration, bring a database from the backup when there is    *)
(* none, download the configuration files, and then run three goroutines   *)
(* that report errors on the unbuffered channel cer: the node exporter,    *)
(* the node, and for a relay the hourly topology updater, whose requests   *)
(* are in Updater.  StartCnode returns the first error it receives, and    *)
(* the program ends.                                                       *)
(*                                                                         *)
(* process.Exec is used by its contract, ExecContract, which ProcessExec   *)
(* implements, and DownloadConfigFiles by that of ConfigFiles: it returns, *)
(* or the process dies in it.  The children are taken to be gone when the  *)
(* program is started again, as they are in its container.  The severity   *)
(* that SetLogMinSeverity stores is left out, and so are the two seconds   *)
(* that runCNode sleeps.                                                   *)
(***************************************************************************)
EXTENDS Integers

CONSTANTS Count,     (* the number of nodes configured for the role       *)
          Ids,       (* the ids the command line may give                 *)
          MaxStarts  (* bound: how often the program is started           *)

ASSUME CountIsNat == Count \in Nat
ASSUME IdsAreInt == Ids \subseteq Int
ASSUME StartsPositive == MaxStarts \in Nat \ {0}

VARIABLES role, id, passive,  (* the flags of the command line             *)
          testMode, marked,   (* test_mode and is_producer of the node in  *)
                      (* gocnode.yaml                                      *)
          isProducer, (* IsProducer of the node                            *)
          keys,       (* the command is given the keys to make blocks      *)
          socket,     (* node.socket in the database directory: "none",    *)
                      (* "stale" (of an earlier start), "stuck" (stale,    *)
                      (* and could not be removed) or "own"                *)
          backup,     (* the backup directory: "none", "bare" (it has no   *)
                      (* database) or "whole"                              *)
          db,         (* the database: "absent", "empty", "partial" (a     *)
                      (* copy cut short), "copy" or "own" (the node's)     *)
          main,       (* where StartCnode is                               *)
          report,     (* who sent the error it returned                    *)
          exporter,   (* the goroutine runExporter                         *)
          node,       (* the goroutine runCNode                            *)
          updater,    (* the goroutine runTopologyUpdater                  *)
          expPhase, expFailed,    (* process.Exec on node_exporter         *)
          nodePhase, nodeFailed,  (* process.Exec on cardano-node          *)
          starts      (* how often the program has been started            *)

setting == <<role, id, passive, testMode, marked, backup>>
nodeC == <<isProducer, keys>>
goroutines == <<exporter, node, updater>>
commands == <<expPhase, expFailed, nodePhase, nodeFailed>>
vars == <<setting, nodeC, db, socket, main, report, goroutines, commands, starts>>

ExporterExec == INSTANCE ExecContract WITH phase <- expPhase, failed <- expFailed
NodeExec == INSTANCE ExecContract WITH phase <- nodePhase, failed <- nodeFailed

-----------------------------------------------------------------------------

Step(from, to) == main = from /\ main' = to

Fail(from, who) == Step(from, "returned") /\ report' = who

(* Only the start of the program has reached this point. *)
Waiting == UNCHANGED <<setting, goroutines, commands, starts>>

Alone == Waiting /\ UNCHANGED <<nodeC, socket>>

(* initConfig.  A configuration that cannot be read is not read again: the *)
(* program says so every ten seconds, for ever.                            *)
ReadConfig == /\ Step("config", "flags")
              /\ UNCHANGED <<db, report>> /\ Alone

ConfigUnreadable == /\ Step("config", "stuck")
                    /\ UNCHANGED <<db, report>> /\ Alone

(* SetLogMinSeverity, if the flag is given.  Its error is dropped, but it  *)
(* indexes the list with an id just past its end.                          *)
TakeFlags == /\ Step("flags", "init")
             /\ UNCHANGED <<db, report>> /\ Alone

SeverityPanic == /\ Step("flags", "crashed")
                 /\ id \notin 0 .. Count - 1 /\ id <= Count
                 /\ report' = "panic"
                 /\ UNCHANGED db /\ Alone

(* Slip: the id is used where the list ends, without an index to stop it.  *)
FindNodeOffByOne ==
    /\ Step("init", "db")
    /\ id \in 0 .. Count
    /\ isProducer' = (marked \/ role = "producer")
    /\ UNCHANGED <<keys, db, socket, report>> /\ Waiting

(* Init takes the node's entry, and marks a producer's.  For a relay an id *)
(* beyond the list is reported, and an id just past its end is not.        *)
FindNode == /\ Step("init", "db")
            /\ id \in 0 .. Count - 1
            /\ isProducer' = (marked \/ role = "producer")
            /\ UNCHANGED <<keys, db, socket, report>> /\ Waiting

RejectId == /\ Fail("init", "configuration")
            /\ role = "relay" /\ id > Count
            /\ UNCHANGED db /\ Alone

IndexPanic == /\ Step("init", "crashed")
              /\ id \notin 0 .. Count - 1
              /\ role = "relay" => id <= Count
              /\ report' = "panic"
              /\ UNCHANGED db /\ Alone

-----------------------------------------------------------------------------
(* setCheckDBPath. *)

DbFound == /\ Step("db", "socket")
           /\ db # "absent"
           /\ UNCHANGED <<db, report>> /\ Alone

(* The path cannot be looked at, or the directory not be made. *)
DbError == /\ Fail("db", "database")
           /\ UNCHANGED db /\ Alone

StartClean == /\ Step("db", "socket")
              /\ db = "absent" /\ backup = "none"
              /\ db' = "empty"
              /\ UNCHANGED report /\ Alone

(* Slip: the backup is copied whatever is there. *)
BeginCopyAlways == /\ Step("db", "copy")
                   /\ backup # "none"
                   /\ UNCHANGED <<db, report>> /\ Alone

BeginCopy == /\ Step("db", "copy")
             /\ db = "absent" /\ backup # "none"
             /\ UNCHANGED <<db, report>> /\ Alone

(* The files are copied one by one. *)
CopySome == /\ main = "copy"
            /\ backup = "whole"
            /\ db' = "partial"
            /\ UNCHANGED <<main, report>> /\ Alone

(* The copy is complete, or ends in an error, which is logged. *)
EndCopy == /\ Step("copy", "magic")
           /\ \/ db' = IF backup = "whole" THEN "copy" ELSE db
              \/ UNCHANGED db
           /\ UNCHANGED report /\ Alone

(* protocolMagicId once more, on its own; an error is logged. *)
CopyMagic == /\ Step("magic", "socket")
             /\ \/ db' = IF db = "absent" /\ backup = "whole" THEN "partial" ELSE db
                \/ UNCHANGED db
             /\ UNCHANGED report /\ Alone

(* Slip: the socket is left where it is. *)
KeepSocket == /\ Step("socket", "download")
              /\ UNCHANGED <<nodeC, db, socket, report>> /\ Waiting

(* The socket that a node left when it was killed is removed, or an error  *)
(* is logged.                                                              *)
RemoveSocket == /\ Step("socket", "download")
                /\ socket' \in IF socket = "stale" THEN {"none", "stuck"} ELSE {socket}
                /\ UNCHANGED <<nodeC, db, report>> /\ Waiting

Setup == \/ ReadConfig \/ ConfigUnreadable \/ TakeFlags \/ SeverityPanic
         \/ FindNode \/ RejectId \/ IndexPanic
         \/ DbFound \/ DbError \/ StartClean \/ BeginCopy \/ EndCopy \/ CopyMagic
         \/ RemoveSocket

-----------------------------------------------------------------------------
(* StartCnode. *)

(* PassiveMode is set for a producer of the command line only. *)
Forges == isProducer /\ ~(role = "producer" /\ passive)

FilesFail == /\ \/ Step("download", "crashed") /\ UNCHANGED report
                \/ Fail("download", "configuration")
             /\ UNCHANGED db /\ Alone

(* Slip: the updater runs unless the command line says producer. *)
LaunchByRole ==
    /\ Step("download", "select")
    /\ ~testMode
    /\ keys' = Forges
    /\ exporter' = "exec"
    /\ node' = "exec"
    /\ updater' = IF role = "producer" THEN "done" ELSE "new"
    /\ UNCHANGED <<setting, isProducer, db, socket, report, commands, starts>>

(* Slip: runCNode is started in the place of the updater. *)
LaunchNodeTwice ==
    /\ Step("download", "select")
    /\ ~testMode
    /\ keys' = Forges
    /\ exporter' = "exec"
    /\ node' = "exec"
    /\ updater' = IF isProducer THEN "done" ELSE "exec"
    /\ UNCHANGED <<setting, isProducer, db, socket, report, commands, starts>>

(* The files are there, and the goroutines are started; a producer's       *)
(* updater returns at once.                                                *)
Launch ==
    /\ Step("download", "select")
    /\ ~testMode
    /\ keys' = Forges
    /\ exporter' = "exec"
    /\ node' = "exec"
    /\ updater' = IF isProducer THEN "done" ELSE "new"
    /\ UNCHANGED <<setting, isProducer, db, socket, report, commands, starts>>

(* TestMode starts nothing and waits. *)
LaunchNothing ==
    /\ Step("download", "select")
    /\ testMode
    /\ keys' = Forges
    /\ UNCHANGED <<isProducer, db, socket, report>> /\ Waiting

(* err = <-cer *)
ReceiveFrom(who) == /\ Fail("select", who)
                    /\ UNCHANGED <<setting, nodeC, db, socket, commands, starts>>

ReceiveExporter == /\ exporter = "send" /\ exporter' = "done"
                   /\ ReceiveFrom("exporter")
                   /\ UNCHANGED <<node, updater>>

ReceiveNode == /\ node = "send" /\ node' = "done"
               /\ ReceiveFrom("node")
               /\ UNCHANGED <<exporter, updater>>

ReceiveUpdater == /\ updater = "send" /\ updater' = "tick"
                  /\ ReceiveFrom("updater")
                  /\ UNCHANGED <<exporter, node>>

(* Neither command will ever be heard of. *)
NobodySends == /\ main = "select"
               /\ exporter \in {"idle", "done"}
               /\ node \in {"idle", "done"}

(* In TestMode nothing can run and no timer is set: the Go runtime may     *)
(* notice and end the program.  Otherwise the ticker that                  *)
(* runTopologyUpdater makes, a producer's too, keeps it from that.         *)
AllAsleep == /\ testMode
             /\ Step("select", "crashed")
             /\ UNCHANGED <<db, report>> /\ Alone

Receive == ReceiveExporter \/ ReceiveNode \/ ReceiveUpdater

-----------------------------------------------------------------------------
(* The goroutines. *)

Alive == main \in {"select", "returned"}

(* process.Exec, while its goroutine is in it; the node writes its         *)
(* database and opens its socket.                                          *)
ExporterRuns == /\ Alive
                /\ exporter = "exec"
                /\ ExporterExec!Next
                /\ UNCHANGED <<setting, nodeC, db, socket, main, report, goroutines, nodePhase, nodeFailed, starts>>

NodeRuns == /\ Alive
            /\ node = "exec"
            /\ NodeExec!Next
            /\ UNCHANGED <<setting, nodeC, db, socket, main, report, goroutines, expPhase, expFailed, starts>>

NodeWrites == /\ nodePhase = "running"
              /\ db' = "own"
              /\ socket' = "own"
              /\ UNCHANGED <<setting, nodeC, main, report, goroutines, commands, starts>>

ExporterEnds == /\ Alive
                /\ exporter = "exec" /\ expPhase = "returned"
                /\ exporter' = IF expFailed THEN "send" ELSE "done"
                /\ UNCHANGED <<setting, nodeC, db, socket, main, report, node, updater, commands, starts>>

(* Slip: the result of Exec is sent whatever it is. *)
NodeEndsSends == /\ Alive
                 /\ node = "exec" /\ nodePhase = "returned"
                 /\ node' = "send"
                 /\ UNCHANGED <<setting, nodeC, db, socket, main, report, exporter, updater, commands, starts>>

(* Slip: the error of the node is logged, not sent. *)
NodeEndsSilently == /\ Alive
                    /\ node = "exec" /\ nodePhase = "returned"
                    /\ node' = "done"
                    /\ UNCHANGED <<setting, nodeC, db, socket, main, report, exporter, updater, commands, starts>>

(* Only an error is sent. *)
NodeEnds == /\ Alive
            /\ node = "exec" /\ nodePhase = "returned"
            /\ node' = IF nodeFailed THEN "send" ELSE "done"
            /\ UNCHANGED <<setting, nodeC, db, socket, main, report, exporter, updater, commands, starts>>

(* topologyupdater.New; no error of its hourly requests is sent. *)
UpdaterStarts == /\ Alive
                 /\ updater = "new"
                 /\ updater' \in {"tick", "send"}
                 /\ UNCHANGED <<setting, nodeC, db, socket, main, report, exporter, node, commands, starts>>

(* A request that panics (QueryPanics of Updater) ends the process. *)
UpdaterPanics == /\ updater = "tick"
                 /\ Step("select", "crashed")
                 /\ UNCHANGED <<db, report>> /\ Alone

-----------------------------------------------------------------------------

(* The process is killed. *)
Kill == /\ main \notin {"returned", "crashed"}
        /\ starts < MaxStarts
        /\ main' = "crashed"
        /\ UNCHANGED <<db, report>> /\ Alone

(* The program ends with StartCnode, and is started again. *)
Restart == /\ main \in {"returned", "crashed"}
           /\ starts < MaxStarts
           /\ starts' = starts + 1
           /\ main' = "config"
           /\ report' = "none"
           /\ exporter' = "idle" /\ node' = "idle" /\ updater' = "idle"
           /\ expPhase' = "idle" /\ nodePhase' = "idle"
           /\ expFailed' = FALSE /\ nodeFailed' = FALSE
           /\ isProducer' = marked /\ keys' = FALSE
           /\ socket' = IF socket = "none" THEN "none" ELSE "stale"
           /\ UNCHANGED <<setting, db>>

(* It is over, or waits for ever. *)
Terminated == /\ \/ main \in {"stuck", "returned", "crashed"}
                 \/ NobodySends /\ updater \in {"idle", "tick", "done"}
              /\ UNCHANGED vars

Init == /\ role \in {"relay", "producer"}
        /\ id \in Ids
        /\ passive \in BOOLEAN
        /\ testMode \in BOOLEAN
        /\ marked \in BOOLEAN
        /\ isProducer = marked
        /\ keys = FALSE
        /\ socket = "none"
        /\ backup \in {"none", "bare", "whole"}
        /\ db = "absent"
        /\ main = "config"
        /\ report = "none"
        /\ exporter = "idle" /\ node = "idle" /\ updater = "idle"
        /\ ExporterExec!Init /\ NodeExec!Init
        /\ starts = 1

Start == Setup \/ Launch \/ LaunchNothing \/ FilesFail \/ Receive

Next == \/ Start \/ AllAsleep \/ CopySome
        \/ ExporterRuns \/ NodeRuns \/ NodeWrites \/ ExporterEnds \/ NodeEnds \/ UpdaterStarts
        \/ UpdaterPanics \/ Kill \/ Restart \/ Terminated

(* Downloads and copies end, ready goroutines run, and Exec keeps its      *)
(* contract.  Nothing makes a command end.                                 *)
Fairness == /\ WF_vars(Start)
            /\ WF_vars(NodeEnds) /\ WF_vars(ExporterEnds) /\ WF_vars(UpdaterStarts)
            /\ WF_vars(NodeRuns /\ nodePhase = "exited")
            /\ WF_vars(ExporterRuns /\ expPhase = "exited")

Spec == Init /\ [][Next]_vars /\ Fairness

-----------------------------------------------------------------------------
(* Properties. *)

Preparing == {"config", "stuck", "flags", "init", "db", "copy", "magic", "socket", "download"}

Phases == {"idle", "running", "exited", "returned"}

(* The types of the runner's state (node.go:23-53, 235-260). *)
TypeOK ==
    /\ role \in {"relay", "producer"} /\ id \in Ids /\ passive \in BOOLEAN
    /\ testMode \in BOOLEAN /\ marked \in BOOLEAN
    /\ isProducer \in BOOLEAN /\ keys \in BOOLEAN
    /\ socket \in {"none", "stale", "stuck", "own"}
    /\ backup \in {"none", "bare", "whole"}
    /\ db \in {"absent", "empty", "partial", "copy", "own"}
    /\ main \in Preparing \cup {"select", "returned", "crashed"}
    /\ report \in {"none", "panic", "configuration", "database", "exporter", "node", "updater"}
    /\ exporter \in {"idle", "exec", "send", "done"}
    /\ node \in {"idle", "exec", "send", "done"}
    /\ updater \in {"idle", "new", "send", "tick", "done"}
    /\ expPhase \in Phases /\ nodePhase \in Phases
    /\ expFailed \in BOOLEAN /\ nodeFailed \in BOOLEAN
    /\ starts \in 1 .. MaxStarts

(* The error StartCnode returns (node.go:257) is one that really happened: *)
(* the program never ends for a command that runs on or has ended well.    *)
(* And while it waits no failure is lost: whoever met it is still on its   *)
(* way to the channel.                                                     *)
ErrorsAccountedFor ==
    /\ main = "returned" =>
          /\ report # "none"
          /\ report = "node" => nodePhase = "returned" /\ nodeFailed
          /\ report = "exporter" => expPhase = "returned" /\ expFailed
    /\ main = "select" =>
          /\ nodePhase = "returned" /\ nodeFailed => node \in {"exec", "send"}
          /\ expPhase = "returned" /\ expFailed => exporter \in {"exec", "send"}

(* An id that names no node (node.go:65-78) ends the start, by an error or *)
(* by a panic, before it has touched anything: no database is made or      *)
(* restored, no socket removed, nothing started.                           *)
BadIdHarmless ==
    id \notin 0 .. Count - 1 =>
        /\ db = "absent" /\ socket = "none"
        /\ exporter = "idle" /\ node = "idle" /\ updater = "idle"

(* A node that is given the keys to make blocks (node.go:179), and every   *)
(* producer, passive or not, is never announced to the public topology     *)
(* service (node.go:214), whether the command line or the configuration    *)
(* makes it a producer and however often it is started.                    *)
ProducerNotAnnounced ==
    keys \/ role = "producer" => updater \notin {"new", "send", "tick"}

(* A node never finds the socket of one that was killed before             *)
(* (node.go:151-156), unless it could not be removed.                      *)
SocketFresh == nodePhase # "idle" => socket # "stale"

(* The database of a node that has run is never replaced by the backup     *)
(* (node.go:119-144), through kills and restarts.                          *)
DatabaseKept == [][db = "own" => db' = "own"]_vars

(* The runner as the container runtime sees it. *)
stage == CASE main \in Preparing -> "preparing"
           [] main = "select" -> "serving"
           [] main = "returned" -> "returned"
           [] main = "crashed" -> "killed"

failed == \/ expPhase = "returned" /\ expFailed
          \/ nodePhase = "returned" /\ nodeFailed
          \/ updater = "send" \/ report = "updater"

Contract == INSTANCE RunnerContract

(* The start of a node keeps the contract of a runner: prepared before it  *)
(* serves, back when a goroutine has sent an error and not before          *)
(* (node.go:235-260).                                                      *)
ImplementsRunner == Contract!Spec

(* The test of runner_test.go:27-28 expects StartCnode to come back        *)
(* without an error: it would have to come back when both commands have    *)
(* ended well.                                                             *)
CleanExitReturns ==
    main = "select" /\ node = "done" /\ exporter = "done" ~> main # "select"
=============================================================================
