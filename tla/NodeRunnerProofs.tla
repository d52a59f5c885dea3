--------------------------- MODULE NodeRunnerProofs ---------------------------
(***************************************************************************)
(* Proofs about NodeRunner, for any number of nodes, any ids and any       *)
(* number of starts: the error that ends the program is a real one and     *)
(* none is lost, a bad id touches nothing, a producer is not announced,    *)
(* and a node's database is not replaced.                                  *)
(***************************************************************************)
EXTENDS NodeRunner, TLAPS

(* Before Launch no goroutine and no command has been started. *)
NothingRunsYet ==
    main \in Preparing =>
        /\ exporter = "idle" /\ node = "idle" /\ updater = "idle"
        /\ expPhase = "idle" /\ nodePhase = "idle"
        /\ report = "none" /\ ~keys

(* A goroutine that sends has seen its command fail. *)
SendersFailed ==
    /\ node = "send" => nodePhase = "returned" /\ nodeFailed
    /\ exporter = "send" => expPhase = "returned" /\ expFailed

(* The backup is being copied only where there was no database. *)
CopiesOverNothing == main \in {"copy", "magic"} => db # "own"

(* A producer's updater never gets to its first step. *)
ProducerSilent ==
    /\ main \in {"db", "copy", "magic", "socket", "download"} /\ role = "producer" => isProducer
    /\ updater # "idle" /\ role = "producer" => isProducer
    /\ keys => isProducer
    /\ isProducer => updater \in {"idle", "done"}

(* The socket is looked at before the goroutines exist, and the node opens *)
(* only its own.                                                           *)
SocketSeen ==
    /\ main = "download" => socket # "stale"
    /\ nodePhase # "idle" \/ node # "idle" => socket # "stale"

(* A start with an id that names no node does not get past Init. *)
BadIdStops ==
    id \notin 0 .. Count - 1 =>
        /\ main \in {"config", "stuck", "flags", "init", "returned", "crashed"}
        /\ expPhase = "idle" /\ nodePhase = "idle"

(* The inductive invariant. *)
IInv == /\ TypeOK
        /\ NothingRunsYet
        /\ SendersFailed
        /\ CopiesOverNothing
        /\ ProducerSilent
        /\ SocketSeen
        /\ BadIdStops
        /\ BadIdHarmless
        /\ ErrorsAccountedFor

-----------------------------------------------------------------------------

LEMMA InitIInv == Init => IInv
<1> SUFFICES ASSUME Init PROVE IInv
  OBVIOUS
<1>1. starts \in 1 .. MaxStarts
  BY StartsPositive DEF Init
<1>2. isProducer \in BOOLEAN /\ keys \in BOOLEAN /\ ~keys
  BY Zenon DEF Init
<1>3. expFailed \in BOOLEAN /\ nodeFailed \in BOOLEAN
  BY Zenon DEF Init, ExporterExec!Init, NodeExec!Init
<1> QED
  BY <1>1, <1>2, <1>3 DEF Init, IInv, TypeOK, Preparing, Phases, NothingRunsYet,
     SendersFailed, CopiesOverNothing, ProducerSilent, SocketSeen, BadIdStops,
            BadIdHarmless, ErrorsAccountedFor,
     ExporterExec!Init, NodeExec!Init

(* What the start does before the goroutines exist. *)
LEMMA SetupIInv == ASSUME IInv, Setup PROVE IInv'
<1> USE DEF IInv, TypeOK, Preparing, Phases, NothingRunsYet, SendersFailed,
            CopiesOverNothing, ProducerSilent, SocketSeen, BadIdStops,
            BadIdHarmless, ErrorsAccountedFor, Step, Fail,
            Alone, Waiting, setting, nodeC, goroutines, commands
<1>1. CASE ReadConfig \/ ConfigUnreadable \/ TakeFlags \/ SeverityPanic
  BY <1>1 DEF ReadConfig, ConfigUnreadable, TakeFlags, SeverityPanic
<1>2. CASE FindNode
  <2>1. isProducer' \in BOOLEAN
    BY <1>2, Zenon DEF FindNode
  <2>2. /\ role = "producer" => isProducer'
        /\ UNCHANGED <<keys, role, id, passive, testMode, marked, backup, socket, db, report,
                      exporter, node, updater, expPhase, expFailed, nodePhase, nodeFailed, starts>>
        /\ main = "init" /\ main' = "db" /\ id \in 0 .. Count - 1
    BY <1>2, Zenon DEF FindNode
  <2> QED
    BY <2>1, <2>2
<1>3. CASE RejectId \/ IndexPanic
  BY <1>3 DEF RejectId, IndexPanic
<1>4. CASE DbFound \/ DbError \/ StartClean
  BY <1>4 DEF DbFound, DbError, StartClean
<1>5. CASE BeginCopy \/ EndCopy \/ CopyMagic
  BY <1>5 DEF BeginCopy, EndCopy, CopyMagic
<1>6. CASE RemoveSocket
  BY <1>6 DEF RemoveSocket
<1> QED
  BY <1>1, <1>2, <1>3, <1>4, <1>5, <1>6 DEF Setup

LEMMA CopyIInv == ASSUME IInv, CopySome \/ FilesFail PROVE IInv'
BY DEF IInv, TypeOK, Preparing, Phases, CopySome, FilesFail, Step, Fail, Alone, Waiting,
   setting, nodeC, goroutines, commands, NothingRunsYet, SendersFailed,
   CopiesOverNothing, ProducerSilent, SocketSeen, BadIdStops,
            BadIdHarmless, ErrorsAccountedFor

(* Launch, and the receive from cer. *)
LEMMA MainIInv ==
    ASSUME IInv, Launch \/ LaunchNothing \/ Receive \/ AllAsleep \/ UpdaterPanics
    PROVE  IInv'
<1> USE DEF IInv, TypeOK, Preparing, Phases, NothingRunsYet, SendersFailed,
            CopiesOverNothing, ProducerSilent, SocketSeen, BadIdStops,
            BadIdHarmless, ErrorsAccountedFor, Step, Fail,
            Alone, Waiting, setting, nodeC, goroutines, commands
<1>1. CASE Launch \/ LaunchNothing
  BY <1>1 DEF Launch, LaunchNothing, Forges
<1>2. CASE Receive
  BY <1>2 DEF Receive, ReceiveExporter, ReceiveNode, ReceiveUpdater, ReceiveFrom
<1>3. CASE AllAsleep \/ UpdaterPanics
  BY <1>3 DEF AllAsleep, UpdaterPanics
<1> QED
  BY <1>1, <1>2, <1>3

(* A command that has returned takes no further step. *)
LEMMA CommandsIInv == ASSUME IInv, ExporterRuns \/ NodeRuns \/ NodeWrites PROVE IInv'
<1> USE DEF IInv, TypeOK, Preparing, Phases, NothingRunsYet, SendersFailed,
            CopiesOverNothing, ProducerSilent, SocketSeen, BadIdStops,
            BadIdHarmless, ErrorsAccountedFor,
            setting, nodeC, goroutines, commands, Alive
<1>1. CASE ExporterRuns
  <2>1. expFailed' \in BOOLEAN
    BY <1>1, Zenon DEF ExporterRuns, ExporterExec!Next, ExporterExec!Launch,
       ExporterExec!LaunchFails, ExporterExec!Exit, ExporterExec!Return
  <2>2. /\ expPhase' \in {"running", "exited", "returned"}
        /\ expPhase # "returned"
    BY <1>1 DEF ExporterRuns, ExporterExec!Next, ExporterExec!Launch,
       ExporterExec!LaunchFails, ExporterExec!Exit, ExporterExec!Return
  <2> QED
    BY <1>1, <2>1, <2>2 DEF ExporterRuns
<1>2. CASE NodeRuns
  <2>1. nodeFailed' \in BOOLEAN
    BY <1>2, Zenon DEF NodeRuns, NodeExec!Next, NodeExec!Launch,
       NodeExec!LaunchFails, NodeExec!Exit, NodeExec!Return
  <2>2. /\ nodePhase' \in {"running", "exited", "returned"}
        /\ nodePhase # "returned"
    BY <1>2 DEF NodeRuns, NodeExec!Next, NodeExec!Launch, NodeExec!LaunchFails,
       NodeExec!Exit, NodeExec!Return
  <2> QED
    BY <1>2, <2>1, <2>2 DEF NodeRuns
<1>3. CASE NodeWrites
  BY <1>3 DEF NodeWrites
<1> QED
  BY <1>1, <1>2, <1>3

LEMMA GoroutinesIInv == ASSUME IInv, ExporterEnds \/ NodeEnds \/ UpdaterStarts PROVE IInv'
<1> USE DEF IInv, TypeOK, Preparing, Phases, NothingRunsYet, SendersFailed,
            CopiesOverNothing, ProducerSilent, SocketSeen, BadIdStops,
            BadIdHarmless, ErrorsAccountedFor,
            setting, nodeC, goroutines, commands, Alive
<1>1. CASE ExporterEnds
  BY <1>1 DEF ExporterEnds
<1>2. CASE NodeEnds
  BY <1>2 DEF NodeEnds
<1>3. CASE UpdaterStarts
  BY <1>3 DEF UpdaterStarts
<1> QED
  BY <1>1, <1>2, <1>3

(* The end of the program, and the next start. *)
LEMMA RestartIInv == ASSUME IInv, Kill \/ Restart PROVE IInv'
<1> USE DEF IInv, TypeOK, Preparing, Phases, NothingRunsYet, SendersFailed,
            CopiesOverNothing, ProducerSilent, SocketSeen, BadIdStops,
            BadIdHarmless, ErrorsAccountedFor,
            Alone, Waiting, setting, nodeC, goroutines, commands
<1>1. CASE Kill
  BY <1>1 DEF Kill
<1>2. CASE Restart
  <2>1. starts' \in 1 .. MaxStarts
    BY <1>2, StartsPositive DEF Restart
  <2>2. /\ isProducer' \in BOOLEAN /\ keys' \in BOOLEAN /\ ~keys'
        /\ expFailed' \in BOOLEAN /\ nodeFailed' \in BOOLEAN
    BY <1>2, Zenon DEF Restart
  <2> QED
    BY <1>2, <2>1, <2>2 DEF Restart
<1> QED
  BY <1>1, <1>2

LEMMA StutterIInv == ASSUME IInv, UNCHANGED vars PROVE IInv'
BY DEF vars, setting, nodeC, goroutines, commands, IInv, TypeOK, Preparing, Phases,
   NothingRunsYet, SendersFailed, CopiesOverNothing, ProducerSilent, SocketSeen, BadIdStops,
            BadIdHarmless, ErrorsAccountedFor

THEOREM Inductive == Spec => []IInv
<1>1. IInv /\ [Next]_vars => IInv'
  BY SetupIInv, CopyIInv, MainIInv, CommandsIInv, GoroutinesIInv, RestartIInv,
     StutterIInv DEF Next, Start, Terminated
<1> QED
  BY <1>1, InitIInv, PTL DEF Spec

(* Every variable keeps its type. *)
THEOREM TypeCorrect == Spec => []TypeOK
<1>1. IInv => TypeOK
  BY DEF IInv
<1> QED
  BY <1>1, Inductive, PTL

(* StartCnode returns an error that really happened, and loses none while  *)
(* it waits.                                                               *)
THEOREM RealError == Spec => []ErrorsAccountedFor
<1>1. IInv => ErrorsAccountedFor
  BY DEF IInv
<1> QED
  BY <1>1, Inductive, PTL

(* A start with an id that names no node touches nothing. *)
THEOREM BadIdTouchesNothing == Spec => []BadIdHarmless
<1>1. IInv => BadIdHarmless
  BY DEF IInv
<1> QED
  BY <1>1, Inductive, PTL

(* No producer is announced. *)
THEOREM NotAnnounced == Spec => []ProducerNotAnnounced
<1>1. IInv => ProducerNotAnnounced
  BY DEF IInv, ProducerSilent, ProducerNotAnnounced
<1> QED
  BY <1>1, Inductive, PTL

(* A producer that the command line starts as passive never gets the keys  *)
(* to make blocks (node.go:179), whatever gocnode.yaml says of it: two     *)
(* nodes would make blocks with one key.                                   *)
PassiveHasNoKeys == role = "producer" /\ passive => ~keys

THEOREM NoKeysForPassive == Spec => []PassiveHasNoKeys
<1>1. Init => PassiveHasNoKeys
  BY DEF Init, PassiveHasNoKeys
<1>2. PassiveHasNoKeys /\ [Next]_vars => PassiveHasNoKeys'
  <2> SUFFICES ASSUME PassiveHasNoKeys, [Next]_vars PROVE PassiveHasNoKeys'
    OBVIOUS
  <2>1. role' = role /\ passive' = passive
    BY DEF Next, Start, Setup, FilesFail, ReadConfig, ConfigUnreadable, TakeFlags,
       SeverityPanic, FindNode, RejectId, IndexPanic, DbFound, DbError, StartClean,
       BeginCopy, EndCopy, CopyMagic, RemoveSocket, Launch, LaunchNothing, Receive,
       ReceiveExporter, ReceiveNode, ReceiveUpdater, ReceiveFrom, CopySome, AllAsleep,
       ExporterRuns, NodeRuns, NodeWrites, ExporterEnds, NodeEnds, UpdaterStarts,
       UpdaterPanics, Kill, Restart, Terminated, vars, Alone, Waiting, setting
  <2>2. CASE Launch \/ LaunchNothing
    BY <2>1, <2>2, Zenon DEF Launch, LaunchNothing, Forges, PassiveHasNoKeys
  <2>3. CASE Restart
    BY <2>1, <2>3, Zenon DEF Restart, PassiveHasNoKeys
  <2>4. CASE ~(Launch \/ LaunchNothing \/ Restart)
    <3>1. keys' = keys
      BY <2>4 DEF Next, Start, Setup, FilesFail, ReadConfig, ConfigUnreadable, TakeFlags,
         SeverityPanic, FindNode, RejectId, IndexPanic, DbFound, DbError, StartClean,
         BeginCopy, EndCopy, CopyMagic, RemoveSocket, Receive, ReceiveExporter,
         ReceiveNode, ReceiveUpdater, ReceiveFrom, CopySome, AllAsleep, ExporterRuns,
         NodeRuns, NodeWrites, ExporterEnds, NodeEnds, UpdaterStarts,
         UpdaterPanics, Kill, Terminated, vars, Alone, nodeC
    <3> QED
      BY <2>1, <3>1, Zenon DEF PassiveHasNoKeys
  <2> QED
    BY <2>2, <2>3, <2>4
<1> QED
  BY <1>1, <1>2, PTL DEF Spec

(* A node that was killed leaves no socket to the next. *)
THEOREM NoStaleSocket == Spec => []SocketFresh
<1>1. IInv => SocketFresh
  BY DEF IInv, SocketSeen, SocketFresh
<1> QED
  BY <1>1, Inductive, PTL

(* The database of a node that has run stays its own. *)
THEOREM DatabaseStays == Spec => DatabaseKept
<1>1. IInv /\ [Next]_vars => [db = "own" => db' = "own"]_vars
  <2> SUFFICES ASSUME IInv, [Next]_vars, db = "own" PROVE db' = "own"
    OBVIOUS
  <2>1. main \notin {"copy", "magic"}
    BY DEF IInv, CopiesOverNothing
  <2>2. CASE Start
    BY <2>1, <2>2 DEF Start, Setup, FilesFail, ReadConfig, ConfigUnreadable, TakeFlags,
       SeverityPanic, FindNode, RejectId, IndexPanic, DbFound, DbError, StartClean,
       BeginCopy, EndCopy, CopyMagic, RemoveSocket, Launch, LaunchNothing, Receive,
       ReceiveExporter, ReceiveNode, ReceiveUpdater, ReceiveFrom, Step
  <2>3. CASE ~Start
    BY <2>1, <2>3 DEF Next, CopySome, AllAsleep, ExporterRuns, NodeRuns,
       NodeWrites, ExporterEnds, NodeEnds, UpdaterStarts,
       UpdaterPanics, Kill, Restart, Terminated, vars
  <2> QED
    BY <2>2, <2>3
<1> QED
  BY <1>1, Inductive, PTL DEF Spec, DatabaseKept

-----------------------------------------------------------------------------
(* The refinement. *)

(* While the start is prepared nothing has failed. *)
LEMMA StageOf ==
    ASSUME IInv
    PROVE  /\ main \in Preparing => stage = "preparing" /\ ~failed
           /\ main = "select" => stage = "serving"
           /\ main = "returned" => stage = "returned"
           /\ main = "crashed" => stage = "killed"
BY Zenon DEF IInv, TypeOK, Preparing, NothingRunsYet, stage, failed

LEMMA StageOfNext ==
    ASSUME IInv'
    PROVE  /\ main' \in Preparing => stage' = "preparing" /\ ~failed'
           /\ main' = "select" => stage' = "serving"
           /\ main' = "returned" => stage' = "returned"
           /\ main' = "crashed" => stage' = "killed"
BY Zenon DEF IInv, TypeOK, Preparing, NothingRunsYet, stage, failed

(* The preparation ends, one way or another. *)
LEMMA PreparingRefines ==
    ASSUME IInv, IInv', main \in Preparing, Setup \/ FilesFail \/ CopySome \/ Kill
    PROVE  [Contract!Next]_Contract!vars
<1>1. main' \in Preparing \cup {"returned", "crashed"}
  BY DEF Setup, FilesFail, CopySome, Kill, ReadConfig, ConfigUnreadable, TakeFlags,
     SeverityPanic, FindNode, RejectId, IndexPanic, DbFound, DbError, StartClean,
     BeginCopy, EndCopy, CopyMagic, RemoveSocket, Step, Fail, Preparing
<1>2. /\ expPhase' = expPhase /\ nodePhase' = nodePhase /\ updater' = updater
      /\ report' # "updater"
  BY DEF Setup, FilesFail, CopySome, Kill, ReadConfig, ConfigUnreadable, TakeFlags,
     SeverityPanic, FindNode, RejectId, IndexPanic, DbFound, DbError, StartClean,
     BeginCopy, EndCopy, CopyMagic, RemoveSocket, Step, Fail, Alone, Waiting,
     goroutines, commands, IInv, NothingRunsYet
<1>3. ~failed /\ ~failed' /\ stage = "preparing"
  BY <1>2, StageOf DEF failed, IInv, NothingRunsYet
<1>4. failed' = failed
  BY <1>3, Zenon DEF failed
<1>5. CASE main' \in Preparing
  BY <1>3, <1>4, <1>5, StageOfNext DEF Contract!vars
<1>6. CASE main' = "returned"
  BY <1>3, <1>4, <1>6, StageOfNext DEF Contract!Next, Contract!GiveUp
<1>7. CASE main' = "crashed"
  BY <1>3, <1>4, <1>7, StageOfNext DEF Contract!Next, Contract!Die
<1> QED
  BY <1>1, <1>5, <1>6, <1>7

(* The goroutines are started, or nothing is. *)
LEMMA LaunchRefines ==
    ASSUME IInv, IInv', Launch \/ LaunchNothing
    PROVE  [Contract!Next]_Contract!vars
<1>1. main = "download" /\ main' = "select"
  BY DEF Launch, LaunchNothing, Step
<1>2. stage = "preparing" /\ ~failed /\ stage' = "serving"
  BY <1>1, StageOf, StageOfNext DEF Preparing
<1>3. ~failed'
  BY <1>1 DEF failed, Launch, LaunchNothing, Step, Waiting, goroutines, commands,
     IInv, NothingRunsYet, Preparing
<1>4. failed' = failed
  BY <1>2, <1>3, Zenon DEF failed
<1> QED
  BY <1>2, <1>4 DEF Contract!Next, Contract!Serve

(* What StartCnode receives is a failure. *)
LEMMA ReceiveRefines ==
    ASSUME IInv, IInv', Receive
    PROVE  [Contract!Next]_Contract!vars
<1>1. stage = "serving" /\ stage' = "returned"
  BY StageOf, StageOfNext DEF Receive, ReceiveExporter, ReceiveNode, ReceiveUpdater,
     ReceiveFrom, Fail, Step
<1>2. failed /\ failed'
  BY DEF failed, Receive, ReceiveExporter, ReceiveNode, ReceiveUpdater, ReceiveFrom,
     Fail, Step, commands, IInv, SendersFailed
<1>3. failed' = failed
  BY <1>2, Zenon DEF failed
<1> QED
  BY <1>1, <1>2, <1>3 DEF Contract!Next, Contract!Return

(* Only failures are added by the goroutines. *)
LEMMA GoroutinesRefine ==
    ASSUME IInv, IInv', Alive,
           ExporterRuns \/ NodeRuns \/ ExporterEnds \/ NodeEnds \/ UpdaterStarts
    PROVE  [Contract!Next]_Contract!vars
<1>1. main' = main
  BY DEF ExporterRuns, NodeRuns, ExporterEnds, NodeEnds, UpdaterStarts
<1>2. stage' = stage /\ stage \in {"serving", "returned"}
  BY <1>1, StageOf, StageOfNext DEF Alive
<1>3. failed => failed'
  <2>1. CASE ExporterRuns
    BY <2>1 DEF failed, ExporterRuns, goroutines, ExporterExec!Next,
       ExporterExec!Launch, ExporterExec!LaunchFails, ExporterExec!Exit, ExporterExec!Return
  <2>2. CASE NodeRuns
    BY <2>2 DEF failed, NodeRuns, goroutines, NodeExec!Next, NodeExec!Launch,
       NodeExec!LaunchFails, NodeExec!Exit, NodeExec!Return
  <2>3. CASE ExporterEnds \/ NodeEnds \/ UpdaterStarts
    BY <2>3 DEF failed, ExporterEnds, NodeEnds, UpdaterStarts, commands
  <2> QED
    BY <2>1, <2>2, <2>3
<1>4. CASE failed'
  <2>1. failed' = TRUE
    BY <1>4, Zenon
  <2> QED
    BY <1>2, <2>1 DEF Contract!Next, Contract!Fail
<1>5. CASE ~failed'
  <2>1. failed' = failed
    BY <1>3, <1>5, Zenon DEF failed
  <2> QED
    BY <1>2, <2>1 DEF Contract!vars
<1> QED
  BY <1>4, <1>5

(* The process dies, or is started again. *)
LEMMA DieRefines ==
    ASSUME IInv, IInv', Kill \/ AllAsleep \/ UpdaterPanics, main = "select"
    PROVE  [Contract!Next]_Contract!vars
<1>1. stage = "serving" /\ stage' = "killed"
  BY StageOf, StageOfNext DEF Kill, AllAsleep, UpdaterPanics, Step
<1>2. UNCHANGED <<expPhase, expFailed, nodePhase, nodeFailed, updater, report>>
  BY DEF Kill, AllAsleep, UpdaterPanics, Alone, Waiting, goroutines, commands
<1>3. failed' = failed
  BY <1>2, Zenon DEF failed
<1> QED
  BY <1>1, <1>3 DEF Contract!Next, Contract!Die

LEMMA RestartRefines ==
    ASSUME IInv, IInv', Restart
    PROVE  [Contract!Next]_Contract!vars
<1>1. stage \in {"returned", "killed"}
  BY StageOf DEF Restart
<1>2. stage' = "preparing" /\ ~failed'
  BY StageOfNext DEF Restart, Preparing
<1>3. failed' = FALSE
  BY <1>2, Zenon DEF failed
<1> QED
  BY <1>1, <1>2, <1>3 DEF Contract!Next, Contract!Restart

(* Steps the container runtime does not see. *)
LEMMA StutterRefines ==
    ASSUME IInv, IInv', NodeWrites \/ UNCHANGED vars
    PROVE  UNCHANGED Contract!vars
<1>1. UNCHANGED <<main, expPhase, expFailed, nodePhase, nodeFailed, updater, report>>
  BY DEF NodeWrites, vars, goroutines, commands
<1>2. failed' = failed
  BY <1>1, Zenon DEF failed
<1>3. stage' = stage
  BY <1>1, Zenon DEF stage, Preparing
<1> QED
  BY <1>2, <1>3 DEF Contract!vars

(* Every start, for any number of nodes, ids and starts, keeps the contract *)
(* of a runner (node.go:235-260), but for what must eventually happen.      *)
THEOREM RunnerRefines == Spec => Contract!Safety
<1>1. Init => Contract!Init
  <2> SUFFICES ASSUME Init PROVE Contract!Init
    OBVIOUS
  <2>1. stage = "preparing" /\ ~failed
    BY InitIInv, StageOf DEF Init, Preparing
  <2> QED
    BY <2>1, Zenon DEF Contract!Init, failed
<1>2. IInv /\ IInv' /\ [Next]_vars => [Contract!Next]_Contract!vars
  <2> SUFFICES ASSUME IInv, IInv', [Next]_vars PROVE [Contract!Next]_Contract!vars
    OBVIOUS
  <2>1. CASE Setup \/ FilesFail \/ CopySome
    <3>1. main \in Preparing
      BY <2>1 DEF Setup, FilesFail, CopySome, ReadConfig, ConfigUnreadable, TakeFlags,
         SeverityPanic, FindNode, RejectId, IndexPanic, DbFound, DbError, StartClean,
         BeginCopy, EndCopy, CopyMagic, RemoveSocket, Step, Fail, Preparing
    <3> QED
      BY <2>1, <3>1, PreparingRefines
  <2>2. CASE Kill
    <3>1. main \in Preparing \/ main = "select"
      BY <2>2 DEF Kill, IInv, TypeOK
    <3> QED
      BY <2>2, <3>1, PreparingRefines, DieRefines
  <2>3. CASE AllAsleep \/ UpdaterPanics
    BY <2>3, DieRefines DEF AllAsleep, UpdaterPanics, Step
  <2>4. CASE ExporterRuns \/ NodeRuns \/ ExporterEnds \/ NodeEnds \/ UpdaterStarts
    <3>1. Alive
      BY <2>4 DEF ExporterRuns, NodeRuns, ExporterEnds, NodeEnds, UpdaterStarts
    <3> QED
      BY <2>4, <3>1, GoroutinesRefine
  <2>5. CASE Launch \/ LaunchNothing \/ Receive \/ Restart
    BY <2>5, LaunchRefines, ReceiveRefines, RestartRefines
  <2>6. CASE NodeWrites \/ Terminated \/ UNCHANGED vars
    BY <2>6, StutterRefines DEF Terminated
  <2> QED
    BY <2>1, <2>2, <2>3, <2>4, <2>5, <2>6 DEF Next, Start
<1> QED
  BY <1>1, <1>2, Inductive, PTL DEF Spec, Contract!Safety
=============================================================================
