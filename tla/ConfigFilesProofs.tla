--------------------------- MODULE ConfigFilesProofs ---------------------------
(***************************************************************************)
(* Proofs about ConfigFiles, for any number of crashes: the wait group     *)
(* counts the goroutines that have not finished, the node starts on whole  *)
(* files, and no goroutine writes under it.                                *)
(***************************************************************************)
EXTENDS ConfigFiles, FiniteSetTheorems, TLAPS

Whole == {"fresh", "junk"}
Last == {"record", "signal", "done"}

(* A goroutine exists only between Wg.Add and the end of the process. *)
GoroutinesOfThisLife ==
    /\ main = "add" => wg = 0 /\ \A f \in Files : pc[f] = "idle"
    /\ main # "add" => \A f \in Files : pc[f] # "idle"
    /\ main = "started" => wg = 0
    /\ ~up => main = "add"

(* What each goroutine has brought about when it gets to its last steps. *)
PathsRecorded == \A f \in Files : pc[f] \in {"signal", "done"} => f \in recorded

GenesisWritten ==
    /\ \A f \in {"config", "byron"} :
          /\ pc[f] \in Last => files[f] \in Whole
          /\ pc[f] \notin {"magic", "search", "reopen", "refill"}
    /\ pc["shelley"] \notin {"search", "reopen", "refill"}
    /\ pc["shelley"] \in Last => files["shelley"] = "fresh" /\ magic = "set"

(* The inductive invariant. *)
IInv == /\ TypeOK
        /\ WaitGroupCounts
        /\ GoroutinesOfThisLife
        /\ PathsRecorded
        /\ GenesisWritten

-----------------------------------------------------------------------------

(* The four files are a finite set, whose size is a number. *)
LEMMA FilesFinite == IsFiniteSet(Files) /\ Cardinality(Files) \in Nat
<1>1. IsFiniteSet({"config"}) /\ IsFiniteSet({"topology"})
      /\ IsFiniteSet({"shelley"}) /\ IsFiniteSet({"byron"})
  BY FS_Singleton
<1>2. IsFiniteSet(({"config"} \cup {"topology"}) \cup ({"shelley"} \cup {"byron"}))
  BY <1>1, FS_Union
<1>3. Files = ({"config"} \cup {"topology"}) \cup ({"shelley"} \cup {"byron"})
  BY DEF Files
<1>4. IsFiniteSet(Files)
  BY <1>2, <1>3
<1> QED
  BY <1>4, FS_CardinalityType

(* So are the goroutines that have not finished, at most one for a file. *)
LEMMA UnfinishedFinite ==
    /\ IsFiniteSet(Unfinished)
    /\ Cardinality(Unfinished) \in Nat
    /\ Cardinality(Unfinished) <= Cardinality(Files)
<1>1. Unfinished \subseteq Files
  BY DEF Unfinished
<1> QED
  BY <1>1, FilesFinite, FS_Subset, FS_CardinalityType

(* A step of a goroutine that does not finish it leaves the count alone. *)
LEMMA StillUnfinished ==
    ASSUME TypeOK,
           NEW f \in Files, NEW step \in Steps, step # "done",
           pc[f] # "done",
           pc' = [pc EXCEPT ![f] = step]
    PROVE  Unfinished' = Unfinished
BY DEF Unfinished, TypeOK

(* The step that finishes it takes one from the count. *)
LEMMA OneLess ==
    ASSUME TypeOK,
           NEW f \in Files,
           pc[f] # "done",
           pc' = [pc EXCEPT ![f] = "done"]
    PROVE  /\ Cardinality(Unfinished') = Cardinality(Unfinished) - 1
           /\ Cardinality(Unfinished) \in 1..Cardinality(Files)
<1>1. Unfinished' = Unfinished \ {f}
  BY DEF Unfinished, TypeOK
<1>2. f \in Unfinished
  BY DEF Unfinished
<1>3. Cardinality(Unfinished') = Cardinality(Unfinished) - 1
  BY <1>1, <1>2, UnfinishedFinite, FS_RemoveElement
<1>4. Cardinality(Unfinished) # 0
  BY <1>2, UnfinishedFinite, FS_EmptySet
<1> QED
  BY <1>3, <1>4, UnfinishedFinite, FilesFinite

-----------------------------------------------------------------------------

LEMMA InitIInv == Init => IInv
<1>1. 0 \in 0..Cardinality(Files)
  BY FilesFinite
<1> QED
  BY <1>1 DEF Init, IInv, TypeOK, WaitGroupCounts, GoroutinesOfThisLife,
     PathsRecorded, GenesisWritten, Files, Steps, Replies, Last, Whole

(* Every step of a goroutine but the last keeps the invariant. *)
LEMMA StepIInv ==
    ASSUME IInv, NEW f \in Files,
           Download(f) \/ Open(f) \/ Fill(f) \/ Search(f) \/ TopologyFails(f)
             \/ ReadMagic(f) \/ Record(f)
    PROVE  IInv'
<1> USE DEF IInv, Goto, memory, disk, life
<1>1. /\ main' = main /\ wg' = wg /\ crashes' = crashes /\ up' = up
      /\ pc[f] \notin {"idle", "done"}
  BY DEF Download, Open, Fill, Search, TopologyFails, ReadMagic, Record
<1>2. PICK step \in Steps \ {"idle", "done"} : pc' = [pc EXCEPT ![f] = step]
  <2>1. CASE Fill(f)
    <3>1. AfterFill(f) \in Steps \ {"idle", "done"}
      BY DEF AfterFill, Steps
    <3> QED
      BY <2>1, <3>1 DEF Fill, Steps
  <2>2. CASE ~Fill(f)
    BY <2>2 DEF Download, Open, Search, TopologyFails, ReadMagic, Record, Steps
  <2> QED
    BY <2>1, <2>2
<1>3. Unfinished' = Unfinished
  BY <1>1, <1>2, StillUnfinished
<1>4. TypeOK'
  BY <1>1, <1>2 DEF TypeOK, Download, Open, Fill, Search, TopologyFails,
     ReadMagic, Record, Replies
<1>5. WaitGroupCounts'
  BY <1>1, <1>3 DEF WaitGroupCounts
<1>6. GoroutinesOfThisLife'
  BY <1>1, <1>2 DEF GoroutinesOfThisLife, TypeOK
<1>7. PathsRecorded'
  <2>1. recorded \subseteq recorded'
    BY DEF Download, Open, Fill, Search, TopologyFails, ReadMagic, Record
  <2>2. pc'[f] \in {"signal", "done"} => f \in recorded'
    BY <1>2 DEF Download, Open, Fill, AfterFill, Search, TopologyFails, ReadMagic, Record, TypeOK
  <2>3. \A g \in Files : g # f => pc'[g] = pc[g]
    BY <1>2 DEF TypeOK
  <2> QED
    BY <2>1, <2>2, <2>3 DEF PathsRecorded
<1>8. GenesisWritten'
  <2> USE DEF TypeOK, GenesisWritten, Last, Whole, Files
  <2>1. CASE Download(f) BY <2>1 DEF Download
  <2>2. CASE Open(f) BY <2>2 DEF Open
  <2>3. CASE Fill(f) BY <2>3 DEF Fill, AfterFill
  <2>4. CASE Search(f) BY <2>4 DEF Search
  <2>5. CASE TopologyFails(f) BY <2>5 DEF TopologyFails
  <2>6. CASE ReadMagic(f) BY <2>6 DEF ReadMagic
  <2>7. CASE Record(f) BY <2>7 DEF Record
  <2> QED
    BY <2>1, <2>2, <2>3, <2>4, <2>5, <2>6, <2>7
<1> QED
  BY <1>4, <1>5, <1>6, <1>7, <1>8

(* So does the last one, which calls Wg.Done. *)
LEMMA SignalIInv == ASSUME IInv, NEW f \in Files, Signal(f) PROVE IInv'
<1> USE DEF IInv, Signal, Goto, disk, life
<1>1. /\ Cardinality(Unfinished') = Cardinality(Unfinished) - 1
      /\ Cardinality(Unfinished) \in 1..Cardinality(Files)
  BY OneLess
<1>2. main # "add"
  BY DEF GoroutinesOfThisLife
<1>3. /\ wg' = Cardinality(Unfinished')
      /\ wg' \in 0..Cardinality(Files)
      /\ wg # 0
  BY <1>1, <1>2, FilesFinite DEF WaitGroupCounts
<1>4. TypeOK'
  BY <1>3 DEF TypeOK, Steps
<1>5. WaitGroupCounts'
  BY <1>3 DEF WaitGroupCounts
<1>6. GoroutinesOfThisLife'
  BY <1>2, <1>3 DEF GoroutinesOfThisLife, TypeOK
<1>7. PathsRecorded' /\ GenesisWritten'
  BY DEF PathsRecorded, GenesisWritten, TypeOK, Last, Whole, Files
<1> QED
  BY <1>4, <1>5, <1>6, <1>7

(* The end of the process leaves nothing of it in memory. *)
LEMMA DieIInv == ASSUME IInv, Die PROVE IInv'
<1> USE DEF IInv, Die, disk
<1>1. 0 \in 0..Cardinality(Files)
  BY FilesFinite
<1>2. TypeOK'
  <2>1. pc' \in [Files -> Steps] /\ body' \in [Files -> Replies \cup {"none"}]
    BY DEF Steps
  <2>2. wg' \in 0..Cardinality(Files)
    BY <1>1
  <2>3. files' \in [Files -> {"absent", "stale", "partial", "fresh", "junk"}]
    BY DEF TypeOK
  <2>4. /\ main' \in {"add", "wait", "started"} /\ magic' \in {"unset", "set"}
        /\ recorded' \subseteq Files /\ up' \in BOOLEAN
    OBVIOUS
  <2>5. crashes' \in Nat
    BY DEF TypeOK
  <2> QED
    BY <2>1, <2>2, <2>3, <2>4, <2>5 DEF TypeOK
<1>3. WaitGroupCounts' /\ GoroutinesOfThisLife' /\ PathsRecorded'
  BY DEF WaitGroupCounts, GoroutinesOfThisLife, PathsRecorded
<1>4. GenesisWritten'
  BY DEF GenesisWritten, Files, Last
<1> QED
  BY <1>2, <1>3, <1>4

(* Wg.Add counts the goroutines that are started with it. *)
LEMMA LaunchIInv == ASSUME IInv, Launch PROVE IInv'
<1> USE DEF IInv, Launch, disk, life
<1>1. Unfinished' = Files
  BY DEF Unfinished
<1>2. wg' = Cardinality(Files) /\ wg' \in 0..Cardinality(Files)
  BY FilesFinite DEF GoroutinesOfThisLife
<1>3. TypeOK'
  BY <1>2 DEF TypeOK, Steps
<1>4. WaitGroupCounts'
  BY <1>1, <1>2 DEF WaitGroupCounts
<1>5. GoroutinesOfThisLife' /\ PathsRecorded' /\ GenesisWritten'
  BY DEF GoroutinesOfThisLife, PathsRecorded, GenesisWritten, Last, Whole, Files
<1> QED
  BY <1>3, <1>4, <1>5

(* The node is started with an empty group. *)
LEMMA StartIInv == ASSUME IInv, Start PROVE IInv'
BY DEF IInv, Start, disk, life, TypeOK, WaitGroupCounts, Unfinished,
   GoroutinesOfThisLife, PathsRecorded, GenesisWritten, Last, Whole, Files

(* A process that was started again has no goroutines yet. *)
LEMMA RestartIInv == ASSUME IInv, Restart PROVE IInv'
BY DEF IInv, Restart, memory, TypeOK, WaitGroupCounts, Unfinished,
   GoroutinesOfThisLife, PathsRecorded, GenesisWritten, Last, Whole, Files

THEOREM Inductive == Spec => []IInv
<1>1. IInv /\ [Next]_vars => IInv'
  <2> SUFFICES ASSUME IInv, [Next]_vars PROVE IInv'
    OBVIOUS
  <2>1. ASSUME NEW f \in Files, GetConfigFile(f) PROVE IInv'
    <3>1. CASE Signal(f)
      BY <3>1, SignalIInv
    <3>2. CASE DownloadFails(f) \/ WriteFails(f) \/ SearchPanics(f) \/ NoMagic(f)
      BY <3>2, DieIInv DEF DownloadFails, WriteFails, SearchPanics, NoMagic, Panic
    <3> QED
      BY <2>1, <3>1, <3>2, StepIInv DEF GetConfigFile
  <2>2. CASE Main
    BY <2>2, LaunchIInv, StartIInv DEF Main
  <2>3. CASE Kill
    BY <2>3, DieIInv DEF Kill
  <2>4. CASE Restart
    BY <2>4, RestartIInv
  <2>5. CASE Terminated \/ UNCHANGED vars
    BY <2>5 DEF Terminated, vars, IInv, TypeOK, WaitGroupCounts, Unfinished,
       GoroutinesOfThisLife, PathsRecorded, GenesisWritten
  <2> QED
    BY <2>1, <2>2, <2>3, <2>4, <2>5 DEF Next
<1> QED
  BY <1>1, InitIInv, PTL DEF Spec

(* Wg.Done never takes the counter below zero. *)
THEOREM TypeCorrect == Spec => []TypeOK
<1>1. IInv => TypeOK
  BY DEF IInv
<1> QED
  BY <1>1, Inductive, PTL

(* The wait group counts the goroutines that have not finished. *)
THEOREM GroupCounts == Spec => []WaitGroupCounts
<1>1. IInv => WaitGroupCounts
  BY DEF IInv
<1> QED
  BY <1>1, Inductive, PTL

(* Once the node has started every goroutine has finished. *)
LEMMA AllDone ==
    ASSUME IInv, main = "started"
    PROVE  \A f \in Files : pc[f] = "done"
<1>1. Cardinality(Unfinished) = 0
  BY DEF IInv, WaitGroupCounts, GoroutinesOfThisLife
<1>2. Unfinished = {}
  BY <1>1, UnfinishedFinite, FS_EmptySet
<1> QED
  BY <1>2 DEF Unfinished

(* The node starts with whole files of this run and all their paths. *)
THEOREM WholeFiles == Spec => []NodeStartsOnWholeFiles
<1>1. IInv => NodeStartsOnWholeFiles
  <2> SUFFICES ASSUME IInv, main = "started"
               PROVE  /\ recorded = Files
                      /\ files["config"] \in {"fresh", "junk"}
                      /\ files["byron"] \in {"fresh", "junk"}
                      /\ files["shelley"] = "fresh"
                      /\ magic = "set"
    BY DEF NodeStartsOnWholeFiles
  <2>1. \A f \in Files : pc[f] = "done"
    BY AllDone
  <2>2. recorded = Files
    BY <2>1 DEF IInv, TypeOK, PathsRecorded
  <2> QED
    BY <2>1, <2>2 DEF IInv, GenesisWritten, Last, Whole, Files
<1> QED
  BY <1>1, Inductive, PTL

(* No goroutine writes a file under a running node. *)
THEOREM FilesKept == Spec => RunningNodeKeepsFiles
<1>1. IInv /\ [Next]_vars
        => [main = "started" /\ main' = "started" => files' = files]_vars
  <2> SUFFICES ASSUME IInv, [Next]_vars, main = "started", main' = "started"
               PROVE  files' = files
    OBVIOUS
  <2>1. \A f \in Files : pc[f] = "done"
    BY AllDone
  <2>2. \A f \in Files : ~GetConfigFile(f)
    BY <2>1 DEF GetConfigFile, Download, DownloadFails, Open, Fill, WriteFails,
       Search, SearchPanics, TopologyFails, ReadMagic, NoMagic, Record, Signal,
       Goto, Panic
  <2>3. up
    BY DEF IInv, GoroutinesOfThisLife
  <2> QED
    BY <2>2, <2>3 DEF Next, Main, Launch, Start, Kill, Die, Restart, Terminated,
       vars, disk
<1> QED
  BY <1>1, Inductive, PTL DEF Spec, RunningNodeKeepsFiles

-----------------------------------------------------------------------------
(* The wait for the group. *)

(* The counter keeps the caller waiting only for a goroutine that is still *)
(* at work (configfiles.go:230-284): no path leaves it above zero with     *)
(* nobody to take it down.                                                 *)
WaiterHasWorker ==
    main = "wait" /\ wg # 0 => \E f \in Files : pc[f] \notin {"idle", "done"}

THEOREM WaitsForWorker == Spec => []WaiterHasWorker
<1>1. IInv => WaiterHasWorker
  <2> SUFFICES ASSUME IInv, main = "wait", wg # 0
               PROVE  \E f \in Files : pc[f] \notin {"idle", "done"}
    BY DEF WaiterHasWorker
  <2>1. Cardinality(Unfinished) # 0
    BY DEF IInv, WaitGroupCounts
  <2>2. PICK f \in Files : pc[f] # "done"
    BY <2>1, FS_EmptySet DEF Unfinished
  <2>3. pc[f] # "idle"
    BY DEF IInv, GoroutinesOfThisLife
  <2> QED
    BY <2>2, <2>3
<1> QED
  BY <1>1, Inductive, PTL

-----------------------------------------------------------------------------
(* The refinement. *)

Kept == {"stale", "fresh", "junk"}
content == IF files["topology"] \in Kept THEN "whole" ELSE files["topology"]

(* The phase of the goroutine of the topology, step by step. *)
LEMMA PhaseOf ==
    /\ ~up => phase = "dead"
    /\ up /\ pc["topology"] \in {"idle", "download", "open"} => phase = "preparing"
    /\ up /\ pc["topology"] = "fill" => phase = "writing"
    /\ up /\ pc["topology"] \in {"search", "reopen"} => phase = "searching"
    /\ up /\ pc["topology"] = "refill" => phase = "rewriting"
    /\ up /\ pc["topology"] \in {"magic", "record", "signal", "done"} => phase = "over"
BY Zenon DEF phase

LEMMA PhaseOfNext ==
    /\ ~up' => phase' = "dead"
    /\ up' /\ pc'["topology"] \in {"idle", "download", "open"} => phase' = "preparing"
    /\ up' /\ pc'["topology"] = "fill" => phase' = "writing"
    /\ up' /\ pc'["topology"] \in {"search", "reopen"} => phase' = "searching"
    /\ up' /\ pc'["topology"] = "refill" => phase' = "rewriting"
    /\ up' /\ pc'["topology"] \in {"magic", "record", "signal", "done"} => phase' = "over"
BY Zenon DEF phase

LEMMA UnseenStep ==
    ASSUME phase' = phase, content' = content
    PROVE  UNCHANGED TopologyCall!vars
BY DEF TopologyCall!vars, content, Kept

(* A step of another goroutine is not seen. *)
LEMMA OthersRefine ==
    ASSUME IInv, NEW f \in Files \ {"topology"},
           Download(f) \/ Open(f) \/ Fill(f) \/ Search(f) \/ TopologyFails(f)
             \/ ReadMagic(f) \/ Record(f) \/ Signal(f)
    PROVE  UNCHANGED TopologyCall!vars
<1>1. /\ up' = up
      /\ pc'["topology"] = pc["topology"]
      /\ files'["topology"] = files["topology"]
  BY DEF Download, Open, Fill, Search, TopologyFails, ReadMagic, Record, Signal, Goto,
     disk, life, IInv, TypeOK, Files
<1>2. phase' = phase
  BY <1>1, Zenon DEF phase
<1> QED
  BY <1>1, <1>2, UnseenStep DEF content

(* A step of its own. *)
LEMMA TopologyRefines ==
    ASSUME IInv, IInv',
           \/ Download("topology") \/ Open("topology") \/ Fill("topology")
           \/ Search("topology") \/ TopologyFails("topology") \/ ReadMagic("topology")
           \/ Record("topology") \/ Signal("topology")
    PROVE  [TopologyCall!Next]_TopologyCall!vars
<1> USE DEF Goto, disk, life, IInv, TypeOK, Files
<1>1. up /\ up'
  BY DEF Download, Open, Fill, Search, TopologyFails, ReadMagic, Record, Signal
<1>2. CASE Download("topology") \/ Record("topology") \/ Signal("topology") \/ ReadMagic("topology")
  <2>1. content' = content
    BY <1>2 DEF Download, Record, Signal, ReadMagic, content
  <2>2. \/ /\ pc["topology"] \in {"idle", "download", "open"}
           /\ pc'["topology"] \in {"idle", "download", "open"}
        \/ /\ pc["topology"] \in {"magic", "record", "signal", "done"}
           /\ pc'["topology"] \in {"magic", "record", "signal", "done"}
    BY <1>2 DEF Download, Record, Signal, ReadMagic
  <2> QED
    BY <1>1, <2>1, <2>2, PhaseOf, PhaseOfNext, UnseenStep
<1>3. CASE Open("topology")
  <2>1. content' = "partial"
    BY <1>3 DEF Open, content, Kept
  <2>2. \/ pc["topology"] = "open" /\ pc'["topology"] = "fill"
        \/ pc["topology"] = "reopen" /\ pc'["topology"] = "refill"
    BY <1>3 DEF Open
  <2>3. \/ phase = "preparing" /\ phase' = "writing"
        \/ phase = "searching" /\ phase' = "rewriting"
    BY <1>1, <2>2, PhaseOf, PhaseOfNext
  <2> QED
    BY <2>1, <2>3 DEF TopologyCall!Next, TopologyCall!Work, TopologyCall!Truncate, content, Kept
<1>4. CASE Fill("topology")
  <2>1. content' = "whole"
    BY <1>4 DEF Fill, content, Kept
  <2>2. \/ pc["topology"] = "fill" /\ pc'["topology"] = "search"
        \/ pc["topology"] = "refill" /\ pc'["topology"] = "record"
    BY <1>4 DEF Fill, AfterFill
  <2>3. \/ phase = "writing" /\ phase' = "searching"
        \/ phase = "rewriting" /\ phase' = "over"
    BY <1>1, <2>2, PhaseOf, PhaseOfNext
  <2> QED
    BY <2>1, <2>3 DEF TopologyCall!Next, TopologyCall!Work, TopologyCall!Complete, content, Kept
<1>5. CASE Search("topology") \/ TopologyFails("topology")
  <2>1. files' = files
    BY <1>5 DEF Search, TopologyFails
  <2>2. \/ pc["topology"] = "search" /\ pc'["topology"] = "reopen"
        \/ /\ pc["topology"] \in {"download", "open", "fill", "search", "reopen", "refill"}
           /\ pc'["topology"] = "record"
    BY <1>5 DEF Search, TopologyFails
  <2>3. CASE pc["topology"] = "search" /\ pc'["topology"] = "reopen"
    BY <1>1, <2>1, <2>3, PhaseOf, PhaseOfNext, UnseenStep DEF content
  <2>4. CASE /\ pc["topology"] \in {"download", "open", "fill", "search", "reopen", "refill"}
             /\ pc'["topology"] = "record"
    <3>1. /\ phase \in {"preparing", "writing", "searching", "rewriting"}
          /\ phase' = "over"
      BY <1>1, <2>4, PhaseOf, PhaseOfNext
    <3> QED
      BY <2>1, <3>1 DEF TopologyCall!Next, TopologyCall!Work, TopologyCall!GiveUp
  <2> QED
    BY <2>2, <2>3, <2>4
<1> QED
  BY <1>2, <1>3, <1>4, <1>5

(* The end of the process, whoever brings it about, and its next start. *)
LEMMA DeathRefines ==
    ASSUME IInv, Die \/ Restart
    PROVE  [TopologyCall!Next]_TopologyCall!vars
<1>1. CASE Die
  <2>1. up /\ ~up' /\ files' = files
    BY <1>1 DEF Die, disk
  <2>2. pc["topology"] \in Steps
    BY DEF IInv, TypeOK, Files
  <2>3. phase # "dead" /\ phase' = "dead"
    BY <2>1, <2>2, PhaseOf, PhaseOfNext DEF Steps
  <2> QED
    BY <2>1, <2>3 DEF TopologyCall!Next, TopologyCall!Die
<1>2. CASE Restart
  <2>1. ~up /\ up' /\ pc'["topology"] = "idle"
    BY <1>2 DEF Restart, memory, IInv, GoroutinesOfThisLife, Files
  <2>2. phase = "dead" /\ phase' = "preparing"
    BY <2>1, PhaseOf, PhaseOfNext
  <2>3. content' = content
    BY <1>2 DEF Restart, content, Kept, IInv, TypeOK, Files
  <2> QED
    BY <2>2, <2>3 DEF TopologyCall!Next, TopologyCall!Restart, content, Kept
<1> QED
  BY <1>1, <1>2

(* The goroutine of the topology, with any of the others dying beside it,  *)
(* keeps the contract of DownloadAndSetTopologyFile for any number of      *)
(* crashes (configfiles.go:245-248), but for coming to an end.             *)
THEOREM TopologyCallRefines == Spec => TopologyCall!Safety
<1>1. Init => TopologyCall!Init
  BY PhaseOf DEF Init, Files, TopologyCall!Init
<1>2. IInv /\ IInv' /\ [Next]_vars => [TopologyCall!Next]_TopologyCall!vars
  <2> SUFFICES ASSUME IInv, IInv', [Next]_vars
               PROVE  [TopologyCall!Next]_TopologyCall!vars
    OBVIOUS
  <2>1. ASSUME NEW f \in Files, GetConfigFile(f)
        PROVE  [TopologyCall!Next]_TopologyCall!vars
    <3>1. CASE DownloadFails(f) \/ WriteFails(f) \/ SearchPanics(f) \/ NoMagic(f)
      BY <3>1, DeathRefines DEF DownloadFails, WriteFails, SearchPanics, NoMagic, Panic
    <3>2. CASE /\ f = "topology"
               /\ Download(f) \/ Open(f) \/ Fill(f) \/ Search(f) \/ TopologyFails(f)
                    \/ ReadMagic(f) \/ Record(f) \/ Signal(f)
      BY <3>2, TopologyRefines
    <3>3. CASE /\ f # "topology"
               /\ Download(f) \/ Open(f) \/ Fill(f) \/ Search(f) \/ TopologyFails(f)
                    \/ ReadMagic(f) \/ Record(f) \/ Signal(f)
      BY <3>3, OthersRefine
    <3> QED
      BY <2>1, <3>1, <3>2, <3>3 DEF GetConfigFile
  <2>2. CASE Main
    <3>1. /\ up /\ up'
          /\ \/ pc["topology"] = "idle" /\ pc'["topology"] = "download"
             \/ pc' = pc
          /\ files' = files
      BY <2>2 DEF Main, Launch, Start, disk, life, IInv, GoroutinesOfThisLife, Files
    <3>2. phase' = phase
      <4>1. CASE pc["topology"] = "idle" /\ pc'["topology"] = "download"
        BY <3>1, <4>1, PhaseOf, PhaseOfNext
      <4>2. CASE pc' = pc
        BY <3>1, <4>2, Zenon DEF phase
      <4> QED
        BY <3>1, <4>1, <4>2
    <3> QED
      BY <3>1, <3>2, UnseenStep DEF content
  <2>3. CASE Kill \/ Restart
    BY <2>3, DeathRefines DEF Kill
  <2>4. CASE Terminated \/ UNCHANGED vars
    <3>1. pc' = pc /\ files' = files /\ up' = up
      BY <2>4 DEF Terminated, vars
    <3>2. phase' = phase
      BY <3>1, Zenon DEF phase
    <3> QED
      BY <3>1, <3>2, UnseenStep DEF content
  <2> QED
    BY <2>1, <2>2, <2>3, <2>4 DEF Next
<1> QED
  BY <1>1, <1>2, Inductive, PTL DEF Spec, TopologyCall!Safety

(* So the topology is whole while the search for public relays is under    *)
(* way, which it may crash in: this follows from the contract alone.       *)
THEOREM SearchOnWholeFile == Spec => [](phase = "searching" => content = "whole")
<1>1. TopologyCall!Init => (phase = "searching" => content = "whole")
  BY DEF TopologyCall!Init
<1>2. /\ phase = "searching" => content = "whole"
      /\ [TopologyCall!Next]_TopologyCall!vars
      => (phase = "searching" => content = "whole")'
  BY DEF TopologyCall!Next, TopologyCall!vars, TopologyCall!Work, TopologyCall!Truncate,
     TopologyCall!Complete, TopologyCall!GiveUp, TopologyCall!Die, TopologyCall!Restart,
     content, Kept
<1> QED
  BY <1>1, <1>2, TopologyCallRefines, PTL DEF TopologyCall!Safety
=============================================================================
