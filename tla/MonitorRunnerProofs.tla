-------------------------- MODULE MonitorRunnerProofs --------------------------
(***************************************************************************)
(* Proofs about MonitorRunner, for any configurations, of any number of    *)
(* nodes, and any number of starts: the types; a monitor that was started  *)
(* on its file watches every node; the steps are those of RunnerContract.  *)
(***************************************************************************)
EXTENDS MonitorRunner, TLAPS

Node == [expPort : Nat, rtPort : Nat]

-----------------------------------------------------------------------------
(* The files. *)

LEMMA ConfLists ==
    ASSUME NEW c \in Confs
    PROVE  c.relays \in Seq(Node) /\ c.producers \in Seq(Node)
BY ConfsAreLists DEF Node

Entry == [node : {<<"master">>} \cup ({"relay", "producer"} \X Nat),
          what : {"exporter", "cardano"}, port : Nat]

(* The entries of node i of a list are number 2i + 1 and 2i + 2. *)
LEMMA JobsOf ==
    ASSUME NEW role \in {"relay", "producer"}, NEW nodes \in Seq(Node)
    PROVE  /\ Jobs(role, nodes) \in Seq(Entry)
           /\ DOMAIN Jobs(role, nodes) = 1 .. 2 * Len(nodes)
           /\ \A k \in 1 .. 2 * Len(nodes) :
                 Jobs(role, nodes)[k].node \in Names(role, nodes)
           /\ \A i \in 0 .. Len(nodes) - 1 :
                 /\ 2 * i + 2 \in 1 .. 2 * Len(nodes)
                 /\ Jobs(role, nodes)[2 * i + 2] = Job(<<role, i>>, "cardano", MetricsPort)
<1> DEFINE jobs == Jobs(role, nodes)
<1>1. ASSUME NEW k \in 1 .. 2 * Len(nodes)
      PROVE  jobs[k] \in Entry /\ jobs[k].node \in Names(role, nodes)
  <2> DEFINE i == (k - 1) \div 2
  <2>1. i \in 0 .. Len(nodes) - 1
    OBVIOUS
  <2>2. nodes[i + 1] \in Node
    BY <2>1
  <2>3. jobs[k] = IF k % 2 = 1 THEN Job(<<role, i>>, "exporter", nodes[i + 1].expPort)
                               ELSE Job(<<role, i>>, "cardano", MetricsPort)
    BY DEF Jobs
  <2> HIDE DEF i, jobs
  <2>4. jobs[k].node = <<role, i>>
    BY <2>3 DEF Job
  <2>5. <<role, i>> \in Names(role, nodes) /\ <<role, i>> \in {"relay", "producer"} \X Nat
    BY <2>1 DEF Names
  <2>6. jobs[k] \in Entry
    BY <2>2, <2>3, <2>5 DEF Job, Node, MetricsPort, Entry
  <2> QED
    BY <2>4, <2>5, <2>6
<1>2. jobs = [k \in 1 .. 2 * Len(nodes) |-> jobs[k]] /\ 2 * Len(nodes) \in Nat
  BY DEF Jobs
<1>3. jobs \in Seq(Entry) /\ DOMAIN jobs = 1 .. 2 * Len(nodes)
  <2> HIDE DEF jobs
  <2> QED
    BY <1>1, <1>2
<1>4. ASSUME NEW i \in 0 .. Len(nodes) - 1
      PROVE  /\ 2 * i + 2 \in 1 .. 2 * Len(nodes)
             /\ jobs[2 * i + 2] = Job(<<role, i>>, "cardano", MetricsPort)
  <2>1. /\ 2 * i + 2 \in 1 .. 2 * Len(nodes)
        /\ (2 * i + 2) % 2 # 1 /\ (2 * i + 2 - 1) \div 2 = i
    OBVIOUS
  <2> QED
    BY <2>1 DEF Jobs
<1> QED
  BY <1>1, <1>3, <1>4

(* The entries of a list of two parts are those of the parts. *)
LEMMA Parts ==
    ASSUME NEW a \in Seq(Entry), NEW b \in Seq(Entry)
    PROVE  /\ a \o b \in Seq(Entry)
           /\ \A j \in DOMAIN a : \E k \in DOMAIN (a \o b) : (a \o b)[k] = a[j]
           /\ \A j \in DOMAIN b : \E k \in DOMAIN (a \o b) : (a \o b)[k] = b[j]
           /\ \A k \in DOMAIN (a \o b) : \/ \E j \in DOMAIN a : (a \o b)[k] = a[j]
                                         \/ \E j \in DOMAIN b : (a \o b)[k] = b[j]
<1>1. a \o b \in Seq(Entry)
  OBVIOUS
<1>2. \A j \in DOMAIN a : j \in DOMAIN (a \o b) /\ (a \o b)[j] = a[j]
  OBVIOUS
<1>3. \A j \in DOMAIN b : Len(a) + j \in DOMAIN (a \o b) /\ (a \o b)[Len(a) + j] = b[j]
  OBVIOUS
<1>4. \A k \in DOMAIN (a \o b) : \/ k \in DOMAIN a
                                 \/ k - Len(a) \in DOMAIN b /\ (a \o b)[k] = b[k - Len(a)]
  OBVIOUS
<1> QED
  BY <1>1, <1>2, <1>3, <1>4

WatchesAll(c, isPrometheus, list) ==
    \A name \in NodeNames(c) :
       LET node == NodeOf(c, name)
           entries == {k \in DOMAIN list : list[k].node = name}
       IN  IF isPrometheus
           THEN \E k \in entries : /\ list[k].what = "cardano"
                                   /\ list[k].port = NodeSettings(node).hasPrometheus
           ELSE \E k \in entries : /\ entries = {k}
                                   /\ list[k].port = NodeSettings(node).traceForwardTo

KnowsOnly(c, list) ==
    \A k \in DOMAIN list : list[k].node \in NodeNames(c) \cup {<<"master">>}

(* Prometheus' file has the metrics of every node. *)
LEMMA ScrapesAll ==
    ASSUME NEW c \in Confs
    PROVE  /\ WatchesAll(c, TRUE, ScrapeConfigs(c))
           /\ KnowsOnly(c, ScrapeConfigs(c))
<1> DEFINE own == <<Job(<<"master">>, "exporter", 9100)>>
           relays == Jobs("relay", c.relays)
           producers == Jobs("producer", c.producers)
           both == own \o relays
           list == both \o producers
<1>1. c.relays \in Seq(Node) /\ c.producers \in Seq(Node)
  BY ConfLists
<1>2. /\ relays \in Seq(Entry)
      /\ \A k \in DOMAIN relays : relays[k].node \in Names("relay", c.relays)
      /\ \A i \in 0 .. Len(c.relays) - 1 :
            /\ 2 * i + 2 \in DOMAIN relays
            /\ relays[2 * i + 2] = Job(<<"relay", i>>, "cardano", MetricsPort)
  BY <1>1, JobsOf
<1>3. /\ producers \in Seq(Entry)
      /\ \A k \in DOMAIN producers : producers[k].node \in Names("producer", c.producers)
      /\ \A i \in 0 .. Len(c.producers) - 1 :
            /\ 2 * i + 2 \in DOMAIN producers
            /\ producers[2 * i + 2] = Job(<<"producer", i>>, "cardano", MetricsPort)
  BY <1>1, JobsOf
<1>4. own \in Seq(Entry) /\ DOMAIN own = {1} /\ own[1].node = <<"master">>
  BY DEF Job, Entry
<1>5. list = ScrapeConfigs(c)
  BY DEF ScrapeConfigs
<1> HIDE DEF own, relays, producers
<1>6. /\ both \in Seq(Entry)
      /\ \A k \in DOMAIN relays : \E j \in DOMAIN both : both[j] = relays[k]
      /\ \A j \in DOMAIN both : \/ both[j].node = <<"master">>
                                \/ \E k \in DOMAIN relays : both[j] = relays[k]
  <2>1. /\ own \o relays \in Seq(Entry)
        /\ \A k \in DOMAIN relays : \E j \in DOMAIN (own \o relays) :
              (own \o relays)[j] = relays[k]
        /\ \A j \in DOMAIN (own \o relays) :
              \/ \E k \in DOMAIN own : (own \o relays)[j] = own[k]
              \/ \E k \in DOMAIN relays : (own \o relays)[j] = relays[k]
    <3>1. own \in Seq(Entry) /\ relays \in Seq(Entry)
      BY <1>2, <1>4
    <3> QED
      BY <3>1, Parts, Zenon
  <2> QED
    BY <1>4, <2>1
<1> HIDE DEF both
<1>7. /\ \A j \in DOMAIN both : \E k \in DOMAIN list : list[k] = both[j]
      /\ \A j \in DOMAIN producers : \E k \in DOMAIN list : list[k] = producers[j]
      /\ \A k \in DOMAIN list : \/ \E j \in DOMAIN both : list[k] = both[j]
                                \/ \E j \in DOMAIN producers : list[k] = producers[j]
  <2>1. both \in Seq(Entry) /\ producers \in Seq(Entry)
    BY <1>3, <1>6
  <2> QED
    BY <2>1, Parts, Zenon
<1> HIDE DEF list
<1>8. WatchesAll(c, TRUE, list)
  <2> SUFFICES ASSUME NEW name \in NodeNames(c)
               PROVE  \E k \in DOMAIN list : list[k] = Job(name, "cardano", MetricsPort)
    BY DEF WatchesAll, Job, NodeSettings
  <2>1. CASE name \in Names("relay", c.relays)
    <3>1. PICK i \in 0 .. Len(c.relays) - 1 : name = <<"relay", i>>
      BY <2>1 DEF Names
    <3> QED
      BY <1>2, <1>6, <1>7, <3>1
  <2>2. CASE name \in Names("producer", c.producers)
    <3>1. PICK i \in 0 .. Len(c.producers) - 1 : name = <<"producer", i>>
      BY <2>2 DEF Names
    <3> QED
      BY <1>3, <1>7, <3>1
  <2> QED
    BY <2>1, <2>2 DEF NodeNames
<1>9. KnowsOnly(c, list)
  <2> SUFFICES ASSUME NEW k \in DOMAIN list
               PROVE  list[k].node \in NodeNames(c) \cup {<<"master">>}
    BY DEF KnowsOnly
  <2>1. \/ \E j \in DOMAIN both : list[k] = both[j]
        \/ \E j \in DOMAIN producers : list[k] = producers[j]
    BY <1>7
  <2> QED
    BY <1>2, <1>3, <1>6, <2>1 DEF NodeNames
<1> QED
  BY <1>5, <1>8, <1>9

(* RTView's file has one port for every node. *)
Acceptor == [node : {"relay", "producer"} \X Nat, port : Nat]

LEMMA AcceptorsOf ==
    ASSUME NEW role \in {"relay", "producer"}, NEW nodes \in Seq(Node)
    PROVE  /\ Acceptors(role, nodes) \in Seq(Acceptor)
           /\ Len(Acceptors(role, nodes)) = Len(nodes)
           /\ \A k \in 1 .. Len(nodes) :
                 Acceptors(role, nodes)[k] = [node |-> <<role, k - 1>>, port |-> nodes[k].rtPort]
<1> DEFINE list == Acceptors(role, nodes)
<1>1. Len(nodes) \in Nat
  OBVIOUS
<1>2. \A k \in 1 .. Len(nodes) :
         list[k] = [node |-> <<role, k - 1>>, port |-> nodes[k].rtPort]
  BY DEF Acceptors
<1>3. \A k \in 1 .. Len(nodes) : list[k] \in Acceptor
  <2> TAKE k \in 1 .. Len(nodes)
  <2>1. nodes[k] \in Node /\ k - 1 \in Nat
    OBVIOUS
  <2>2. nodes[k].rtPort \in Nat
    BY <2>1 DEF Node
  <2>3. list[k] = [node |-> <<role, k - 1>>, port |-> nodes[k].rtPort]
    BY <1>2
  <2> HIDE DEF list
  <2> QED
    BY <2>1, <2>2, <2>3 DEF Acceptor
<1>4. list = [k \in 1 .. Len(nodes) |-> list[k]]
  BY DEF Acceptors
<1> HIDE DEF list
<1>5. list \in Seq(Acceptor) /\ Len(list) = Len(nodes)
  BY <1>1, <1>3, <1>4
<1> QED
  BY <1>2, <1>5 DEF list

LEMMA AcceptsAll ==
    ASSUME NEW c \in Confs
    PROVE  /\ WatchesAll(c, FALSE, TraceAcceptAt(c))
           /\ KnowsOnly(c, TraceAcceptAt(c))
<1> DEFINE a == Acceptors("relay", c.relays)
           b == Acceptors("producer", c.producers)
           list == a \o b
           n == Len(c.relays)
           m == Len(c.producers)
<1>1. /\ c.relays \in Seq(Node) /\ c.producers \in Seq(Node)
      /\ n \in Nat /\ m \in Nat
  BY ConfLists
<1>2. /\ a \in Seq(Acceptor) /\ Len(a) = n
      /\ \A k \in 1 .. n : a[k] = [node |-> <<"relay", k - 1>>, port |-> c.relays[k].rtPort]
  BY <1>1, AcceptorsOf
<1>3. /\ b \in Seq(Acceptor) /\ Len(b) = m
      /\ \A k \in 1 .. m :
            b[k] = [node |-> <<"producer", k - 1>>, port |-> c.producers[k].rtPort]
  BY <1>1, AcceptorsOf
<1>4. list = TraceAcceptAt(c)
  BY DEF TraceAcceptAt
<1> HIDE DEF a, b, n, m
<1>5. /\ DOMAIN list = 1 .. n + m
      /\ \A k \in 1 .. n : k \in DOMAIN list /\ list[k] = a[k]
      /\ \A k \in 1 .. m : n + k \in DOMAIN list /\ list[n + k] = b[k]
  <2>1. a \in Seq(Acceptor) /\ b \in Seq(Acceptor) /\ Len(a) = n /\ Len(b) = m
    BY <1>2, <1>3
  <2>2. /\ DOMAIN (a \o b) = 1 .. n + m
        /\ \A k \in 1 .. n : (a \o b)[k] = a[k]
        /\ \A k \in 1 .. m : (a \o b)[n + k] = b[k]
    BY <2>1
  <2>3. /\ \A k \in 1 .. n : k \in 1 .. n + m
        /\ \A k \in 1 .. m : n + k \in 1 .. n + m
    BY <1>1
  <2> QED
    BY <2>2, <2>3
<1> HIDE DEF list
<1>6. \A k \in DOMAIN list : \/ k \in 1 .. n /\ list[k].node = <<"relay", k - 1>>
                             \/ k - n \in 1 .. m /\ list[k].node = <<"producer", k - n - 1>>
  <2> SUFFICES ASSUME NEW k \in DOMAIN list
               PROVE  \/ k \in 1 .. n /\ list[k].node = <<"relay", k - 1>>
                      \/ k - n \in 1 .. m /\ list[k].node = <<"producer", k - n - 1>>
    OBVIOUS
  <2>1. CASE k \in 1 .. n
    BY <1>2, <1>5, <2>1
  <2>2. CASE k \notin 1 .. n
    <3>1. k - n \in 1 .. m /\ n + (k - n) = k
      BY <1>1, <1>5, <2>2
    <3>2. list[k] = b[k - n]
      BY <1>5, <3>1
    <3> QED
      BY <1>3, <3>1, <3>2
  <2> QED
    BY <2>1, <2>2
<1>7. WatchesAll(c, FALSE, list)
  <2> SUFFICES ASSUME NEW name \in NodeNames(c)
               PROVE  \E k \in DOMAIN list :
                         /\ list[k].node = name
                         /\ \A j \in DOMAIN list : list[j].node = name => j = k
                         /\ list[k].port = NodeOf(c, name).rtPort
    BY DEF WatchesAll, NodeSettings
  <2>1. CASE name \in Names("relay", c.relays)
    <3>1. PICK i \in 0 .. n - 1 : name = <<"relay", i>>
      BY <2>1 DEF Names, n
    <3>2. /\ i + 1 \in DOMAIN list /\ list[i + 1].node = name
          /\ list[i + 1].port = NodeOf(c, name).rtPort
      BY <1>1, <1>2, <1>5, <3>1 DEF NodeOf
    <3>3. \A j \in DOMAIN list : list[j].node = name => j = i + 1
      BY <1>1, <1>5, <1>6, <3>1
    <3> QED
      BY <3>2, <3>3
  <2>2. CASE name \in Names("producer", c.producers)
    <3>1. PICK i \in 0 .. m - 1 : name = <<"producer", i>>
      BY <2>2 DEF Names, m
    <3>2. /\ n + (i + 1) \in DOMAIN list /\ list[n + (i + 1)].node = name
          /\ list[n + (i + 1)].port = NodeOf(c, name).rtPort
      <4>1. i + 1 \in 1 .. m /\ i + 1 - 1 = i
        BY <1>1, <3>1
      <4>2. n + (i + 1) \in DOMAIN list /\ list[n + (i + 1)] = b[i + 1]
        BY <1>5, <4>1
      <4>3. NodeOf(c, name) = c.producers[i + 1]
        BY <3>1 DEF NodeOf
      <4> QED
        BY <1>3, <3>1, <4>1, <4>2, <4>3
    <3>3. \A j \in DOMAIN list : list[j].node = name => j = n + (i + 1)
      BY <1>1, <1>5, <1>6, <3>1
    <3> QED
      BY <3>2, <3>3
  <2> QED
    BY <2>1, <2>2 DEF NodeNames
<1>8. KnowsOnly(c, list)
  <2> SUFFICES ASSUME NEW k \in DOMAIN list PROVE list[k].node \in NodeNames(c)
    BY DEF KnowsOnly
  <2>1. CASE k \in 1 .. n /\ list[k].node = <<"relay", k - 1>>
    BY <1>1, <2>1 DEF NodeNames, Names, n
  <2>2. CASE k - n \in 1 .. m /\ list[k].node = <<"producer", k - n - 1>>
    <3>1. k - n - 1 \in 0 .. m - 1
      BY <1>1, <1>5, <2>2
    <3> QED
      BY <2>2, <3>1 DEF NodeNames, Names, m
  <2> QED
    BY <1>6, <2>1, <2>2
<1> QED
  BY <1>4, <1>7, <1>8

-----------------------------------------------------------------------------
(* The runner. *)

(* Before Launch there is no goroutine and no command. *)
NothingRunsYet == main \in Preparing => goroutine = "idle" /\ cmdPhase = "idle"

(* A goroutine that sends has seen its command fail. *)
SenderFailed == goroutine = "send" => cmdPhase = "returned" /\ cmdFailed

(* The command is started on the file, and has read it. *)
FileSeenTo ==
    kind = "rtview" \/ ~lost =>
        /\ main \in {"launch", "select"} => file = Written(Content)
        /\ cmdPhase # "idle" => loaded = Written(Content)

(* The runner waits for a command that runs, or for the error of one that  *)
(* failed; it waits in vain only when the command ended well               *)
(* (prometheus_args.go:52-61, rtview_args.go:54-64).                       *)
WaitsInVainOnSuccess ==
    main = "select" => /\ goroutine # "idle"
                       /\ goroutine = "done" => cmdPhase = "returned" /\ ~cmdFailed

(* The inductive invariant. *)
IInv == TypeOK /\ NothingRunsYet /\ SenderFailed /\ FileSeenTo /\ WaitsInVainOnSuccess

LEMMA KindIs == ASSUME IInv PROVE kind = "prometheus" \/ kind = "rtview"
BY KindsKnown DEF IInv, TypeOK, Monitors

LEMMA ContentTyped == ASSUME IInv PROVE Written(Content) \in FileContents
BY DEF IInv, TypeOK, Content, FileContents

LEMMA InitIInv == Init => IInv
<1> SUFFICES ASSUME Init PROVE IInv
  OBVIOUS
<1>1. starts \in 1 .. MaxStarts
  BY StartsPositive DEF Init
<1>2. cmdFailed \in BOOLEAN /\ lost \in BOOLEAN
  BY Zenon DEF Init, Exec!Init
<1> QED
  BY <1>1, <1>2 DEF Init, Exec!Init, IInv, TypeOK, FileContents, Preparing,
     NothingRunsYet, SenderFailed, FileSeenTo, WaitsInVainOnSuccess

LEMMA FilesIInv ==
    ASSUME IInv, Prepare \/ PrepareFails \/ Truncate \/ Fill \/ WriteFails
    PROVE  IInv'
<1> USE DEF IInv, TypeOK, NothingRunsYet, SenderFailed, FileSeenTo, WaitsInVainOnSuccess, Preparing,
            setting, command, Content
<1>1. CASE Prepare \/ PrepareFails
  BY <1>1 DEF Prepare, PrepareFails, Step
<1>2. CASE Truncate
  BY <1>2 DEF Truncate, Step, FileContents
<1>3. CASE Fill
  <2>1. file' = Written(Content) /\ file' \in FileContents
    BY <1>3, ContentTyped DEF Fill
  <2> QED
    BY <1>3, <2>1 DEF Fill, Step
<1>4. CASE WriteFails
  <2>1. lost' \in BOOLEAN /\ lost'
    BY <1>4, Zenon DEF WriteFails
  <2> QED
    BY <1>4, <2>1, KindIs DEF WriteFails
<1> QED
  BY <1>1, <1>2, <1>3, <1>4

LEMMA CommandIInv ==
    ASSUME IInv, Launch \/ Run \/ End \/ Receive
    PROVE  IInv'
<1> USE DEF IInv, TypeOK, NothingRunsYet, SenderFailed, FileSeenTo, WaitsInVainOnSuccess, Preparing,
            setting, command, Content
<1>1. CASE Launch
  BY <1>1 DEF Launch, Step
<1>2. CASE Run
  <2>1. cmdFailed' \in BOOLEAN
    BY <1>2, Zenon DEF Run, Exec!Next, Exec!Launch, Exec!LaunchFails, Exec!Exit, Exec!Return
  <2>2. cmdPhase' \in {"running", "exited", "returned"}
    BY <1>2 DEF Run, Exec!Next, Exec!Launch, Exec!LaunchFails, Exec!Exit, Exec!Return
  <2> QED
    BY <1>2, <2>1, <2>2 DEF Run
<1>3. CASE End
  BY <1>3 DEF End
<1>4. CASE Receive
  BY <1>4 DEF Receive, Step
<1> QED
  BY <1>1, <1>2, <1>3, <1>4

LEMMA RestartIInv ==
    ASSUME IInv, Kill \/ Restart \/ Terminated \/ UNCHANGED vars
    PROVE  IInv'
<1> USE DEF IInv, TypeOK, NothingRunsYet, SenderFailed, FileSeenTo, WaitsInVainOnSuccess, Preparing,
            setting, command, Content
<1>1. CASE Kill
  BY <1>1 DEF Kill
<1>2. CASE Restart
  <2>1. starts' \in 1 .. MaxStarts
    BY <1>2, StartsPositive DEF Restart
  <2>2. cmdFailed' \in BOOLEAN /\ lost' \in BOOLEAN
    BY <1>2, Zenon DEF Restart
  <2> QED
    BY <1>2, <2>1, <2>2 DEF Restart, FileContents
<1>3. CASE Terminated \/ UNCHANGED vars
  BY <1>3 DEF Terminated, vars
<1> QED
  BY <1>1, <1>2, <1>3

THEOREM Inductive == Spec => []IInv
<1>1. IInv /\ [Next]_vars => IInv'
  BY FilesIInv, CommandIInv, RestartIInv DEF Next
<1> QED
  BY <1>1, InitIInv, PTL DEF Spec

(* Every variable keeps its type. *)
THEOREM TypeCorrect == Spec => []TypeOK
<1>1. IInv => TypeOK
  BY DEF IInv
<1> QED
  BY <1>1, Inductive, PTL

(* However many nodes there are and however often the monitor's start is   *)
(* killed, it watches every node and no other.                             *)
THEOREM NodesWatched == Spec => []EveryNodeWatched
<1>1. IInv => EveryNodeWatched
  <2> SUFFICES ASSUME IInv, cmdPhase # "idle", kind = "prometheus" => ~lost
               PROVE  AllWatched /\ Unknown = {}
    BY DEF EveryNodeWatched
  <2>1. loaded.list = Content /\ conf \in Confs
    BY KindIs DEF IInv, FileSeenTo, TypeOK, Written
  <2>2. WatchesAll(conf, kind = "prometheus", loaded.list) /\ KnowsOnly(conf, loaded.list)
    <3>1. CASE kind = "prometheus"
      BY <2>1, <3>1, ScrapesAll, Zenon DEF Content
    <3>2. CASE kind # "prometheus"
      BY <2>1, <3>2, AcceptsAll, Zenon DEF Content
    <3> QED
      BY <3>1, <3>2
  <2>3. AllWatched
    BY <2>2, Zenon DEF AllWatched, Watched, WatchesAll
  <2> QED
    BY <2>2, <2>3 DEF Unknown, KnowsOnly
<1> QED
  BY <1>1, Inductive, PTL

(* No failure of the command is lost on its way to the caller: the safety  *)
(* half of its coming back.                                                *)
THEOREM NoFailureLost == Spec => []WaitsInVainOnSuccess
<1>1. IInv => WaitsInVainOnSuccess
  BY DEF IInv
<1> QED
  BY <1>1, Inductive, PTL

-----------------------------------------------------------------------------
(* The refinement. *)

(* While the start is prepared the command has not failed. *)
LEMMA StageOf ==
    ASSUME IInv
    PROVE  /\ main \in Preparing => stage = "preparing" /\ ~failed
           /\ main = "select" => stage = "serving"
           /\ main = "returned" => stage = "returned"
           /\ main = "killed" => stage = "killed"
BY Zenon DEF IInv, NothingRunsYet, Preparing, stage, failed

LEMMA StageOfNext ==
    ASSUME IInv'
    PROVE  /\ main' \in Preparing => stage' = "preparing" /\ ~failed'
           /\ main' = "select" => stage' = "serving"
           /\ main' = "returned" => stage' = "returned"
           /\ main' = "killed" => stage' = "killed"
BY Zenon DEF IInv, NothingRunsYet, Preparing, stage, failed

(* The command does not run while the file is written. *)
LEMMA PreparingRefines ==
    ASSUME IInv, IInv', main \in Preparing,
           Prepare \/ PrepareFails \/ Truncate \/ Fill \/ WriteFails \/ Launch \/ Kill
    PROVE  [Contract!Next]_Contract!vars
<1>1. main' \in Preparing \cup {"select", "returned", "killed"}
  BY DEF Prepare, PrepareFails, Truncate, Fill, WriteFails, Launch, Kill, Step, Preparing
<1>2. UNCHANGED <<cmdPhase, cmdFailed>>
  BY DEF Prepare, PrepareFails, Truncate, Fill, WriteFails, Launch, Kill, command
<1>3. failed' = failed /\ stage = "preparing"
  BY <1>2, StageOf, Zenon DEF failed
<1>4. CASE main' \in Preparing
  BY <1>3, <1>4, StageOfNext DEF Contract!vars
<1>5. CASE main' = "select"
  BY <1>3, <1>5, StageOfNext DEF Contract!Next, Contract!Serve
<1>6. CASE main' = "returned"
  BY <1>3, <1>6, StageOfNext DEF Contract!Next, Contract!GiveUp
<1>7. CASE main' = "killed"
  BY <1>3, <1>7, StageOfNext DEF Contract!Next, Contract!Die
<1> QED
  BY <1>1, <1>4, <1>5, <1>6, <1>7

(* A command that has returned takes no further step. *)
LEMMA RunRefines ==
    ASSUME IInv, IInv', Run
    PROVE  [Contract!Next]_Contract!vars
<1>1. stage = "serving" /\ stage' = "serving"
  BY StageOf, StageOfNext DEF Run
<1>2. ~failed
  BY DEF failed, Run, Exec!Next, Exec!Launch, Exec!LaunchFails, Exec!Exit, Exec!Return
<1>3. CASE failed'
  <2>1. failed' = TRUE
    BY <1>3, Zenon
  <2> QED
    BY <1>1, <2>1 DEF Contract!Next, Contract!Fail
<1>4. CASE ~failed'
  <2>1. failed' = failed
    BY <1>2, <1>4, Zenon DEF failed
  <2> QED
    BY <1>1, <2>1 DEF Contract!vars
<1> QED
  BY <1>3, <1>4

(* What is received is the failure of the command. *)
LEMMA ReceiveRefines ==
    ASSUME IInv, IInv', Receive
    PROVE  [Contract!Next]_Contract!vars
<1>1. stage = "serving" /\ stage' = "returned"
  BY StageOf, StageOfNext DEF Receive, Step
<1>2. failed
  BY DEF failed, Receive, IInv, SenderFailed
<1>3. failed' = failed
  BY Zenon DEF failed, Receive
<1> QED
  BY <1>1, <1>2, <1>3 DEF Contract!Next, Contract!Return

LEMMA KillRefines ==
    ASSUME IInv, IInv', Kill, main = "select"
    PROVE  [Contract!Next]_Contract!vars
<1>1. stage = "serving" /\ stage' = "killed"
  BY StageOf, StageOfNext DEF Kill
<1>2. failed' = failed
  BY Zenon DEF failed, Kill, command
<1> QED
  BY <1>1, <1>2 DEF Contract!Next, Contract!Die

LEMMA RestartRefines ==
    ASSUME IInv, IInv', Restart
    PROVE  [Contract!Next]_Contract!vars
<1>1. stage \in {"returned", "killed"}
  BY StageOf DEF Restart
<1>2. stage' = "preparing" /\ ~failed'
  BY StageOfNext DEF Restart, Preparing
<1>3. failed' = FALSE
  BY <1>2, Zenon DEF failed
<1> QED
  BY <1>1, <1>2, <1>3 DEF Contract!Next, Contract!Restart

(* The end of the goroutine is not seen outside. *)
LEMMA StutterRefines ==
    ASSUME End \/ UNCHANGED vars
    PROVE  UNCHANGED Contract!vars
<1>1. UNCHANGED <<main, cmdPhase, cmdFailed>>
  BY DEF End, vars, command
<1>2. failed' = failed
  BY <1>1, Zenon DEF failed
<1>3. stage' = stage
  BY <1>1, Zenon DEF stage, Preparing
<1> QED
  BY <1>2, <1>3 DEF Contract!vars

(* Both runners, for any configurations and any number of starts, keep the *)
(* contract of a runner (prometheus_args.go:34-62, rtview_args.go:32-65),  *)
(* but for what must eventually happen.                                    *)
THEOREM RunnerRefines == Spec => Contract!Safety
<1>1. Init => Contract!Init
  <2> SUFFICES ASSUME Init PROVE Contract!Init
    OBVIOUS
  <2>1. stage = "preparing" /\ ~failed
    BY InitIInv, StageOf DEF Init, Preparing
  <2> QED
    BY <2>1, Zenon DEF Contract!Init, failed
<1>2. IInv /\ IInv' /\ [Next]_vars => [Contract!Next]_Contract!vars
  <2> SUFFICES ASSUME IInv, IInv', [Next]_vars PROVE [Contract!Next]_Contract!vars
    OBVIOUS
  <2>1. CASE Prepare \/ PrepareFails \/ Truncate \/ Fill \/ WriteFails \/ Launch
    <3>1. main \in Preparing
      BY <2>1 DEF Prepare, PrepareFails, Truncate, Fill, WriteFails, Launch, Step, Preparing
    <3> QED
      BY <2>1, <3>1, PreparingRefines
  <2>2. CASE Kill
    <3>1. main \in Preparing \/ main = "select"
      BY <2>2 DEF Kill, IInv, TypeOK
    <3> QED
      BY <2>2, <3>1, PreparingRefines, KillRefines
  <2>3. CASE Run \/ Receive \/ Restart
    BY <2>3, RunRefines, ReceiveRefines, RestartRefines
  <2>4. CASE End \/ Terminated \/ UNCHANGED vars
    BY <2>4, StutterRefines DEF Terminated
  <2> QED
    BY <2>1, <2>2, <2>3, <2>4 DEF Next
<1> QED
  BY <1>1, <1>2, Inductive, PTL DEF Spec, Contract!Safety
=============================================================================
