------------------------------- MODULE Updater -------------------------------
(***************************************************************************)
(* The topology updater of a relay: topologyupdater/topologyupdater.go and *)
(* the hourly loop of runTopologyUpdater (runner/node/node.go:212-233).    *)
(* Every hour it asks Prometheus for the block number of this relay, which *)
(* Prometheus scrapes from all of them under the job names that            *)
(* MonitorFiles gives them, and announces the relay with that number.      *)
(*                                                                         *)
(* The updater holds a copy of the relay's configuration.  DownloadConfig- *)
(* Files stores the network magic there (ConfigFiles), before the copy is  *)
(* made.                                                                   *)
(***************************************************************************)
EXTENDS MonitorFiles, Integers

CONSTANTS Count,   (* the number of relays in gocnode.yaml                 *)
          Powers,  (* the powers of ten that the numbers of relays reach   *)
          Ports    (* Ports[i]: where relay i is reached                   *)

ASSUME CountIsNat == Count \in Nat
ASSUME PowersOfTen == \A p \in Powers : p \in Nat /\ p >= 10

Relays == 0 .. Count - 1

VARIABLES me,      (* the relay: NodeID                                    *)
          magic,   (* NetworkMagic in the configuration: "unset" or "set"  *)
          copy,    (* the updater's own: its relay and its magic           *)
          pc,      (* "download", "new", "wait", "query", "ping",          *)
                   (* "answered" or "ended" (by a panic)                   *)
          block,   (* whose block number GetCardanoBlock has returned      *)
          sent,    (* what the service was last told                       *)
          answer,  (* what Ping returned                                   *)
          verdict  (* what was logged of it: "none", "good" or "bad"       *)

vars == <<me, magic, copy, pc, block, sent, answer, verdict>>

NoCopy == [relay |-> -1, magic |-> "unset"]
Nothing == [port |-> -1, block |-> -1, magic |-> "unset"]

(* The codes of the service, success below 300; an error has the code 0.   *)
Codes == {201, 402}
Good(code) == [code |-> code, failed |-> FALSE]
FailedAnswer == [code |-> 0, failed |-> TRUE]

Step(from, to) == pc = from /\ pc' = to

-----------------------------------------------------------------------------

(* DownloadConfigFiles, or the process ends in it. *)
Download == /\ Step("download", "new")
            /\ magic' = "set"
            /\ UNCHANGED <<me, copy, block, sent, answer, verdict>>

DownloadPanics == /\ Step("download", "ended")
                  /\ UNCHANGED <<me, magic, copy, block, sent, answer, verdict>>

(* Slip: the updater may be made before the files are there. *)
NewAnytime == /\ \/ /\ pc \in {"download", "new"} /\ copy = NoCopy
                    /\ copy' = [relay |-> me, magic |-> magic]
                    /\ UNCHANGED pc
                 \/ copy # NoCopy /\ Step("new", "wait") /\ UNCHANGED copy
              /\ UNCHANGED <<me, magic, block, sent, answer, verdict>>

(* New copies the relay's configuration. *)
New == /\ Step("new", "wait")
       /\ copy' = [relay |-> me, magic |-> magic]
       /\ UNCHANGED <<me, magic, block, sent, answer, verdict>>

(* An hour has passed. *)
Tick == /\ Step("wait", "query")
        /\ UNCHANGED <<me, magic, copy, block, sent, answer, verdict>>

(* The number i, as it is in a name, begins with the number k. *)
HasPrefix(i, k) == \/ i = k
                   \/ k > 0 /\ \E p \in Powers : i \div p = k

(* strings.Contains(job, name), for the job of relay i and the name of k:  *)
(* the name is the start of the job's.                                     *)
Contains(job, k) == job.node[1] = "relay" /\ HasPrefix(job.node[2], k)

(* The jobs that have the metric: those of nodes that answer the scrape.   *)
(* Prometheus returns them in an order of its own.                         *)
MetricJobs == {Job(<<"relay", i>>, "cardano", MetricsPort) : i \in Relays}

(* GetCardanoBlock: the first sample whose job has the relay's name.       *)
GetCardanoBlock ==
    /\ Step("query", "ping")
    /\ \E job \in MetricJobs : /\ Contains(job, copy.relay)
                               /\ block' = job.node[2]
    /\ UNCHANGED <<me, magic, copy, sent, answer, verdict>>

(* No answer, or none with this relay in it. *)
QueryFails == /\ Step("query", "answered")
              /\ answer' = FailedAnswer
              /\ UNCHANGED <<me, magic, copy, block, sent, verdict>>

(* The number of the sample is not a string, or is missing: taking it      *)
(* panics, and that ends the process.                                      *)
QueryPanics == /\ Step("query", "ended")
               /\ UNCHANGED <<me, magic, copy, block, sent, answer, verdict>>

(* Ping: the request, and the code in the reply. *)
Announce == /\ Step("ping", "answered")
            /\ sent' = [port |-> Ports[copy.relay], block |-> block, magic |-> copy.magic]
            /\ \E code \in Codes : answer' = Good(code)
            /\ UNCHANGED <<me, magic, copy, block, verdict>>

(* No answer, whether the request arrived or not, or no code in it. *)
AnnounceFails ==
    /\ Step("ping", "answered")
    /\ \/ sent' = [port |-> Ports[copy.relay], block |-> block, magic |-> copy.magic]
       \/ UNCHANGED sent
    /\ answer' = FailedAnswer
    /\ UNCHANGED <<me, magic, copy, block, verdict>>

(* Slip: an error ends the loop. *)
JudgeOnce == /\ pc = "answered"
             /\ pc' = IF answer.failed THEN "ended" ELSE "wait"
             /\ verdict' = IF answer.code < 300 THEN "good" ELSE "bad"
             /\ UNCHANGED <<me, magic, copy, block, sent, answer>>

(* The error is logged, and then the code is judged all the same. *)
Judge == /\ Step("answered", "wait")
         /\ verdict' = IF answer.code < 300 THEN "good" ELSE "bad"
         /\ UNCHANGED <<me, magic, copy, block, sent, answer>>

Ended == pc = "ended" /\ UNCHANGED vars

-----------------------------------------------------------------------------

Init == /\ me \in Relays
        /\ magic = "unset"
        /\ copy = NoCopy
        /\ pc = "download"
        /\ block = -1
        /\ sent = Nothing
        /\ answer = FailedAnswer
        /\ verdict = "none"

Loop == \/ New \/ Tick \/ GetCardanoBlock \/ QueryFails \/ QueryPanics
        \/ Announce \/ AnnounceFails \/ Judge

Next == Download \/ DownloadPanics \/ Loop \/ Ended

(* The ticker ticks, and every request ends in an answer or an error.      *)
Spec == Init /\ [][Next]_vars /\ WF_vars(Loop)

-----------------------------------------------------------------------------
(* Properties. *)

(* The types of TU and of what it exchanges (topologyupdater.go:20-34).    *)
TypeOK ==
    /\ me \in Relays
    /\ magic \in {"unset", "set"}
    /\ copy \in [relay : Relays \cup {-1}, magic : {"unset", "set"}]
    /\ pc \in {"download", "new", "wait", "query", "ping", "answered", "ended"}
    /\ block \in Relays \cup {-1}
    /\ sent = Nothing \/ sent.block \in Relays
    /\ answer \in {FailedAnswer} \cup {Good(c) : c \in Codes}
    /\ verdict \in {"none", "good", "bad"}

(* The service is told the relay's own port, its network's magic, which    *)
(* comes with the download, and its own block number                       *)
(* (topologyupdater.go:87-106), unless there is a relay that has its name  *)
(* and one more digit.                                                     *)
AnnouncesItself ==
    sent # Nothing /\ (me = 0 \/ 10 * me >= Count) =>
        sent = [port |-> Ports[me], block |-> me, magic |-> "set"]

(* An announcement that failed with an error is not the last: the next     *)
(* hour tries again (node.go:222-232).                                     *)
TriesAgain == pc = "answered" /\ answer.failed ~> pc = "query"
=============================================================================
