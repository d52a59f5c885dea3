------------------------------- MODULE Topology -------------------------------
(***************************************************************************)
(* DownloadAndSetTopologyFile of cardanocfg/topology.go: how the topology  *)
(* file of one node is put together and written, with the searches for     *)
(* public relays it calls, TestNetRelays and MainNetRelays.                *)
(*                                                                         *)
(* A relay node writes the file twice: first the downloaded default list   *)
(* with its pool's producers, then the same with the public relays found.  *)
(* Errors of the second half are logged only.  A producer lists its pool's *)
(* relays and nothing else.  The latency tests are used by their contract  *)
(* (RelayLists!Acceptable, which LatencyTest implements): a test returns   *)
(* any acceptable result, or the process crashes, which it may do at any   *)
(* step here.  A file is truncated before it is written.                   *)
(***************************************************************************)
EXTENDS RelayLists, Sequences

CONSTANTS Default,     (* the topology list the network publishes          *)
          PoolNodes,   (* what the configuration adds: the pool's producers *)
                       (* for a relay, its relays for a producer            *)
          Public,      (* the list of public relays that is downloaded      *)
          OwnRelays,   (* those of them on a host the configuration names   *)
          Key,         (* Key[p]: the address and port of public relay p    *)
          Roles,       (* the kinds of node considered                      *)
          PeerCounts,  (* the values of the setting peers considered        *)
          MaxCrashes   (* bound: how often the process dies and restarts    *)

RelayRoles == {"testnet relay", "mainnet relay"}

ASSUME ListsAreSequences ==
    /\ Default \in Seq(Range(Default))
    /\ PoolNodes \in Seq(Range(PoolNodes))
    /\ Public \in Seq(Range(Public))
ASSUME KeysKnown == Range(Public) \subseteq DOMAIN Key
ASSUME RolesKnown == Roles \subseteq RelayRoles \cup {"producer"}
ASSUME CountsAreNat == PeerCounts \subseteq Nat /\ MaxCrashes \in Nat

VARIABLES role, peers,  (* the node's configuration, fixed                  *)
          pc,           (* the next step of DownloadAndSetTopologyFile      *)
          top,          (* top.Producers                                    *)
          candidates,   (* the public relays still in the search            *)
          ping,         (* the result of the ping test                      *)
          others,       (* topOthers.Producers                              *)
          searchError,  (* the search returned an error                     *)
          file,         (* the topology file on disk                        *)
          crashes       (* crashes so far                                   *)

node == <<role, peers>>
search == <<candidates, ping, others, searchError>>
vars == <<role, peers, pc, top, candidates, ping, others, searchError, file, crashes>>

Absent == [state |-> "absent", nodes |-> <<>>]
Partial == [state |-> "partial", nodes |-> <<>>]
Written(list) == [state |-> "complete", nodes |-> list]

-----------------------------------------------------------------------------
(* The first half: the nodes the file must have. *)

(* Slip: the pool's producers are not appended. *)
DownloadOnly ==
    /\ pc = "start"
    /\ role \in RelayRoles
    /\ top' = Default
    /\ pc' = "write"
    /\ UNCHANGED <<node, search, file, crashes>>

(* DownloadTopologyJSON, then the producers of the pool. *)
Download ==
    /\ pc = "start"
    /\ role \in RelayRoles
    /\ top' = Default \o PoolNodes
    /\ pc' = "write"
    /\ UNCHANGED <<node, search, file, crashes>>

(* The directory cannot be made, or a relay cannot get the list. *)
SetupFails ==
    /\ pc = "start"
    /\ pc' = "failed"
    /\ UNCHANGED <<node, search, top, file, crashes>>

(* Slip: a producer gets the published list too. *)
ListPoolAndPublished ==
    /\ pc = "start"
    /\ role = "producer"
    /\ top' = Default \o PoolNodes
    /\ pc' = "write"
    /\ UNCHANGED <<node, search, file, crashes>>

ListPoolRelays ==
    /\ pc = "start"
    /\ role = "producer"
    /\ top' = PoolNodes
    /\ pc' = "write"
    /\ UNCHANGED <<node, search, file, crashes>>

(* ioutil.WriteFile truncates the file ... *)
Truncate(from, to) ==
    /\ pc = from
    /\ pc' = to
    /\ file' = Partial
    /\ UNCHANGED <<node, search, top, crashes>>

BeginWrite == Truncate("write", "writing")

(* Slip: the file is written once, after the search. *)
FinishWriteDeferred ==
    /\ pc = "writing"
    /\ file' = IF role = "producer" THEN Written(top) ELSE file
    /\ pc' = IF role = "producer" THEN "done" ELSE "fetch"
    /\ UNCHANGED <<node, search, top, crashes>>

(* ... and fills it. *)
FinishWrite ==
    /\ pc = "writing"
    /\ file' = Written(top)
    /\ pc' = IF role = "producer" THEN "done" ELSE "fetch"
    /\ UNCHANGED <<node, search, top, crashes>>

(* It may fail before it has opened the file, or half way through. *)
WriteFails ==
    /\ pc \in {"write", "writing"}
    /\ pc' = "failed"
    /\ UNCHANGED <<node, search, top, file, crashes>>

-----------------------------------------------------------------------------
(* The search for public relays. *)

(* A search ends with the list topOthers and perhaps an error. *)
SearchReturns(list, failed) ==
    /\ others' = list
    /\ searchError' = failed
    /\ pc' = "append"

(* Slip: the default list is searched too. *)
FetchAll ==
    /\ pc = "fetch"
    /\ role = "testnet relay"
    /\ candidates' = Range(Public) \cup Range(Default)
    /\ pc' = "ping"
    /\ UNCHANGED <<node, top, ping, others, searchError, file, crashes>>

(* GetTestNetRelays leaves out the relays of this configuration. *)
Fetch ==
    /\ pc = "fetch"
    /\ role = "testnet relay"
    /\ candidates' = Range(Public) \ OwnRelays
    /\ pc' = "ping"
    /\ UNCHANGED <<node, top, ping, others, searchError, file, crashes>>

(* No download, or no JSON: nothing is decoded.  JSON of another shape is  *)
(* decoded as far as it goes, and GetTestNetRelays returns that list with  *)
(* the error, where MainNetRelays returns an empty one.                    *)
FetchFails ==
    /\ pc = "fetch"
    /\ \/ SearchReturns(<<>>, TRUE)
       \/ role = "testnet relay" /\ SearchReturns(Public, TRUE)
    /\ UNCHANGED <<node, top, candidates, ping, file, crashes>>

(* TestLatencyWithPing; an error beside its result ends the search with    *)
(* the list as it was downloaded.                                          *)
PingTest ==
    /\ pc = "ping"
    /\ \E r \in Acceptable(candidates) :
          IF r.failed
          THEN SearchReturns(Public, TRUE) /\ UNCHANGED ping
          ELSE ping' = r /\ pc' = "dial" /\ UNCHANGED <<others, searchError>>
    /\ UNCHANGED <<node, top, candidates, file, crashes>>

(* Slip: relays found twice are added twice. *)
MergedAll(pinged, dialled) == {pinged \o dialled}

(* The relays found by dialling are added, in their order, unless the ping *)
(* test found one with the same address and port.  It is one list, given   *)
(* as a set.                                                               *)
Merged(pinged, dialled) ==
    LET unseen == {r \in Range(dialled) : \A p \in Range(pinged) : Key[p] # Key[r]}
        inOrder(list) == \A i, j \in DOMAIN list, k, l \in DOMAIN dialled :
                            i < j /\ dialled[k] = list[i] /\ dialled[l] = list[j] => k < l
    IN  {pinged \o list : list \in {o \in Orders(unseen) : inOrder(o)}}

FirstOf(list, n) == SubSeq(list, 1, IF Len(list) > n THEN n ELSE Len(list))

(* TestLatency on the relays that lost all packets, then SetValency, which *)
(* looks up every name, and the cut to the number of peers.                *)
DialTest ==
    /\ pc = "dial"
    /\ \E r \in Acceptable(ping.lost) :
          /\ r.lost = {}
          /\ \/ r.failed /\ SearchReturns(Public, TRUE)
             \/ /\ ~r.failed
                /\ \E list \in Merged(ping.ranked, r.ranked) :
                      SearchReturns(FirstOf(list, peers), FALSE)
             \/ ~r.failed /\ SearchReturns(<<>>, TRUE)
    /\ UNCHANGED <<node, top, candidates, ping, file, crashes>>

(* MainNetRelays leaves out d.node.Relays, a list only producers have, and *)
(* dials the first 3 * peers of the rest one after the other, after a      *)
(* shuffle.                                                                *)
Dialled == 3 * peers

MainNetSearch ==
    /\ pc = "fetch"
    /\ role = "mainnet relay"
    /\ Len(Public) >= Dialled
    /\ \E good \in Lists(Range(Public)) :
          /\ Len(good) \in 1 .. Dialled
          /\ SearchReturns(FirstOf(good, peers), FALSE)
    /\ UNCHANGED <<node, top, candidates, ping, file, crashes>>

-----------------------------------------------------------------------------
(* The second half: the relays found are appended, error or not. *)

AppendFound ==
    /\ pc = "append"
    /\ top' = top \o others
    /\ pc' = "rewrite"
    /\ UNCHANGED <<node, search, file, crashes>>

BeginRewrite == Truncate("rewrite", "rewriting")

FinishRewrite ==
    /\ pc = "rewriting"
    /\ file' = Written(top)
    /\ pc' = "done"
    /\ UNCHANGED <<node, search, top, crashes>>

(* A failure of the second write is logged, and nil is returned. *)
RewriteFails ==
    /\ pc \in {"rewrite", "rewriting"}
    /\ pc' = "done"
    /\ UNCHANGED <<node, search, top, file, crashes>>

(* The process dies. *)
Die ==
    /\ pc' = "crashed"
    /\ crashes' = crashes + 1
    /\ UNCHANGED <<node, search, top, file>>

(* The two panics of MainNetRelays: it slices 3 * peers relays off a       *)
(* shorter list, or finds none that answers.                               *)
MainNetPanic ==
    /\ pc = "fetch"
    /\ role = "mainnet relay"
    /\ Die

(* It is killed, or a latency test panics: the one under way, or a         *)
(* goroutine that an incomplete one left behind.                           *)
Crash ==
    /\ pc # "crashed"
    /\ crashes < MaxCrashes
    /\ Die

(* It is started again, with the files it had. *)
Restart ==
    /\ pc = "crashed"
    /\ crashes <= MaxCrashes
    /\ pc' = "start"
    /\ top' = <<>>
    /\ candidates' = {}
    /\ ping' = NoResult
    /\ others' = <<>>
    /\ searchError' = FALSE
    /\ UNCHANGED <<node, file, crashes>>

Terminated ==
    /\ pc \in {"done", "failed"} \/ (pc = "crashed" /\ crashes > MaxCrashes)
    /\ UNCHANGED vars

-----------------------------------------------------------------------------

Init ==
    /\ role \in Roles
    /\ peers \in PeerCounts
    /\ pc = "start"
    /\ top = <<>>
    /\ candidates = {}
    /\ ping = NoResult
    /\ others = <<>>
    /\ searchError = FALSE
    /\ file = Absent
    /\ crashes = 0

Step == \/ Download \/ SetupFails \/ ListPoolRelays
        \/ BeginWrite \/ FinishWrite \/ WriteFails
        \/ Fetch \/ FetchFails \/ PingTest \/ DialTest \/ MainNetSearch
        \/ MainNetPanic \/ AppendFound \/ BeginRewrite \/ FinishRewrite \/ RewriteFails

Next == Step \/ Crash \/ Restart \/ Terminated

(* Every call returns: downloads, tests and writes are bounded in time by  *)
(* the network stack and the timers of the tests.                          *)
Spec == Init /\ [][Next]_vars /\ WF_vars(Step) /\ WF_vars(Restart)

-----------------------------------------------------------------------------
(* Properties. *)

SearchSteps == {"fetch", "ping", "dial", "append", "rewrite"}

(* Every variable holds a value of its kind (topology.go:70-125, 324-380). *)
TypeOK ==
    /\ role \in Roles /\ peers \in PeerCounts
    /\ pc \in SearchSteps \cup
             {"start", "write", "writing", "rewriting", "done", "failed", "crashed"}
    /\ Range(top) \subseteq Range(Default) \cup Range(PoolNodes) \cup Range(Public)
    /\ candidates \subseteq Range(Public)
    /\ ping \in Results(Range(Public))
    /\ Range(others) \subseteq Range(Public)
    /\ searchError \in BOOLEAN
    /\ file.state \in {"absent", "partial", "complete"}
    /\ crashes \in 0 .. MaxCrashes + 1

(* A topology file that was written to its end names all the nodes of the  *)
(* pool (topology.go:51, 59-66), through searches that fail, crashes and   *)
(* restarts.                                                               *)
PoolAlwaysKnown ==
    file.state = "complete" => Range(PoolNodes) \subseteq Range(file.nodes)

(* A block producer's file names its own relays and nobody else            *)
(* (topology.go:84, 101): it must not be reachable from the public network.*)
ProducerIsolated ==
    role = "producer" => Range(file.nodes) \subseteq Range(PoolNodes)

(* While the search is under way, with its panics and its minute or more   *)
(* of waiting, the file of the first write (topology.go:96) is on disk,    *)
(* whole: dying in the search costs the public relays only.                *)
FileUsableDuringSearch ==
    pc \in SearchSteps => /\ file.state = "complete"
                          /\ Range(Default) \cup Range(PoolNodes) \subseteq Range(file.nodes)

(* A search that reports no error adds at most the configured number of    *)
(* peers (topology.go:373, 437); on the test network it adds none of the   *)
(* operator's own relays (:291-299) and no relay found by dialling that    *)
(* the ping test had found already (:358-366).                             *)
SearchKeepsItsWord ==
    pc = "append" /\ ~searchError =>
        /\ Len(others) <= peers
        /\ role = "testnet relay" =>
              /\ Range(others) \cap OwnRelays = {}
              /\ \A p, r \in Range(others) :
                    Key[p] = Key[r] => (p \in ping.lost <=> r \in ping.lost)

(* The call and its file as the calling goroutine sees them. *)
phase == CASE pc \in {"start", "write"} -> "preparing"
           [] pc \in {"fetch", "ping", "dial", "append", "rewrite"} -> "searching"
           [] pc \in {"done", "failed"} -> "over"
           [] pc = "crashed" -> "dead"
           [] OTHER -> pc

Contract == INSTANCE TopologyContract WITH
                file <- IF file.state = "complete" THEN "whole" ELSE file.state

(* Whatever fails, panics or is killed, the file is whole during the       *)
(* search and the call comes to an end (topology.go:70-125): this is what  *)
(* ConfigFiles takes it for.                                               *)
ImplementsCall == Contract!Spec
=============================================================================
