------------------------------ MODULE LatencyTest ------------------------------
(***************************************************************************)
(* TestLatencyWithPing and TestLatency of cardanocfg/topology.go.          *)
(*                                                                         *)
(* One goroutine per candidate probes its relay and sends it on an         *)
(* unbuffered channel; the caller receives until every candidate has       *)
(* arrived or its timer fires, sorts what arrived and returns, closing the *)
(* channel by a deferred call.  The goroutines share the caller's named    *)
(* results err and allLostPackets without a lock: every access to them is  *)
(* a step of its own here.                                                 *)
(*                                                                         *)
(* WithPing chooses the function: TRUE for TestLatencyWithPing, which      *)
(* collects the relays that lost all packets, FALSE for TestLatency, which *)
(* dials.  The order of the list is shuffled before the test and all the   *)
(* goroutines are interchangeable, so the candidates are a set, and a      *)
(* goroutine that the launching loop has not reached is one that has not   *)
(* taken its first step.                                                   *)
(***************************************************************************)
EXTENDS RelayLists

CONSTANTS Candidates,  (* the occurrences of the list newProduces       *)
          WithPing,    (* TestLatencyWithPing rather than TestLatency   *)
          MaxLatency   (* bound: measured latencies are 1 .. MaxLatency *)

ASSUME CandidatesFinite == IsFiniteSet(Candidates)
ASSUME WithPingIsBoolean == WithPing \in BOOLEAN
ASSUME MaxLatencyPositive == MaxLatency \in Nat \ {0}

VARIABLES pc,        (* pc[p]: the next step of the goroutine that tests p *)
          outcome,   (* outcome[p]: what the probe of p found              *)
          latency,   (* latency[p]: the duration recorded for p            *)
          snapshot,  (* snapshot[p]: the list that p's append has read     *)
          err,       (* the shared error is not nil                        *)
          lost,      (* allLostPackets                                     *)
          final,     (* finalProducers, sorted only when it is returned    *)
          main,      (* where the testing function is                      *)
          result,    (* what it returned                                   *)
          panicked   (* why the process died, "no" while it lives          *)

probes == <<pc, outcome, latency, snapshot>>
shared == <<err, lost>>
vars == <<pc, outcome, latency, snapshot, err, lost, final, main, result, panicked>>

-----------------------------------------------------------------------------

(* What a probe can find: a good relay; a relay that lost every packet     *)
(* (only a ping can tell); or one that fails in any other way.             *)
Outcomes == IF WithPing THEN {"good", "lost", "bad"} ELSE {"good", "bad"}

(* The duration a failed probe returns beside its error, 0 or 1 ms, is     *)
(* below what a real relay takes.                                          *)
Durations(o) == IF o = "good" THEN 1 .. MaxLatency ELSE {0}

(* Slip: nodeChan is never closed. *)
ChannelNeverClosed == main \in {"select", "closing", "closed", "returned"}

(* The deferred close has not run yet. *)
ChannelOpen == main \in {"select", "closing"}

Alive == panicked = "no"

Goto(p, from, to) == /\ Alive
                     /\ pc[p] = from
                     /\ pc' = [pc EXCEPT ![p] = to]

Panic(p, from, why) == /\ Alive
                       /\ pc[p] = from
                       /\ panicked' = why
                       /\ UNCHANGED <<probes, shared, final, main, result>>

(* Slip: the sort is left out. *)
RankingsUnsorted == Orders(final)

(* The relays in hand, in an order sort.Sort may leave them in. *)
Rankings == {list \in Orders(final) : SortedBy(list, latency)}

-----------------------------------------------------------------------------
(* The goroutine of candidate p. *)

(* The probe ends and the shared err is assigned, nil or not. *)
Probe(p) ==
    /\ Goto(p, "probe", "check")
    /\ \E o \in Outcomes : \E d \in Durations(o) :
          /\ outcome' = [outcome EXCEPT ![p] = o]
          /\ latency' = [latency EXCEPT ![p] = d]
          /\ err' = (o # "good")
    /\ UNCHANGED <<snapshot, lost, final, main, result, panicked>>

(* "if err != nil", the whole test of err: it may be another probe's. *)
CheckFails(p) ==
    /\ err
    /\ Goto(p, "check", "warn")
    /\ UNCHANGED <<outcome, latency, snapshot, shared, final, main, result, panicked>>

(* Slip: the nil connection is not noticed. *)
HasConnectionAlways(p) == TRUE

(* The else branch of TestLatency closes the connection, which a failed    *)
(* dial has left nil.                                                      *)
HasConnection(p) == WithPing \/ outcome[p] = "good"

(* Slip: the relay is sent whatever err says. *)
CheckPassesUnchecked(p) ==
    /\ HasConnection(p)
    /\ Goto(p, "check", "send")
    /\ UNCHANGED <<outcome, latency, snapshot, shared, final, main, result, panicked>>

CheckPasses(p) ==
    /\ ~err
    /\ HasConnection(p)
    /\ Goto(p, "check", "send")
    /\ UNCHANGED <<outcome, latency, snapshot, shared, final, main, result, panicked>>

CloseNilConnection(p) ==
    /\ ~err
    /\ ~HasConnection(p)
    /\ Panic(p, "check", "nil connection")

(* The warning reads err once more, to format it ... *)
Warn(p) ==
    /\ err
    /\ Goto(p, "warn", IF outcome[p] = "lost" THEN "load" ELSE "done")
    /\ UNCHANGED <<outcome, latency, snapshot, shared, final, main, result, panicked>>

(* ... and panics when another probe has set it to nil since. *)
WarnNil(p) == ~err /\ Panic(p, "warn", "nil error")

(* append(allLostPackets, p) reads the list ... *)
LoadLost(p) ==
    /\ Goto(p, "load", "store")
    /\ snapshot' = [snapshot EXCEPT ![p] = lost]
    /\ UNCHANGED <<outcome, latency, shared, final, main, result, panicked>>

(* Slip: the list is stored without the new relay. *)
StoreLostDropped(p) ==
    /\ Goto(p, "store", "done")
    /\ lost' = snapshot[p]
    /\ UNCHANGED <<outcome, latency, snapshot, err, final, main, result, panicked>>

(* ... and stores the longer one, over whatever was stored in between. *)
StoreLost(p) ==
    /\ Goto(p, "store", "done")
    /\ lost' = snapshot[p] \cup {p}
    /\ UNCHANGED <<outcome, latency, snapshot, err, final, main, result, panicked>>

(* nodeChan <- p on the channel that the deferred call has closed. *)
SendOnClosed(p) == ~ChannelOpen /\ Panic(p, "send", "closed channel")

-----------------------------------------------------------------------------
(* The testing function. *)

(* Slip: the goroutine sends its relay again. *)
DeliverTwice(p) ==
    /\ Alive
    /\ main = "select"
    /\ pc[p] = "send"
    /\ final' = final \cup {p}
    /\ main' = IF Cardinality(final') = Cardinality(Candidates) THEN "closing" ELSE "select"
    /\ UNCHANGED <<probes, shared, result, panicked>>

(* The rendezvous on nodeChan, and the early return it may lead to. *)
Deliver(p) ==
    /\ main = "select"
    /\ Goto(p, "send", "done")
    /\ final' = final \cup {p}
    /\ main' = IF Cardinality(final') = Cardinality(Candidates) THEN "closing" ELSE "select"
    /\ UNCHANGED <<outcome, latency, snapshot, shared, result, panicked>>

(* The timer fires; the select may choose it although a sender is ready. *)
Timeout ==
    /\ Alive
    /\ main = "select"
    /\ main' = "closing"
    /\ UNCHANGED <<probes, shared, final, result, panicked>>

(* The deferred close(nodeChan). *)
CloseChannel ==
    /\ Alive
    /\ main = "closing"
    /\ main' = "closed"
    /\ UNCHANGED <<probes, shared, final, result, panicked>>

(* The named results are read when the deferred call has run. *)
Return ==
    /\ Alive
    /\ main = "closed"
    /\ main' = "returned"
    /\ \E list \in Rankings :
          result' = [lost |-> lost, ranked |-> list, failed |-> err]
    /\ UNCHANGED <<probes, shared, final, panicked>>

(* The process died, or every goroutine has ended. *)
Terminated ==
    /\ ~Alive \/ (main = "returned" /\ \A p \in Candidates : pc[p] = "done")
    /\ UNCHANGED vars

-----------------------------------------------------------------------------

Init ==
    /\ pc = [p \in Candidates |-> "probe"]
    /\ outcome = [p \in Candidates |-> "none"]
    /\ latency = [p \in Candidates |-> 0]
    /\ snapshot = [p \in Candidates |-> {}]
    /\ err = FALSE
    /\ lost = {}
    /\ final = {}
    /\ main = "select"
    /\ result = NoResult
    /\ panicked = "no"

Goroutine(p) == \/ Probe(p)
                \/ CheckFails(p)
                \/ CheckPasses(p)
                \/ CloseNilConnection(p)
                \/ Warn(p)
                \/ WarnNil(p)
                \/ LoadLost(p)
                \/ StoreLost(p)
                \/ SendOnClosed(p)

Main == Timeout \/ CloseChannel \/ Return

Next == \/ \E p \in Candidates : Goroutine(p) \/ Deliver(p)
        \/ Main
        \/ Terminated

(* A ping lasts at most two seconds and a dial as long as the system's     *)
(* connection timeout, the Go scheduler runs every ready goroutine, and    *)
(* the timer fires.                                                        *)
Fairness == /\ \A p \in Candidates : WF_vars(Goroutine(p))
            /\ WF_vars(Main)

Spec == Init /\ [][Next]_vars /\ Fairness

-----------------------------------------------------------------------------
(* Properties. *)

Steps == {"probe", "check", "warn", "load", "store", "send", "done"}

(* Every variable holds a value of its kind: what the probes and the       *)
(* caller of topology.go:156-264 keep.                                     *)
TypeOK ==
    /\ pc \in [Candidates -> Steps]
    /\ outcome \in [Candidates -> {"none", "good", "lost", "bad"}]
    /\ latency \in [Candidates -> 0 .. MaxLatency]
    /\ snapshot \in [Candidates -> SUBSET Candidates]
    /\ err \in BOOLEAN
    /\ lost \in SUBSET Candidates
    /\ final \in SUBSET Candidates
    /\ main \in {"select", "closing", "closed", "returned"}
    /\ result \in Results(Candidates)
    /\ panicked \in {"no", "nil connection", "nil error", "closed channel"}

(* When every candidate has arrived (the early return, topology.go:257),   *)
(* the racy err is nil although any of the goroutines may have set it, and *)
(* no goroutine is left that could send on the channel about to be closed. *)
EarlyReturnComplete ==
    final = Candidates => ~err /\ \A p \in Candidates : pc[p] = "done"

(* What is returned is what arrived, fastest first (topology.go:252), and  *)
(* no relay is returned both as lost and as good: TestNetRelays dials the  *)
(* lost ones and appends those that answer.                                *)
ResultIsRanking ==
    main = "returned" => /\ Range(result.ranked) = final
                         /\ SortedBy(result.ranked, latency)
                         /\ result.lost \cap final = {}

(* The unlocked appends (topology.go:229) may drop relays from the list of *)
(* those that lost all packets, but never add a relay that did not and     *)
(* never leave the list empty once an append has ended.                    *)
LostListSound ==
    /\ \A p \in lost : outcome[p] = "lost" /\ pc[p] = "done"
    /\ (\E p \in Candidates \ final : outcome[p] = "lost" /\ pc[p] = "done") => lost # {}

(* A relay whose probe failed is never returned as a good one: the warning *)
(* of topology.go:227 is all that happens to a relay that "did not pass    *)
(* latency test".                                                          *)
FailedNeverRanked ==
    \A p \in Candidates : outcome[p] \in {"bad", "lost"} => p \notin Range(result.ranked)

(* How far the racy err (topology.go:225-226) can mislead: another probe   *)
(* has to find a good relay to hide the failure of one, so a test of which *)
(* no relay answers never returns a relay as good.                         *)
SilenceRanksNobody ==
    final # {} => \E p \in Candidates : outcome[p] = "good"

(* The test of topology.go:208-264 implements its contract: it returns an  *)
(* acceptable result or the process dies, and no panic follows a complete  *)
(* result.                                                                 *)
Contract == INSTANCE LatencyContract WITH
                state <- IF ~Alive THEN "crashed"
                         ELSE IF main = "returned" THEN "returned" ELSE "running"

ImplementsContract == Contract!Spec

(* Its safety part: the steps alone, without the promise to end. *)
ImplementsContractSteps == Contract!Init /\ [][Contract!Next]_(Contract!vars)

(* No goroutine of topology.go:242-244 blocks for ever on a channel nobody *)
(* receives from: each one ends, or dies with the process.                 *)
NoGoroutineLeak == <>(~Alive \/ \A p \in Candidates : pc[p] = "done")
=============================================================================
