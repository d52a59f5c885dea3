--------------------------- MODULE LatencyTestProofs ---------------------------
(***************************************************************************)
(* Theorems about LatencyTest, for every finite set of candidates, both    *)
(* variants of the test and every bound on the latencies.                  *)
(***************************************************************************)
EXTENDS LatencyTest, FiniteSetTheorems, TLAPS

(* A list in the order of a finite set holds the members of that set, and  *)
(* the empty list is an order of the empty set.                            *)
LEMMA OrdersRange ==
    ASSUME NEW S, NEW list \in Orders(S)
    PROVE  Range(list) = S /\ DOMAIN list = 1 .. Cardinality(S)
  BY DEF Orders, Bijection, Injection, Surjection, Range

LEMMA EmptyOrder == <<>> \in Orders({}) /\ Range(<<>>) = {}
<1>1. Cardinality({}) = 0
  BY FS_EmptySet
<1>2. 1 .. 0 = {}
  OBVIOUS
<1>3. <<>> \in [1 .. 0 -> {}]
  BY <1>2
<1> QED
  BY <1>1, <1>2, <1>3, SMT DEF Orders, Bijection, Injection, Surjection, IsInjective, Range

LEMMA ListsOfSubset ==
    ASSUME NEW S, NEW T \in SUBSET S, NEW list \in Orders(T)
    PROVE  list \in Lists(S)
  BY DEF Lists

LEMMA DurationsBounded ==
    ASSUME NEW o, NEW d \in Durations(o)
    PROVE  d \in 0 .. MaxLatency
<1>1. 1 .. MaxLatency \subseteq 0 .. MaxLatency /\ 0 \in 0 .. MaxLatency
  BY MaxLatencyPositive
<1> QED
  BY <1>1 DEF Durations

LEMMA NoResultTyped == NoResult \in Results(Candidates)
  BY EmptyOrder, ListsOfSubset DEF NoResult, Results

-----------------------------------------------------------------------------

(* Everything declared keeps a value of its kind (topology.go:208-264).  *)
THEOREM TypeCorrect == Spec => []TypeOK
<1>1. Init => TypeOK
  <2> SUFFICES ASSUME Init PROVE TypeOK
    OBVIOUS
  <2>1. 0 \in 0 .. MaxLatency
    BY MaxLatencyPositive
  <2>2. result \in Results(Candidates)
    BY NoResultTyped DEF Init
  <2> QED
    BY <2>1, <2>2 DEF Init, TypeOK, Steps
<1>2. TypeOK /\ [Next]_vars => TypeOK'
  <2> SUFFICES ASSUME TypeOK, [Next]_vars PROVE TypeOK'
    OBVIOUS
  <2> USE DEF TypeOK, Steps, Goto, Panic, probes, shared
  <2>1. ASSUME NEW p \in Candidates, Goroutine(p) PROVE TypeOK'
    <3>1. CASE Probe(p)
      <4>0. PICK o \in Outcomes : \E d \in Durations(o) :
              /\ outcome' = [outcome EXCEPT ![p] = o]
              /\ latency' = [latency EXCEPT ![p] = d]
              /\ err' = (o # "good")
        BY <3>1 DEF Probe
      <4>1. PICK d \in Durations(o) :
              /\ outcome' = [outcome EXCEPT ![p] = o]
              /\ latency' = [latency EXCEPT ![p] = d]
              /\ err' = (o # "good")
        BY <4>0
      <4>2. o \in {"none", "good", "lost", "bad"}
        BY <4>0 DEF Outcomes
      <4>3. d \in 0 .. MaxLatency
        BY <4>1, DurationsBounded, Zenon
      <4>4. /\ outcome' \in [Candidates -> {"none", "good", "lost", "bad"}]
            /\ latency' \in [Candidates -> 0 .. MaxLatency]
            /\ err' \in BOOLEAN
        BY <4>1, <4>2, <4>3
      <4>5. /\ pc' = [pc EXCEPT ![p] = "check"]
            /\ UNCHANGED <<snapshot, lost, final, main, result, panicked>>
        BY <3>1 DEF Probe
      <4> QED
        BY <4>4, <4>5
    <3>2. CASE CheckFails(p)
      BY <3>2 DEF CheckFails
    <3>3. CASE CheckPasses(p)
      BY <3>3 DEF CheckPasses
    <3>4. CASE CloseNilConnection(p)
      BY <3>4 DEF CloseNilConnection
    <3>5. CASE Warn(p)
      BY <3>5 DEF Warn
    <3>6. CASE WarnNil(p)
      BY <3>6 DEF WarnNil
    <3>7. CASE LoadLost(p)
      BY <3>7 DEF LoadLost
    <3>8. CASE StoreLost(p)
      BY <3>8 DEF StoreLost
    <3>9. CASE SendOnClosed(p)
      BY <3>9 DEF SendOnClosed
    <3> QED
      BY <2>1, <3>1, <3>2, <3>3, <3>4, <3>5, <3>6, <3>7, <3>8, <3>9 DEF Goroutine
  <2>2. ASSUME NEW p \in Candidates, Deliver(p) PROVE TypeOK'
    BY <2>2 DEF Deliver
  <2>3. CASE Timeout
    BY <2>3 DEF Timeout
  <2>4. CASE CloseChannel
    BY <2>4 DEF CloseChannel
  <2>5. CASE Return
    <3>1. PICK list \in Orders(final) : result' = [lost |-> lost, ranked |-> list, failed |-> err]
      BY <2>5 DEF Return, Rankings
    <3>2. result' \in Results(Candidates)
      BY <3>1, ListsOfSubset DEF Results
    <3> QED
      BY <2>5, <3>2 DEF Return
  <2>6. CASE UNCHANGED vars
    BY <2>6 DEF vars
  <2> QED
    BY <2>1, <2>2, <2>3, <2>4, <2>5, <2>6 DEF Next, Main, Terminated
<1> QED
  BY <1>1, <1>2, PTL DEF Spec

-----------------------------------------------------------------------------
(* Why an early return carries no error.  A goroutine that has passed the  *)
(* test of err and not probed since is on its way to the channel or has    *)
(* been received.  When all the candidates are there, the last one to pass *)
(* saw a nil err, and the only step that sets err takes a goroutine that   *)
(* is still to pass.                                                       *)
Passed == {p \in Candidates : pc[p] = "send"} \cup final

ArrivalInv == /\ Passed = Candidates => ~err
              /\ \A p \in final : pc[p] = "done"

LEMMA ArrivalInit == Init => ArrivalInv
  BY DEF Init, ArrivalInv, Passed

LEMMA ArrivalStep == TypeOK /\ ArrivalInv /\ [Next]_vars => ArrivalInv'
<1> SUFFICES ASSUME TypeOK, ArrivalInv, [Next]_vars PROVE ArrivalInv'
  OBVIOUS
<1> USE DEF TypeOK, Goto, Panic, probes, shared, ArrivalInv, Passed
<1>1. ASSUME NEW p \in Candidates, Goroutine(p) PROVE ArrivalInv'
  <2>1. CASE Probe(p)
    <3>1. p \notin final' /\ pc'[p] = "check"
      BY <2>1 DEF Probe
    <3>2. Passed' # Candidates
      BY <3>1
    <3>3. \A q \in final' : pc'[q] = "done"
      BY <2>1 DEF Probe
    <3> QED
      BY <3>2, <3>3
  <2>2. CASE CheckFails(p)
    BY <2>2 DEF CheckFails
  <2>3. CASE CheckPasses(p)
    BY <2>3 DEF CheckPasses
  <2>4. CASE CloseNilConnection(p)
    BY <2>4 DEF CloseNilConnection
  <2>5. CASE Warn(p)
    BY <2>5 DEF Warn
  <2>6. CASE WarnNil(p)
    BY <2>6 DEF WarnNil
  <2>7. CASE LoadLost(p)
    BY <2>7 DEF LoadLost
  <2>8. CASE StoreLost(p)
    BY <2>8 DEF StoreLost
  <2>9. CASE SendOnClosed(p)
    BY <2>9 DEF SendOnClosed
  <2> QED
    BY <1>1, <2>1, <2>2, <2>3, <2>4, <2>5, <2>6, <2>7, <2>8, <2>9 DEF Goroutine
<1>2. ASSUME NEW p \in Candidates, Deliver(p) PROVE ArrivalInv'
  <2>1. Passed' = Passed /\ err' = err
    BY <1>2 DEF Deliver
  <2>2. \A q \in final' : pc'[q] = "done"
    BY <1>2 DEF Deliver
  <2> QED
    BY <2>1, <2>2
<1>3. CASE Main
  <2>1. UNCHANGED <<pc, err, final>>
    BY <1>3 DEF Main, Timeout, CloseChannel, Return
  <2> QED
    BY <2>1
<1>4. CASE UNCHANGED vars
  BY <1>4 DEF vars
<1> QED
  BY <1>1, <1>2, <1>3, <1>4 DEF Next, Terminated

(* An early return is complete (topology.go:257-260): whatever the racing  *)
(* goroutines did to err, it is nil, and none of them is left to send on   *)
(* the closed channel.                                                     *)
THEOREM EarlyReturn == Spec => []EarlyReturnComplete
<1>1. TypeOK /\ ArrivalInv => EarlyReturnComplete
  BY DEF TypeOK, ArrivalInv, Passed, EarlyReturnComplete
<1> QED
  BY <1>1, TypeCorrect, ArrivalInit, ArrivalStep, PTL DEF Spec

-----------------------------------------------------------------------------
(* Why the racy list of lost relays stays sound.  What an append has read, *)
(* like what it stores, holds only relays that lost everything and whose   *)
(* goroutine has ended, and no relay both is on that list and has been     *)
(* received, because a goroutine appends or sends but never does both.     *)
GivenUp == {p \in Candidates \ final : outcome[p] = "lost" /\ pc[p] = "done"}

LostInv == /\ \A p \in Candidates : pc[p] \in {"load", "store"} => outcome[p] = "lost"
           /\ \A p \in Candidates : pc[p] = "store" => snapshot[p] \subseteq GivenUp
           /\ lost \subseteq GivenUp
           /\ GivenUp # {} => lost # {}
           /\ \A p \in final : pc[p] = "done"

LEMMA LostInit == Init => LostInv
  BY DEF Init, LostInv, GivenUp

LEMMA LostStep == TypeOK /\ LostInv /\ [Next]_vars => LostInv'
<1> SUFFICES ASSUME TypeOK, LostInv, [Next]_vars PROVE LostInv'
  OBVIOUS
<1> USE DEF TypeOK, Goto, Panic, probes, shared, LostInv, GivenUp
<1>1. ASSUME NEW p \in Candidates, Goroutine(p) PROVE LostInv'
  <2>1. CASE Probe(p)
    <3>1. PICK o : outcome' = [outcome EXCEPT ![p] = o]
      BY <2>1 DEF Probe
    <3>2. /\ Alive /\ pc[p] = "probe" /\ pc' = [pc EXCEPT ![p] = "check"]
          /\ UNCHANGED <<snapshot, lost, final>>
      BY <2>1 DEF Probe
    <3>3. GivenUp' = GivenUp
      BY <3>1, <3>2
    <3> QED
      BY <3>1, <3>2, <3>3
  <2>2. CASE CheckFails(p)
    BY <2>2 DEF CheckFails
  <2>3. CASE CheckPasses(p)
    BY <2>3 DEF CheckPasses
  <2>4. CASE CloseNilConnection(p)
    BY <2>4 DEF CloseNilConnection
  <2>5. CASE Warn(p)
    <3>1. /\ pc[p] = "warn"
          /\ pc' = [pc EXCEPT ![p] = IF outcome[p] = "lost" THEN "load" ELSE "done"]
          /\ UNCHANGED <<snapshot, lost, final, outcome>>
      BY <2>5 DEF Warn
    <3>2. GivenUp' = GivenUp
      BY <3>1
    <3> QED
      BY <3>1, <3>2
  <2>6. CASE WarnNil(p)
    BY <2>6 DEF WarnNil
  <2>7. CASE LoadLost(p)
    BY <2>7 DEF LoadLost
  <2>8. CASE StoreLost(p)
    <3>1. /\ pc[p] = "store" /\ pc' = [pc EXCEPT ![p] = "done"]
          /\ lost' = snapshot[p] \cup {p}
          /\ UNCHANGED <<snapshot, final, outcome>>
      BY <2>8 DEF StoreLost
    <3>2. GivenUp' = GivenUp \cup {p}
      BY <3>1
    <3>3. snapshot[p] \subseteq GivenUp
      BY <3>1
    <3>4. lost' \subseteq GivenUp' /\ lost' # {}
      BY <3>1, <3>2, <3>3
    <3>5. \A q \in Candidates : pc'[q] = "store" => snapshot'[q] \subseteq GivenUp'
      BY <3>1, <3>2
    <3>6. /\ \A q \in Candidates : pc'[q] \in {"load", "store"} => outcome'[q] = "lost"
          /\ \A q \in final' : pc'[q] = "done"
      BY <3>1
    <3> HIDE DEF GivenUp
    <3> QED
      BY <3>4, <3>5, <3>6
  <2>9. CASE SendOnClosed(p)
    BY <2>9 DEF SendOnClosed
  <2> QED
    BY <1>1, <2>1, <2>2, <2>3, <2>4, <2>5, <2>6, <2>7, <2>8, <2>9 DEF Goroutine
<1>2. ASSUME NEW p \in Candidates, Deliver(p) PROVE LostInv'
  <2>1. /\ pc[p] = "send" /\ pc' = [pc EXCEPT ![p] = "done"]
        /\ final' = final \cup {p}
        /\ UNCHANGED <<snapshot, lost, outcome>>
    BY <1>2 DEF Deliver
  <2>2. GivenUp' = GivenUp
    BY <2>1
  <2>3. \A q \in final' : pc'[q] = "done"
    BY <2>1
  <2>4. \A q \in Candidates : pc'[q] \in {"load", "store"} => pc'[q] = pc[q]
    BY <2>1
  <2> HIDE DEF GivenUp
  <2> QED
    BY <2>1, <2>2, <2>3, <2>4
<1>3. CASE Main
  <2>1. UNCHANGED <<probes, lost, final>>
    BY <1>3 DEF Main, Timeout, CloseChannel, Return
  <2> QED
    BY <2>1
<1>4. CASE UNCHANGED vars
  BY <1>4 DEF vars
<1> QED
  BY <1>1, <1>2, <1>3, <1>4 DEF Next, Terminated

(* The list of lost relays (topology.go:229) may miss relays but holds     *)
(* only relays that lost everything, and is not empty once one is given up.*)
THEOREM LostSound == Spec => []LostListSound
<1>1. LostInv => LostListSound
  BY DEF LostInv, GivenUp, LostListSound
<1> QED
  BY <1>1, TypeCorrect, LostInit, LostStep, PTL DEF Spec

-----------------------------------------------------------------------------
(* Why what was returned stays a ranking of what arrived: nothing arrives  *)
(* once the select loop is left, and the only latencies that change are    *)
(* those of relays that have not arrived.                                  *)
RankInv == /\ main # "returned" => result = NoResult
           /\ main = "returned" => /\ Range(result.ranked) = final
                                   /\ SortedBy(result.ranked, latency)
                                   /\ result.lost \cap final = {}

LEMMA RankStep == TypeOK /\ LostInv /\ RankInv /\ [Next]_vars => RankInv'
<1> SUFFICES ASSUME TypeOK, LostInv, RankInv, [Next]_vars PROVE RankInv'
  OBVIOUS
<1> USE DEF RankInv
<1>1. ASSUME NEW p \in Candidates, Probe(p) PROVE RankInv'
  <2>1. p \notin final /\ UNCHANGED <<final, main, result>>
    BY <1>1 DEF Probe, Goto, LostInv
  <2>2. \A q \in final : latency'[q] = latency[q]
    BY <1>1, <2>1 DEF Probe, TypeOK
  <2>3. ASSUME main = "returned" PROVE SortedBy(result.ranked, latency)'
    <3>1. \A i \in DOMAIN result.ranked : result.ranked[i] \in final
      BY <2>3 DEF Range
    <3> QED
      BY <2>1, <2>2, <2>3, <3>1 DEF SortedBy
  <2> QED
    BY <2>1, <2>3
<1>2. ASSUME NEW p \in Candidates, Goroutine(p), ~Probe(p)
      PROVE  UNCHANGED <<final, main, result, latency>>
  BY <1>2 DEF Goroutine, CheckFails, CheckPasses, CloseNilConnection, Warn, WarnNil,
              LoadLost, StoreLost, SendOnClosed, Goto, Panic, probes, shared
<1>3. ASSUME NEW p \in Candidates, Deliver(p) PROVE RankInv'
  BY <1>3 DEF Deliver
<1>4. CASE Timeout \/ CloseChannel
  BY <1>4 DEF Timeout, CloseChannel
<1>5. CASE Return
  <2>1. PICK list \in Rankings : result' = [lost |-> lost, ranked |-> list, failed |-> err]
    BY <1>5 DEF Return
  <2>2. Range(list) = final /\ SortedBy(list, latency)
    BY <2>1, OrdersRange DEF Rankings
  <2>3. main' = "returned" /\ UNCHANGED <<final, latency>>
    BY <1>5 DEF Return, probes
  <2>4. lost \cap final = {}
    BY DEF LostInv, GivenUp
  <2>5. result'.ranked = list /\ result'.lost = lost
    BY <2>1
  <2> QED
    BY <2>2, <2>3, <2>4, <2>5
<1>6. CASE UNCHANGED vars
  BY <1>6 DEF vars
<1>7. ASSUME UNCHANGED <<final, main, result, latency>> PROVE RankInv'
  BY <1>7 DEF SortedBy
<1> QED
  BY <1>1, <1>2, <1>3, <1>4, <1>5, <1>6, <1>7 DEF Next, Main, Terminated

LEMMA RankInvariant == Spec => [](TypeOK /\ ArrivalInv /\ LostInv /\ RankInv)
<1>1. Init => RankInv
  BY DEF Init, RankInv
<1> QED
  BY <1>1, TypeCorrect, ArrivalInit, ArrivalStep, LostInit, LostStep, RankStep, PTL DEF Spec

(* What is returned is the sorted list of what arrived, apart from the     *)
(* lost relays (topology.go:251-253, 257-259), also while goroutines left  *)
(* behind go on probing.                                                   *)
THEOREM RankingReturned == Spec => []ResultIsRanking
<1>1. RankInv => ResultIsRanking
  BY DEF RankInv, ResultIsRanking
<1> QED
  BY <1>1, RankInvariant, PTL

-----------------------------------------------------------------------------
(* The refinement: every step of the goroutines and of the testing         *)
(* function is a step of LatencyContract or leaves its variables alone.    *)
Inv == TypeOK /\ ArrivalInv /\ LostInv /\ RankInv

(* The contract's lists are those of RelayLists, which it extends too. *)
LEMMA SameLists == /\ Contract!NoResult = NoResult
                   /\ \A C, r : Contract!Complete(C, r) = Complete(C, r)
                   /\ \A C : Contract!Acceptable(C) = Acceptable(C)
<1>1. \A f : Contract!Range(f) = Range(f)
  BY DEF Contract!Range, Range
<1>2. \A S : Contract!Orders(S) = Orders(S)
  <2>1. \A f : Contract!IsInjective(f) = IsInjective(f)
    BY DEF Contract!IsInjective, IsInjective
  <2>2. \A S, T : Contract!Injection(S, T) = Injection(S, T)
    BY <2>1 DEF Contract!Injection, Injection
  <2>3. \A S, T : Contract!Surjection(S, T) = Surjection(S, T)
    BY DEF Contract!Surjection, Surjection
  <2>4. \A S, T : Contract!Bijection(S, T) = Bijection(S, T)
    BY <2>2, <2>3 DEF Contract!Bijection, Bijection
  <2>5. \A S : Contract!Cardinality(S) = Cardinality(S)
    BY DEF Contract!Cardinality, Cardinality
  <2> QED
    BY <2>4, <2>5 DEF Contract!Orders, Orders
<1>3. \A S : Contract!Lists(S) = Lists(S)
  BY <1>2 DEF Contract!Lists, Lists
<1>4. \A C : Contract!Results(C) = Results(C)
  BY <1>3 DEF Contract!Results, Results
<1>5. \A C, r : Contract!Complete(C, r) = Complete(C, r)
  BY <1>1 DEF Contract!Complete, Complete
<1>6. \A C : Contract!Acceptable(C) = Acceptable(C)
  BY <1>1, <1>4, <1>5 DEF Contract!Acceptable, Acceptable
<1> QED
  BY <1>5, <1>6 DEF Contract!NoResult, NoResult

LEMMA PanicAllowed ==
    ASSUME Inv, Alive, panicked' # "no", UNCHANGED <<main, result>>,
           NEW p \in Candidates, pc[p] # "done"
    PROVE  Contract!Crash
<1>1. main = "returned" => ~Complete(Candidates, result)
  BY DEF Inv, RankInv, ArrivalInv, Complete
<1> QED
  BY <1>1, SameLists DEF Contract!Crash, Alive

LEMMA ReturnAllowed == Inv /\ Return => Contract!Return
<1> SUFFICES ASSUME Inv, Return PROVE Contract!Return
  OBVIOUS
<1>1. PICK list \in Rankings : result' = [lost |-> lost, ranked |-> list, failed |-> err]
  BY DEF Return
<1>2. list \in Orders(final) /\ Range(list) = final /\ list \in Lists(Candidates)
  BY <1>1, OrdersRange, ListsOfSubset DEF Rankings, Inv, TypeOK
<1>3. result' \in Results(Candidates)
  BY <1>1, <1>2 DEF Results, Inv, TypeOK
<1>4. lost \cap final = {}
  BY DEF Inv, LostInv, GivenUp
<1>5. final = Candidates => ~err
  BY DEF Inv, ArrivalInv, Passed, TypeOK
<1>6. result' \in Acceptable(Candidates)
  BY <1>1, <1>2, <1>3, <1>4, <1>5 DEF Acceptable, Complete
<1>7. Alive /\ Alive' /\ main = "closed" /\ main' = "returned"
  BY DEF Return, Alive
<1> QED
  BY <1>6, <1>7, SameLists DEF Contract!Return

LEMMA StepAllowed == Inv /\ Inv' /\ [Next]_vars => [Contract!Next]_(Contract!vars)
<1> SUFFICES ASSUME Inv, [Next]_vars PROVE [Contract!Next]_(Contract!vars)
  OBVIOUS
<1> USE DEF Contract!Next, Contract!vars
<1>1. ASSUME NEW p \in Candidates, Goroutine(p) PROVE [Contract!Next]_(Contract!vars)
  <2>1. CASE CloseNilConnection(p) \/ WarnNil(p) \/ SendOnClosed(p)
    <3>1. /\ Alive /\ panicked' # "no" /\ pc[p] # "done"
          /\ UNCHANGED <<main, result>>
      BY <2>1 DEF CloseNilConnection, WarnNil, SendOnClosed, Panic
    <3> QED
      BY <3>1, PanicAllowed
  <2>2. CASE ~(CloseNilConnection(p) \/ WarnNil(p) \/ SendOnClosed(p))
    <3>1. UNCHANGED <<main, result, panicked>>
      BY <1>1, <2>2 DEF Goroutine, Probe, CheckFails, CheckPasses, Warn, LoadLost, StoreLost
    <3> QED
      BY <3>1 DEF Alive
  <2> QED
    BY <2>1, <2>2
<1>2. ASSUME NEW p \in Candidates, Deliver(p) PROVE [Contract!Next]_(Contract!vars)
  BY <1>2 DEF Deliver, Alive
<1>3. CASE Timeout \/ CloseChannel
  BY <1>3 DEF Timeout, CloseChannel, Alive
<1>4. CASE Return
  BY <1>4, ReturnAllowed
<1>5. CASE UNCHANGED vars
  BY <1>5 DEF vars, Alive
<1> QED
  BY <1>1, <1>2, <1>3, <1>4, <1>5 DEF Next, Main, Terminated

(* The safety of the contract callers of the test rely on: an acceptable   *)
(* result or a panic, and no panic after a complete result.                *)
THEOREM ContractKept == Spec => ImplementsContractSteps
<1>1. Init => Contract!Init
  BY SameLists DEF Init, Contract!Init, Alive
<1>2. Spec => []Inv
  BY RankInvariant, PTL DEF Inv
<1> QED
  BY <1>1, <1>2, StepAllowed, PTL DEF Spec, ImplementsContractSteps

-----------------------------------------------------------------------------
(* The dialling test is spared the worst of the race: a failed dial leaves *)
(* no connection to close, so the goroutine that overlooks its own error   *)
(* panics before it can send.                                              *)
DialInv == \A p \in Candidates : pc[p] = "send" \/ p \in final => outcome[p] = "good"

LEMMA DialStep ==
    ASSUME ~WithPing
    PROVE  TypeOK /\ LostInv /\ DialInv /\ [Next]_vars => DialInv'
<1> SUFFICES ASSUME TypeOK, LostInv, DialInv, [Next]_vars PROVE DialInv'
  OBVIOUS
<1> USE DEF DialInv, TypeOK, Goto, Panic, probes, shared
<1>1. ASSUME NEW p \in Candidates, Goroutine(p) PROVE DialInv'
  <2>1. CASE Probe(p)
    <3>1. p \notin final'
      BY <2>1 DEF Probe, LostInv
    <3>2. /\ pc' = [pc EXCEPT ![p] = "check"]
          /\ \A q \in Candidates : q # p => outcome'[q] = outcome[q]
          /\ UNCHANGED final
      BY <2>1 DEF Probe
    <3> QED
      BY <3>1, <3>2
  <2>2. CASE CheckPasses(p)
    BY <2>2 DEF CheckPasses, HasConnection
  <2>3. CASE ~Probe(p) /\ ~CheckPasses(p)
    <3>1. /\ \A q \in Candidates : pc'[q] = "send" => pc[q] = "send"
          /\ UNCHANGED <<outcome, final>>
      BY <1>1, <2>3 DEF Goroutine, CheckFails, CloseNilConnection, Warn, WarnNil,
                        LoadLost, StoreLost, SendOnClosed
    <3> QED
      BY <3>1
  <2> QED
    BY <2>1, <2>2, <2>3
<1>2. ASSUME NEW p \in Candidates, Deliver(p) PROVE DialInv'
  BY <1>2 DEF Deliver
<1>3. CASE Main
  <2>1. UNCHANGED <<probes, final>>
    BY <1>3 DEF Main, Timeout, CloseChannel, Return
  <2> QED
    BY <2>1
<1>4. CASE UNCHANGED vars
  BY <1>4 DEF vars
<1> QED
  BY <1>1, <1>2, <1>3, <1>4 DEF Next, Terminated

(* TestLatency (topology.go:170-180) never returns a relay it could not    *)
(* connect to, which TestLatencyWithPing does.                             *)
THEOREM DialRejectsFailed == ~WithPing => (Spec => []FailedNeverRanked)
<1> SUFFICES ASSUME ~WithPing PROVE Spec => []FailedNeverRanked
  OBVIOUS
<1>1. Init => DialInv
  BY DEF Init, DialInv
<1>2. TypeOK /\ RankInv /\ DialInv => FailedNeverRanked
  <2> SUFFICES ASSUME TypeOK, RankInv, DialInv, NEW p \in Candidates,
                      p \in Range(result.ranked)
               PROVE  outcome[p] = "good"
    BY DEF FailedNeverRanked
  <2>1. CASE main = "returned"
    BY <2>1 DEF RankInv, DialInv, TypeOK
  <2>2. CASE main # "returned"
    <3>1. result.ranked = <<>>
      BY <2>2 DEF RankInv, NoResult
    <3> QED
      BY <3>1, EmptyOrder
  <2> QED
    BY <2>1, <2>2
<1>3. TypeOK /\ LostInv /\ DialInv /\ [Next]_vars => DialInv'
  BY DialStep
<1> QED
  BY <1>1, <1>2, <1>3, RankInvariant, PTL DEF Spec

-----------------------------------------------------------------------------
(* What another probe can hide.  Once a probe has ended err says so, until *)
(* another one has found a good relay; so whoever passes the test of err   *)
(* does it after a good relay was found, and a good relay stays good.      *)
Someone == \E p \in Candidates : outcome[p] = "good"

HiddenInv == /\ \A p \in Candidates : pc[p] = "probe" => outcome[p] = "none"
             /\ \A p \in Candidates : pc[p] # "probe" => err \/ Someone
             /\ \A p \in Candidates : pc[p] = "send" => Someone
             /\ final # {} => Someone

LEMMA HiddenStep == TypeOK /\ HiddenInv /\ [Next]_vars => HiddenInv'
<1> SUFFICES ASSUME TypeOK, HiddenInv, [Next]_vars PROVE HiddenInv'
  OBVIOUS
<1> USE DEF HiddenInv, TypeOK, Goto, Panic, probes, shared, Someone
<1>1. ASSUME NEW p \in Candidates, Goroutine(p) PROVE HiddenInv'
  <2>1. CASE Probe(p)
    <3>1. PICK o \in Outcomes : /\ outcome' = [outcome EXCEPT ![p] = o]
                                /\ err' = (o # "good")
      BY <2>1 DEF Probe
    <3>2. pc' = [pc EXCEPT ![p] = "check"] /\ outcome[p] = "none" /\ UNCHANGED final
      BY <2>1 DEF Probe
    <3>3. Someone => Someone'
      BY <3>1, <3>2
    <3>4. err' \/ Someone'
      BY <3>1
    <3> QED
      BY <3>1, <3>2, <3>3, <3>4
  <2>2. CASE CheckPasses(p)
    <3>1. Someone
      BY <2>2 DEF CheckPasses
    <3> QED
      BY <2>2, <3>1 DEF CheckPasses
  <2>3. CASE CheckFails(p) \/ CloseNilConnection(p) \/ Warn(p) \/ WarnNil(p)
    BY <2>3 DEF CheckFails, CloseNilConnection, Warn, WarnNil
  <2>4. CASE LoadLost(p) \/ StoreLost(p) \/ SendOnClosed(p)
    BY <2>4 DEF LoadLost, StoreLost, SendOnClosed
  <2> QED
    BY <1>1, <2>1, <2>2, <2>3, <2>4 DEF Goroutine
<1>2. ASSUME NEW p \in Candidates, Deliver(p) PROVE HiddenInv'
  <2>1. Someone /\ Someone'
    BY <1>2 DEF Deliver
  <2> QED
    BY <1>2, <2>1 DEF Deliver
<1>3. CASE Main
  BY <1>3 DEF Main, Timeout, CloseChannel, Return
<1>4. CASE UNCHANGED vars
  BY <1>4 DEF vars
<1> QED
  BY <1>1, <1>2, <1>3, <1>4 DEF Next, Terminated

(* A test of which no relay answers ranks nobody (topology.go:225-236).    *)
THEOREM NobodyRanked == Spec => []SilenceRanksNobody
<1>1. Init => HiddenInv
  BY DEF Init, HiddenInv
<1>2. HiddenInv => SilenceRanksNobody
  BY DEF HiddenInv, Someone, SilenceRanksNobody
<1> QED
  BY <1>1, <1>2, HiddenStep, TypeCorrect, PTL DEF Spec

(* When every candidate has arrived nobody is left to touch what the       *)
(* caller will read after its deferred close (topology.go:257-260): the    *)
(* shared variables are its own, without a lock.                           *)
CompleteTestQuiet ==
    [][final = Candidates => UNCHANGED <<probes, shared, panicked>>]_vars

THEOREM ResultStable == Spec => CompleteTestQuiet
<1>1. /\ TypeOK /\ EarlyReturnComplete /\ [Next]_vars
      => [final = Candidates => UNCHANGED <<probes, shared, panicked>>]_vars
  <2> SUFFICES ASSUME TypeOK, EarlyReturnComplete, [Next]_vars, final = Candidates
               PROVE  UNCHANGED <<probes, shared, panicked>>
    OBVIOUS
  <2>1. \A p \in Candidates : pc[p] = "done"
    BY DEF EarlyReturnComplete
  <2>2. \A p \in Candidates : ~Goroutine(p) /\ ~Deliver(p)
    BY <2>1 DEF Goroutine, Probe, CheckFails, CheckPasses, CloseNilConnection, Warn,
       WarnNil, LoadLost, StoreLost, SendOnClosed, Deliver, Goto, Panic
  <2> QED
    BY <2>2 DEF Next, Main, Timeout, CloseChannel, Return, Terminated, vars, probes, shared
<1> QED
  BY <1>1, TypeCorrect, EarlyReturn, PTL DEF Spec, CompleteTestQuiet
=============================================================================
