---------------------------- MODULE TopologyProofs ----------------------------
(***************************************************************************)
(* Proofs about Topology, for any lists, any settings and any number of    *)
(* crashes: the types; a producer's file names its own relays only; every  *)
(* whole file has the pool's nodes, and a relay's is whole while the       *)
(* search is under way; a search without an error keeps its word.          *)
(***************************************************************************)
EXTENDS Topology, FiniteSetTheorems, TLAPS

Given == Default \o PoolNodes

(* A producer never gets to the search, and has its pool's relays only.    *)
ProducerStays ==
    role = "producer" =>
        /\ pc \in {"start", "write", "writing", "done", "failed", "crashed"}
        /\ pc \in {"write", "writing"} => top = PoolNodes
        /\ file.nodes \in {<<>>, PoolNodes}

(* What a relay writes before the search, and has on disk in it. *)
RelayHasGiven ==
    /\ role # "producer" /\ pc \in {"write", "writing"} => top = Given
    /\ pc \in SearchSteps => role # "producer" /\ file = Written(Given)

(* The inductive invariant. *)
IInv == ProducerStays /\ RelayHasGiven

-----------------------------------------------------------------------------

(* Both lists are in the list that is written first. *)
LEMMA GivenHasBoth == Range(Default) \cup Range(PoolNodes) \subseteq Range(Given)
<1>1. Range(Default) \subseteq Range(Given)
  <2>1. SUFFICES ASSUME NEW i \in DOMAIN Default
                 PROVE  \E j \in DOMAIN Given : Given[j] = Default[i]
    BY DEF Range
  <2>2. i \in DOMAIN Given /\ Given[i] = Default[i]
    BY <2>1, ListsAreSequences DEF Given
  <2> QED
    BY <2>2
<1>2. Range(PoolNodes) \subseteq Range(Given)
  <2>1. SUFFICES ASSUME NEW i \in DOMAIN PoolNodes
                 PROVE  \E j \in DOMAIN Given : Given[j] = PoolNodes[i]
    BY DEF Range
  <2>2. /\ Len(Default) + i \in DOMAIN Given
        /\ Given[Len(Default) + i] = PoolNodes[i]
    BY <2>1, ListsAreSequences DEF Given
  <2> QED
    BY <2>2
<1> QED
  BY <1>1, <1>2

LEMMA InitIInv == Init => IInv
BY DEF Init, IInv, ProducerStays, RelayHasGiven, Absent, SearchSteps

(* The first half: up to the first write. *)
LEMMA FirstHalfIInv ==
    ASSUME IInv,
           Download \/ SetupFails \/ ListPoolRelays \/ BeginWrite \/ FinishWrite \/ WriteFails
    PROVE  IInv'
<1> USE DEF IInv, ProducerStays, RelayHasGiven, SearchSteps, node, search
<1>1. CASE Download BY <1>1 DEF Download, RelayRoles, Given
<1>2. CASE SetupFails BY <1>2 DEF SetupFails
<1>3. CASE ListPoolRelays BY <1>3 DEF ListPoolRelays
<1>4. CASE BeginWrite BY <1>4 DEF BeginWrite, Truncate, Partial
<1>5. CASE FinishWrite BY <1>5 DEF FinishWrite, Written
<1>6. CASE WriteFails BY <1>6 DEF WriteFails
<1> QED
  BY <1>1, <1>2, <1>3, <1>4, <1>5, <1>6

(* The search writes nothing. *)
LEMMA SearchIInv ==
    ASSUME IInv,
           Fetch \/ FetchFails \/ PingTest \/ DialTest \/ MainNetSearch \/ AppendFound
    PROVE  IInv'
<1>1. /\ role' = role /\ file' = file
      /\ pc \in SearchSteps /\ pc' \in SearchSteps
  BY DEF Fetch, FetchFails, PingTest, DialTest, MainNetSearch, AppendFound,
     SearchReturns, SearchSteps, node
<1> QED
  BY <1>1 DEF IInv, ProducerStays, RelayHasGiven, SearchSteps

(* The second write, and the end of the process. *)
LEMMA LastIInv ==
    ASSUME IInv,
           BeginRewrite \/ FinishRewrite \/ RewriteFails \/ MainNetPanic \/ Crash \/ Restart
    PROVE  IInv'
BY DEF IInv, BeginRewrite, FinishRewrite, RewriteFails, MainNetPanic, Crash, Die,
   Restart, Truncate, node, search, ProducerStays, RelayHasGiven, SearchSteps,
   RelayRoles, Partial, Written

THEOREM Inductive == Spec => []IInv
<1>1. IInv /\ [Next]_vars => IInv'
  <2> SUFFICES ASSUME IInv, [Next]_vars PROVE IInv'
    OBVIOUS
  <2>1. CASE Terminated \/ UNCHANGED vars
    BY <2>1 DEF Terminated, vars, IInv, ProducerStays, RelayHasGiven
  <2> QED
    BY <2>1, FirstHalfIInv, SearchIInv, LastIInv DEF Next, Step
<1> QED
  BY <1>1, InitIInv, PTL DEF Spec

(* A producer's file names its own relays and nobody else. *)
THEOREM Isolated == Spec => []ProducerIsolated
<1>1. Range(<<>>) = {}
  BY DEF Range
<1>2. IInv => ProducerIsolated
  BY <1>1 DEF IInv, ProducerStays, ProducerIsolated
<1> QED
  BY <1>2, Inductive, PTL

(* The file of the first write is whole all through the search. *)
THEOREM UsableDuringSearch == Spec => []FileUsableDuringSearch
<1>1. IInv => FileUsableDuringSearch
  BY GivenHasBoth DEF IInv, RelayHasGiven, FileUsableDuringSearch, Written
<1> QED
  BY <1>1, Inductive, PTL

-----------------------------------------------------------------------------
(* Lists. *)

LEMMA PublicFinite == IsFiniteSet(Range(Public))
<1>1. Len(Public) \in Nat /\ DOMAIN Public = 1 .. Len(Public)
  BY ListsAreSequences
<1>2. Public \in Surjection(DOMAIN Public, Range(Public))
  BY <1>1, ListsAreSequences DEF Surjection, Range
<1> QED
  BY <1>1, <1>2, FS_Interval, FS_Surjection

LEMMA OrderIsSeq ==
    ASSUME NEW S \in SUBSET Range(Public), NEW list \in Orders(S)
    PROVE  list \in Seq(S) /\ Range(list) = S
<1>1. Cardinality(S) \in Nat
  BY PublicFinite, FS_Subset, FS_CardinalityType
<1>2. list \in [1 .. Cardinality(S) -> S] /\ Range(list) = S
  BY DEF Orders, Bijection, Injection, Surjection, Range
<1> QED
  BY <1>1, <1>2

LEMMA ListIsSeq ==
    ASSUME NEW S \in SUBSET Range(Public), NEW list \in Lists(S)
    PROVE  list \in Seq(S) /\ Range(list) \subseteq S
<1>1. PICK T \in SUBSET S : list \in Orders(T)
  BY DEF Lists
<1>2. list \in Seq(T) /\ Range(list) = T
  BY <1>1, OrderIsSeq
<1> QED
  BY <1>2

LEMMA SeqRange ==
    ASSUME NEW S, NEW list \in Seq(S)
    PROVE  Range(list) \subseteq S
BY DEF Range

LEMMA FirstOfList ==
    ASSUME NEW S, NEW list \in Seq(S), NEW n \in Nat
    PROVE  /\ FirstOf(list, n) \in Seq(S)
           /\ Len(FirstOf(list, n)) <= n
           /\ Range(FirstOf(list, n)) \subseteq Range(list)
<1> DEFINE cut == IF Len(list) > n THEN n ELSE Len(list)
<1>1. cut \in 0 .. Len(list) /\ cut <= n
  OBVIOUS
<1>2. /\ FirstOf(list, n) = SubSeq(list, 1, cut)
      /\ DOMAIN SubSeq(list, 1, cut) = 1 .. cut
      /\ Len(SubSeq(list, 1, cut)) = cut
      /\ \A i \in 1 .. cut : SubSeq(list, 1, cut)[i] = list[i] /\ i \in DOMAIN list
  BY <1>1 DEF FirstOf
<1>3. SubSeq(list, 1, cut) \in Seq(S)
  BY <1>1
<1> QED
  BY <1>1, <1>2, <1>3 DEF Range

LEMMA ConcatRange ==
    ASSUME NEW S, NEW a \in Seq(S), NEW b \in Seq(S)
    PROVE  a \o b \in Seq(S) /\ Range(a \o b) = Range(a) \cup Range(b)
<1>1. a \o b \in Seq(S)
  OBVIOUS
<1>2. \A i \in DOMAIN (a \o b) : (a \o b)[i] \in Range(a) \cup Range(b)
  BY DEF Range
<1>3. \A i \in DOMAIN a : i \in DOMAIN (a \o b) /\ (a \o b)[i] = a[i]
  OBVIOUS
<1>4. \A i \in DOMAIN b : /\ Len(a) + i \in DOMAIN (a \o b)
                          /\ (a \o b)[Len(a) + i] = b[i]
  OBVIOUS
<1> QED
  BY <1>1, <1>2, <1>3, <1>4 DEF Range

-----------------------------------------------------------------------------
(* The types. *)

Known == Range(Default) \cup Range(PoolNodes) \cup Range(Public)

(* The lists are sequences, and the last crash is the end of it. *)
Typed == /\ TypeOK
         /\ top \in Seq(Known)
         /\ others \in Seq(Range(Public))
         /\ pc # "crashed" => crashes <= MaxCrashes

LEMMA KnownLists ==
    /\ Default \in Seq(Known) /\ PoolNodes \in Seq(Known)
    /\ Default \o PoolNodes \in Seq(Known)
    /\ <<>> \in Seq(Known) /\ <<>> \in Seq(Range(Public))
    /\ Public \in Seq(Range(Public)) /\ Seq(Range(Public)) \subseteq Seq(Known)
BY ListsAreSequences DEF Known

LEMMA NoResultTyped == NoResult \in Results(Range(Public))
<1>1. Cardinality({}) = 0 /\ 1 .. 0 = {}
  BY FS_EmptySet
<1>2. <<>> \in [1 .. 0 -> {}]
  BY <1>1
<1>3. <<>> \in Orders({})
  BY <1>1, <1>2, SMT DEF Orders, Bijection, Injection, Surjection, IsInjective
<1>4. <<>> \in Lists(Range(Public))
  BY <1>3 DEF Lists
<1> QED
  BY <1>4 DEF NoResult, Results

LEMMA InitTyped == Init => Typed
<1> SUFFICES ASSUME Init PROVE Typed
  OBVIOUS
<1>1. Range(<<>>) = {}
  BY DEF Range
<1>2. crashes \in 0 .. MaxCrashes + 1 /\ crashes <= MaxCrashes
  BY CountsAreNat DEF Init
<1> QED
  BY <1>1, <1>2, KnownLists, NoResultTyped DEF Init, Typed, TypeOK, Absent, SearchSteps

(* The list of a search that ended well. *)
LEMMA MergedIsSeq ==
    ASSUME NEW C \in SUBSET Range(Public), NEW L \in SUBSET Range(Public),
           NEW pinged \in Lists(C), NEW dialled \in Lists(L),
           NEW list \in Merged(pinged, dialled)
    PROVE  /\ list \in Seq(Range(Public))
           /\ Range(list) \subseteq Range(pinged)
                  \cup {r \in Range(dialled) : \A p \in Range(pinged) : Key[p] # Key[r]}
<1> DEFINE unseen == {r \in Range(dialled) : \A p \in Range(pinged) : Key[p] # Key[r]}
<1>1. PICK new \in Orders(unseen) : list = pinged \o new
  BY DEF Merged
<1>2. /\ pinged \in Seq(Range(Public))
      /\ unseen \in SUBSET Range(Public)
  BY ListIsSeq
<1>3. new \in Seq(Range(Public)) /\ Range(new) = unseen
  BY <1>1, <1>2, OrderIsSeq
<1>4. list \in Seq(Range(Public)) /\ Range(list) = Range(pinged) \cup Range(new)
  BY <1>1, <1>2, <1>3, ConcatRange
<1> QED
  BY <1>3, <1>4

LEMMA ResultFields ==
    ASSUME NEW C, NEW r \in Acceptable(C)
    PROVE  /\ r \in Results(C)
           /\ r.lost \in SUBSET C /\ r.ranked \in Lists(C) /\ r.failed \in BOOLEAN
           /\ r.lost \cap Range(r.ranked) = {}
BY DEF Acceptable, Results

LEMMA ResultsMonotone ==
    ASSUME NEW C \in SUBSET Range(Public), NEW r \in Results(C)
    PROVE  r \in Results(Range(Public))
BY DEF Results, Lists

(* What a step of the search leaves in others. *)
LEMMA DialTestList ==
    ASSUME Typed, DialTest
    PROVE  /\ others' \in Seq(Range(Public)) /\ searchError' \in BOOLEAN
           /\ ~searchError' => \E r \in Acceptable(ping.lost) :
                 \E list \in Merged(ping.ranked, r.ranked) :
                    /\ Len(others') <= peers
                    /\ Range(others') \subseteq Range(list)
<1>1. PICK r \in Acceptable(ping.lost) :
         \/ r.failed /\ SearchReturns(Public, TRUE)
         \/ /\ ~r.failed
            /\ \E list \in Merged(ping.ranked, r.ranked) :
                  SearchReturns(FirstOf(list, peers), FALSE)
         \/ ~r.failed /\ SearchReturns(<<>>, TRUE)
  BY DEF DialTest
<1>2. /\ ping.lost \in SUBSET Range(Public) /\ ping.ranked \in Lists(Range(Public))
      /\ peers \in Nat
  BY CountsAreNat DEF Typed, TypeOK, Results
<1>3. CASE SearchReturns(Public, TRUE) \/ SearchReturns(<<>>, TRUE)
  BY <1>3, KnownLists DEF SearchReturns
<1>4. ASSUME NEW list \in Merged(ping.ranked, r.ranked),
             SearchReturns(FirstOf(list, peers), FALSE)
      PROVE  /\ others' \in Seq(Range(Public)) /\ ~searchError' /\ searchError' \in BOOLEAN
             /\ Len(others') <= peers
             /\ Range(others') \subseteq Range(list)
  <2>1. list \in Seq(Range(Public))
    BY <1>2, MergedIsSeq, ResultFields
  <2> QED
    BY <1>2, <1>4, <2>1, FirstOfList DEF SearchReturns
<1> QED
  BY <1>1, <1>3, <1>4

LEMMA MainNetList ==
    ASSUME Typed, MainNetSearch
    PROVE  /\ others' \in Seq(Range(Public)) /\ Len(others') <= peers
           /\ searchError' \in BOOLEAN
<1>1. PICK good \in Lists(Range(Public)) : SearchReturns(FirstOf(good, peers), FALSE)
  BY DEF MainNetSearch
<1>2. peers \in Nat
  BY CountsAreNat DEF Typed, TypeOK
<1> QED
  BY <1>1, <1>2, ListIsSeq, FirstOfList DEF SearchReturns

LEMMA SearchTyped ==
    ASSUME Typed, Fetch \/ FetchFails \/ PingTest \/ DialTest \/ MainNetSearch
    PROVE  Typed'
<1> USE DEF Typed, TypeOK, SearchSteps, node
<1>1. CASE Fetch
  BY <1>1 DEF Fetch
<1>2. CASE FetchFails
  BY <1>2, KnownLists, SeqRange DEF FetchFails, SearchReturns
<1>3. CASE PingTest
  <2>1. PICK r \in Acceptable(candidates) :
           IF r.failed
           THEN SearchReturns(Public, TRUE) /\ UNCHANGED ping
           ELSE ping' = r /\ pc' = "dial" /\ UNCHANGED <<others, searchError>>
    BY <1>3 DEF PingTest
  <2>2. r \in Results(Range(Public))
    BY ResultFields, ResultsMonotone
  <2> QED
    BY <1>3, <2>1, <2>2, KnownLists, SeqRange DEF PingTest, SearchReturns
<1>4. CASE DialTest
  <2>1. others' \in Seq(Range(Public)) /\ searchError' \in BOOLEAN
    BY <1>4, DialTestList
  <2>2. pc' = "append" /\ UNCHANGED <<node, top, candidates, ping, file, crashes>>
    BY <1>4 DEF DialTest, SearchReturns
  <2> QED
    BY <1>4, <2>1, <2>2, SeqRange DEF DialTest
<1>5. CASE MainNetSearch
  <2>1. pc' = "append" /\ UNCHANGED <<node, top, candidates, ping, file, crashes>>
    BY <1>5 DEF MainNetSearch, SearchReturns
  <2> QED
    BY <1>5, <2>1, MainNetList, SeqRange DEF MainNetSearch
<1> QED
  BY <1>1, <1>2, <1>3, <1>4, <1>5

LEMMA WritesTyped ==
    ASSUME Typed,
           \/ Download \/ SetupFails \/ ListPoolRelays \/ BeginWrite \/ FinishWrite
           \/ WriteFails \/ AppendFound \/ BeginRewrite \/ FinishRewrite \/ RewriteFails
    PROVE  Typed'
<1> USE DEF Typed, TypeOK, SearchSteps, node, search
<1>1. CASE Download \/ SetupFails \/ ListPoolRelays
  BY <1>1, KnownLists, SeqRange DEF Download, SetupFails, ListPoolRelays, Known
<1>2. CASE BeginWrite \/ FinishWrite \/ WriteFails
  BY <1>2 DEF BeginWrite, Truncate, FinishWrite, WriteFails, Partial, Written
<1>3. CASE AppendFound
  <2>1. top' \in Seq(Known)
    BY <1>3, KnownLists, ConcatRange DEF AppendFound
  <2> QED
    BY <1>3, <2>1, SeqRange DEF AppendFound, Known
<1>4. CASE BeginRewrite \/ FinishRewrite \/ RewriteFails
  BY <1>4 DEF BeginRewrite, Truncate, FinishRewrite, RewriteFails, Partial, Written
<1> QED
  BY <1>1, <1>2, <1>3, <1>4

LEMMA DeathTyped ==
    ASSUME Typed, MainNetPanic \/ Crash \/ Restart \/ Terminated \/ UNCHANGED vars
    PROVE  Typed'
<1> USE DEF Typed, TypeOK, SearchSteps, node, search
<1>1. CASE MainNetPanic \/ Crash
  <2>1. Die /\ crashes <= MaxCrashes
    BY <1>1 DEF MainNetPanic, Crash
  <2>2. crashes' \in 0 .. MaxCrashes + 1
    BY <2>1, CountsAreNat DEF Die
  <2> QED
    BY <2>1, <2>2 DEF Die
<1>2. CASE Restart
  BY <1>2, KnownLists, NoResultTyped, SeqRange DEF Restart
<1>3. CASE Terminated \/ UNCHANGED vars
  BY <1>3 DEF Terminated, vars
<1> QED
  BY <1>1, <1>2, <1>3

THEOREM TypedAlways == Spec => []Typed
<1>1. Typed /\ [Next]_vars => Typed'
  BY SearchTyped, WritesTyped, DeathTyped DEF Next, Step
<1> QED
  BY <1>1, InitTyped, PTL DEF Spec

(* Every variable keeps its type. *)
THEOREM TypeCorrect == Spec => []TypeOK
<1>1. Typed => TypeOK
  BY DEF Typed
<1> QED
  BY <1>1, TypedAlways, PTL

-----------------------------------------------------------------------------
(* The nodes of the pool. *)

(* From the first list to the last the pool's nodes are in it.             *)
PoolListed ==
    /\ pc \in SearchSteps \cup {"write", "writing", "rewriting"} =>
           Range(PoolNodes) \subseteq Range(top)
    /\ PoolAlwaysKnown

LEMMA PoolStep ==
    ASSUME Typed, PoolListed, [Next]_vars
    PROVE  PoolListed'
<1> USE DEF PoolListed, PoolAlwaysKnown, SearchSteps, node, search
<1>1. CASE Download
  <2>1. Range(PoolNodes) \subseteq Range(Default \o PoolNodes)
    BY GivenHasBoth DEF Given
  <2> QED
    BY <1>1, <2>1 DEF Download
<1>2. CASE SetupFails \/ ListPoolRelays
  BY <1>2 DEF SetupFails, ListPoolRelays
<1>3. CASE BeginWrite \/ FinishWrite \/ WriteFails
  BY <1>3 DEF BeginWrite, Truncate, FinishWrite, WriteFails, Partial, Written
<1>4. CASE Fetch \/ FetchFails \/ PingTest \/ DialTest \/ MainNetSearch
  <2>1. pc \in SearchSteps /\ pc' \in SearchSteps /\ UNCHANGED <<top, file>>
    BY <1>4 DEF Fetch, FetchFails, PingTest, DialTest, MainNetSearch, SearchReturns
  <2> QED
    BY <2>1
<1>5. CASE AppendFound
  <2>1. Range(top') = Range(top) \cup Range(others)
    BY <1>5, KnownLists, ConcatRange DEF AppendFound, Typed
  <2> QED
    BY <1>5, <2>1 DEF AppendFound
<1>6. CASE BeginRewrite \/ FinishRewrite \/ RewriteFails
  BY <1>6 DEF BeginRewrite, Truncate, FinishRewrite, RewriteFails, Partial, Written
<1>7. CASE MainNetPanic \/ Crash \/ Restart
  BY <1>7 DEF MainNetPanic, Crash, Die, Restart
<1>8. CASE Terminated \/ UNCHANGED vars
  BY <1>8 DEF Terminated, vars
<1> QED
  BY <1>1, <1>2, <1>3, <1>4, <1>5, <1>6, <1>7, <1>8 DEF Next, Step

(* A whole file has the pool's nodes, through failed searches and crashes. *)
THEOREM PoolKnown == Spec => []PoolAlwaysKnown
<1>1. Init => PoolListed
  BY DEF Init, PoolListed, PoolAlwaysKnown, Absent, SearchSteps
<1>2. Typed /\ PoolListed /\ [Next]_vars => PoolListed'
  BY PoolStep
<1>3. PoolListed => PoolAlwaysKnown
  BY DEF PoolListed
<1> QED
  BY <1>1, <1>2, <1>3, TypedAlways, PTL DEF Spec

-----------------------------------------------------------------------------
(* The word of the search. *)

(* What the two tests of the test network work on.                         *)
SearchInv ==
    /\ pc \in {"ping", "dial"} => /\ role = "testnet relay"
                                  /\ candidates \cap OwnRelays = {}
    /\ pc = "dial" => ping \in Acceptable(candidates)
    /\ SearchKeepsItsWord

(* The list of the dial test: of two relays under one key, both were found *)
(* by the ping test or both by dialling.                                   *)
LEMMA DialKeepsWord ==
    ASSUME Typed, SearchInv, DialTest
    PROVE  SearchKeepsItsWord'
<1> SUFFICES ASSUME ~searchError'
             PROVE  /\ Len(others') <= peers'
                    /\ Range(others') \cap OwnRelays = {}
                    /\ \A p, r \in Range(others') :
                          Key[p] = Key[r] => (p \in ping.lost' <=> r \in ping.lost')
  BY DEF SearchKeepsItsWord
<1>1. UNCHANGED <<peers, ping>>
  BY DEF DialTest, node
<1>2. PICK r \in Acceptable(ping.lost) :
         \E list \in Merged(ping.ranked, r.ranked) :
            Len(others') <= peers /\ Range(others') \subseteq Range(list)
  BY DialTestList
<1>3. PICK list \in Merged(ping.ranked, r.ranked) :
         Len(others') <= peers /\ Range(others') \subseteq Range(list)
  BY <1>2
<1>4. /\ ping \in Acceptable(candidates) /\ candidates \cap OwnRelays = {}
      /\ candidates \in SUBSET Range(Public)
  BY DEF DialTest, SearchInv, Typed, TypeOK
<1>5. /\ ping.lost \in SUBSET candidates /\ ping.ranked \in Lists(candidates)
      /\ ping.lost \cap Range(ping.ranked) = {} /\ r.ranked \in Lists(ping.lost)
  BY <1>4, ResultFields
<1>6. ping.lost \in SUBSET Range(Public)
  BY <1>4, <1>5
<1>7. Range(list) \subseteq Range(ping.ranked)
         \cup {d \in Range(r.ranked) : \A p \in Range(ping.ranked) : Key[p] # Key[d]}
  BY <1>4, <1>5, <1>6, MergedIsSeq
<1>8. Range(ping.ranked) \subseteq candidates /\ Range(r.ranked) \subseteq ping.lost
  BY <1>4, <1>5, <1>6, ListIsSeq
<1> QED
  BY <1>1, <1>3, <1>4, <1>5, <1>7, <1>8

LEMMA SearchStep ==
    ASSUME Typed, SearchInv, [Next]_vars
    PROVE  SearchInv'
<1> USE DEF SearchInv, node, search
<1>1. CASE Fetch
  BY <1>1 DEF Fetch, SearchKeepsItsWord
<1>2. CASE FetchFails
  BY <1>2 DEF FetchFails, SearchReturns, SearchKeepsItsWord
<1>3. CASE PingTest
  BY <1>3 DEF PingTest, SearchReturns, SearchKeepsItsWord
<1>4. CASE DialTest
  <2>1. pc' = "append"
    BY <1>4 DEF DialTest, SearchReturns
  <2> QED
    BY <1>4, <2>1, DialKeepsWord
<1>5. CASE MainNetSearch
  BY <1>5, MainNetList DEF MainNetSearch, SearchReturns, SearchKeepsItsWord
<1>6. CASE \/ Download \/ SetupFails \/ ListPoolRelays \/ BeginWrite \/ FinishWrite
           \/ WriteFails \/ AppendFound \/ BeginRewrite \/ FinishRewrite \/ RewriteFails
           \/ MainNetPanic \/ Crash \/ Restart
  BY <1>6 DEF Download, SetupFails, ListPoolRelays, BeginWrite, Truncate, FinishWrite,
     WriteFails, AppendFound, BeginRewrite, FinishRewrite, RewriteFails, MainNetPanic,
     Crash, Die, Restart, SearchKeepsItsWord
<1>7. CASE Terminated \/ UNCHANGED vars
  BY <1>7 DEF Terminated, vars, SearchKeepsItsWord
<1> QED
  BY <1>1, <1>2, <1>3, <1>4, <1>5, <1>6, <1>7 DEF Next, Step

(* A search that reports no error keeps to its number, leaves the          *)
(* operator's own relays out and finds nothing twice.                      *)
THEOREM WordKept == Spec => []SearchKeepsItsWord
<1>1. Init => SearchInv
  BY DEF Init, SearchInv, SearchKeepsItsWord
<1>2. Typed /\ SearchInv /\ [Next]_vars => SearchInv'
  BY SearchStep
<1>3. SearchInv => SearchKeepsItsWord
  BY DEF SearchInv
<1> QED
  BY <1>1, <1>2, <1>3, TypedAlways, PTL DEF Spec

-----------------------------------------------------------------------------
(* The refinement. *)

content == IF file.state = "complete" THEN "whole" ELSE file.state

(* The phase of the call, step by step. *)
LEMMA PhaseOf ==
    /\ pc \in {"start", "write"} => phase = "preparing"
    /\ pc = "writing" => phase = "writing"
    /\ pc \in SearchSteps => phase = "searching"
    /\ pc = "rewriting" => phase = "rewriting"
    /\ pc \in {"done", "failed"} => phase = "over"
    /\ pc = "crashed" => phase = "dead"
BY Zenon DEF phase, SearchSteps

LEMMA PhaseOfNext ==
    /\ pc' \in {"start", "write"} => phase' = "preparing"
    /\ pc' = "writing" => phase' = "writing"
    /\ pc' \in SearchSteps => phase' = "searching"
    /\ pc' = "rewriting" => phase' = "rewriting"
    /\ pc' \in {"done", "failed"} => phase' = "over"
    /\ pc' = "crashed" => phase' = "dead"
BY Zenon DEF phase, SearchSteps

(* A step that leaves the file alone and stays in its phase is not seen.   *)
LEMMA UnseenStep ==
    ASSUME phase' = phase, file' = file
    PROVE  UNCHANGED Contract!vars
BY DEF Contract!vars

(* The first half: up to the first write. *)
LEMMA FirstHalfRefines ==
    ASSUME Download \/ SetupFails \/ ListPoolRelays \/ BeginWrite \/ FinishWrite \/ WriteFails
    PROVE  [Contract!Next]_Contract!vars
<1>1. CASE Download \/ ListPoolRelays
  <2>1. pc = "start" /\ pc' = "write" /\ file' = file
    BY <1>1 DEF Download, ListPoolRelays
  <2> QED
    BY <2>1, PhaseOf, PhaseOfNext, UnseenStep
<1>2. CASE SetupFails \/ WriteFails
  <2>1. /\ pc \in {"start", "write", "writing"} /\ pc' = "failed"
        /\ file' = file
    BY <1>2 DEF SetupFails, WriteFails
  <2>2. phase \in {"preparing", "writing"} /\ phase' = "over"
    BY <2>1, PhaseOf, PhaseOfNext
  <2> QED
    BY <2>1, <2>2 DEF Contract!Next, Contract!Work, Contract!GiveUp
<1>3. CASE BeginWrite
  <2>1. phase = "preparing" /\ phase' = "writing" /\ content' = "partial"
    BY <1>3, PhaseOf, PhaseOfNext DEF BeginWrite, Truncate, Partial, content
  <2> QED
    BY <2>1 DEF Contract!Next, Contract!Work, Contract!Truncate, content
<1>4. CASE FinishWrite
  <2>1. phase = "writing" /\ phase' \in {"searching", "over"} /\ content' = "whole"
    BY <1>4, PhaseOf, PhaseOfNext DEF FinishWrite, Written, content, SearchSteps
  <2> QED
    BY <2>1 DEF Contract!Next, Contract!Work, Contract!Complete, content
<1> QED
  BY <1>1, <1>2, <1>3, <1>4

(* The second: the search is one phase, whatever happens in it. *)
LEMMA SecondHalfRefines ==
    ASSUME \/ Fetch \/ FetchFails \/ PingTest \/ DialTest \/ MainNetSearch \/ AppendFound
           \/ BeginRewrite \/ FinishRewrite \/ RewriteFails
    PROVE  [Contract!Next]_Contract!vars
<1>1. CASE Fetch \/ FetchFails \/ PingTest \/ DialTest \/ MainNetSearch \/ AppendFound
  <2>1. pc \in SearchSteps /\ pc' \in SearchSteps /\ file' = file
    BY <1>1 DEF Fetch, FetchFails, PingTest, DialTest, MainNetSearch, AppendFound,
       SearchReturns, SearchSteps
  <2> QED
    BY <2>1, PhaseOf, PhaseOfNext, UnseenStep
<1>2. CASE BeginRewrite
  <2>1. phase = "searching" /\ phase' = "rewriting" /\ content' = "partial"
    BY <1>2, PhaseOf, PhaseOfNext DEF BeginRewrite, Truncate, Partial, content, SearchSteps
  <2> QED
    BY <2>1 DEF Contract!Next, Contract!Work, Contract!Truncate, content
<1>3. CASE FinishRewrite
  <2>1. phase = "rewriting" /\ phase' = "over" /\ content' = "whole"
    BY <1>3, PhaseOf, PhaseOfNext DEF FinishRewrite, Written, content
  <2> QED
    BY <2>1 DEF Contract!Next, Contract!Work, Contract!Complete, content
<1>4. CASE RewriteFails
  <2>1. /\ pc \in {"rewrite", "rewriting"} /\ pc' = "done"
        /\ file' = file
    BY <1>4 DEF RewriteFails
  <2>2. phase \in {"searching", "rewriting"} /\ phase' = "over"
    BY <2>1, PhaseOf, PhaseOfNext DEF SearchSteps
  <2> QED
    BY <2>1, <2>2 DEF Contract!Next, Contract!Work, Contract!GiveUp
<1> QED
  BY <1>1, <1>2, <1>3, <1>4

(* The process dies in any phase, and starts again with the files it had.  *)
LEMMA DeathRefines ==
    ASSUME Typed, MainNetPanic \/ Crash \/ Restart
    PROVE  [Contract!Next]_Contract!vars
<1>1. CASE MainNetPanic \/ Crash
  <2>1. pc # "crashed" /\ pc' = "crashed" /\ file' = file
    BY <1>1 DEF MainNetPanic, Crash, Die
  <2>2. phase # "dead" /\ phase' = "dead"
    BY <2>1, PhaseOf, PhaseOfNext DEF Typed, TypeOK
  <2> QED
    BY <2>1, <2>2 DEF Contract!Next, Contract!Die
<1>2. CASE Restart
  <2>1. pc = "crashed" /\ pc' = "start" /\ file' = file
    BY <1>2 DEF Restart
  <2>2. phase = "dead" /\ phase' = "preparing"
    BY <2>1, PhaseOf, PhaseOfNext
  <2> QED
    BY <2>1, <2>2 DEF Contract!Next, Contract!Restart
<1> QED
  BY <1>1, <1>2

(* For any lists, settings and number of crashes the call keeps its        *)
(* contract (topology.go:70-125), but for coming to an end.                *)
THEOREM CallRefines == Spec => Contract!Safety
<1>1. Init => Contract!Init
  BY PhaseOf DEF Init, Absent, Contract!Init
<1>2. Typed /\ [Next]_vars => [Contract!Next]_Contract!vars
  <2> SUFFICES ASSUME Typed, [Next]_vars PROVE [Contract!Next]_Contract!vars
    OBVIOUS
  <2>1. CASE Terminated \/ UNCHANGED vars
    <3>1. pc' = pc /\ file' = file
      BY <2>1 DEF Terminated, vars
    <3>2. phase' = phase
      BY <3>1, Zenon DEF phase
    <3> QED
      BY <3>1, <3>2, UnseenStep
  <2> QED
    BY <2>1, FirstHalfRefines, SecondHalfRefines, DeathRefines DEF Next, Step
<1> QED
  BY <1>1, <1>2, TypedAlways, PTL DEF Spec, Contract!Safety
=============================================================================
