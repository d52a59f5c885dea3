----------------------------- MODULE UpdaterProofs -----------------------------
(***************************************************************************)
(* What the topology updater announces, for any number of relays: its      *)
(* types, and that a relay announces itself unless a longer name begins    *)
(* with its own.                                                           *)
(***************************************************************************)
EXTENDS Updater, TLAPS

(* A number that begins with k and is another one is at least ten times k. *)
LEMMA LongerNumber ==
    ASSUME NEW i \in Nat, NEW k \in Nat, HasPrefix(i, k), i # k
    PROVE  k > 0 /\ i >= 10 * k
<1>1. PICK p \in Powers : i \div p = k
  BY DEF HasPrefix
<1>2. k > 0
  BY DEF HasPrefix
<1>3. p \in Nat /\ p >= 10
  BY PowersOfTen
<1>4. i >= p * k
  BY <1>1, <1>3, Z3
<1>5. p * k >= 10 * k
  BY <1>2, <1>3, Z3
<1>6. p * k \in Nat
  BY <1>3
<1> QED
  BY <1>2, <1>4, <1>5, <1>6

-----------------------------------------------------------------------------
(* Where the copy is the relay's own, and the block a relay's that its     *)
(* name may stand for. *)

Starting == {"download", "new", "ended"}

(* The files are there before the copy is made, and the copy before the    *)
(* first hour has passed. *)
CopyMadeAfterDownload ==
    /\ pc = "new" => magic = "set"
    /\ pc \notin Starting => copy = [relay |-> me, magic |-> "set"]

(* The block that is announced is of a relay whose name begins with this   *)
(* one's. *)
BlockOfName == pc = "ping" => block \in Relays /\ HasPrefix(block, me)

(* What the service was told last. *)
SentOfName ==
    sent # Nothing =>
        /\ sent.block \in Relays /\ HasPrefix(sent.block, me)
        /\ sent = [port |-> Ports[me], block |-> sent.block, magic |-> "set"]

(* The inductive invariant. *)
IInv == TypeOK /\ CopyMadeAfterDownload /\ BlockOfName /\ SentOfName

LEMMA InitIInv == Init => IInv
BY DEF Init, IInv, TypeOK, Starting, CopyMadeAfterDownload, BlockOfName, SentOfName,
       Relays, NoCopy, Nothing, FailedAnswer

LEMMA StartIInv ==
    ASSUME IInv, Download \/ DownloadPanics \/ New
    PROVE  IInv'
BY DEF IInv, TypeOK, Starting, CopyMadeAfterDownload, BlockOfName, SentOfName,
       Download, DownloadPanics, New, Step

(* The job that is taken is of a relay whose name begins with the copy's.  *)
LEMMA QueryIInv ==
    ASSUME IInv, Tick \/ GetCardanoBlock \/ QueryFails \/ QueryPanics
    PROVE  IInv'
<1>1. CASE Tick \/ QueryFails \/ QueryPanics
  BY <1>1 DEF IInv, TypeOK, Starting, CopyMadeAfterDownload, BlockOfName, SentOfName,
              Tick, QueryFails, QueryPanics, Step, FailedAnswer
<1>2. CASE GetCardanoBlock
  <2>1. PICK job \in MetricJobs : Contains(job, copy.relay) /\ block' = job.node[2]
    BY <1>2 DEF GetCardanoBlock
  <2>2. PICK i \in Relays : job = Job(<<"relay", i>>, "cardano", MetricsPort)
    BY <2>1 DEF MetricJobs
  <2>3. job.node[2] = i
    BY <2>2 DEF Job
  <2>4. copy.relay = me
    BY <1>2 DEF GetCardanoBlock, Step, IInv, CopyMadeAfterDownload, Starting
  <2>5. block' \in Relays /\ HasPrefix(block', me)
    BY <2>1, <2>3, <2>4 DEF Contains
  <2>6. UNCHANGED <<me, magic, copy, sent, answer, verdict>> /\ pc = "query" /\ pc' = "ping"
    BY <1>2 DEF GetCardanoBlock, Step
  <2>7. BlockOfName'
    BY <2>5, <2>6 DEF BlockOfName, Relays, HasPrefix
  <2>8. SentOfName'
    BY <2>6 DEF SentOfName, IInv, HasPrefix, Relays, Nothing
  <2> QED
    BY <2>5, <2>6, <2>7, <2>8 DEF IInv, TypeOK, Starting, CopyMadeAfterDownload
<1> QED
  BY <1>1, <1>2

LEMMA AnnounceIInv ==
    ASSUME IInv, Announce \/ AnnounceFails \/ Judge
    PROVE  IInv'
<1>1. CASE Judge
  BY <1>1 DEF IInv, TypeOK, Starting, CopyMadeAfterDownload, BlockOfName, SentOfName,
              Judge, Step
<1>2. CASE Announce \/ AnnounceFails
  <2>1. /\ pc = "ping" /\ pc' = "answered"
        /\ UNCHANGED <<me, magic, copy, block, verdict>>
    BY <1>2 DEF Announce, AnnounceFails, Step
  <2>2. /\ copy = [relay |-> me, magic |-> "set"]
        /\ block \in Relays /\ HasPrefix(block, me)
    BY <2>1 DEF IInv, CopyMadeAfterDownload, BlockOfName, Starting
  <2>3. \/ sent' = [port |-> Ports[me], block |-> block, magic |-> "set"]
        \/ sent' = sent
    BY <1>2, <2>2 DEF Announce, AnnounceFails
  <2>4. SentOfName'
    BY <2>1, <2>2, <2>3 DEF SentOfName, IInv, HasPrefix, Relays, Nothing
  <2>5. answer' \in {FailedAnswer} \cup {Good(c) : c \in Codes}
    BY <1>2 DEF Announce, AnnounceFails
  <2>6. sent' = Nothing \/ sent'.block \in Relays
    BY <2>2, <2>3 DEF IInv, TypeOK
  <2>7. TypeOK'
    BY <2>1, <2>5, <2>6 DEF IInv, TypeOK
  <2> QED
    BY <2>1, <2>4, <2>7 DEF IInv, CopyMadeAfterDownload, BlockOfName, Starting
<1> QED
  BY <1>1, <1>2

THEOREM Inductive == Spec => []IInv
<1>1. IInv /\ [Next]_vars => IInv'
  <2> SUFFICES ASSUME IInv, [Next]_vars PROVE IInv'
    OBVIOUS
  <2>1. CASE Download \/ DownloadPanics \/ Loop
    BY <2>1, StartIInv, QueryIInv, AnnounceIInv DEF Loop
  <2>2. CASE Ended \/ UNCHANGED vars
    BY <2>2 DEF Ended, vars, IInv, TypeOK, CopyMadeAfterDownload, BlockOfName, SentOfName,
                Starting
  <2> QED
    BY <2>1, <2>2 DEF Next
<1> QED
  BY <1>1, InitIInv, PTL DEF Spec

(* Every variable keeps its type. *)
THEOREM TypeCorrect == Spec => []TypeOK
<1>1. IInv => TypeOK
  BY DEF IInv
<1> QED
  BY <1>1, Inductive, PTL

(* However many relays there are, and in whatever order Prometheus answers *)
(* (topologyupdater.go:87-93), a relay whose number no longer one begins   *)
(* with announces its own port, magic and block number.                    *)
THEOREM Announced == Spec => []AnnouncesItself
<1>1. IInv => AnnouncesItself
  <2> SUFFICES ASSUME IInv, sent # Nothing, me = 0 \/ 10 * me >= Count
               PROVE  sent = [port |-> Ports[me], block |-> me, magic |-> "set"]
    BY DEF AnnouncesItself
  <2>1. /\ sent.block \in Relays /\ HasPrefix(sent.block, me)
        /\ sent = [port |-> Ports[me], block |-> sent.block, magic |-> "set"]
    BY DEF IInv, SentOfName
  <2>2. me \in Nat /\ sent.block \in Nat /\ sent.block < Count /\ Count \in Nat
    BY <2>1, CountIsNat DEF IInv, TypeOK, Relays
  <2>3. sent.block = me
    BY <2>1, <2>2, LongerNumber
  <2> QED
    BY <2>1, <2>3
<1> QED
  BY <1>1, Inductive, PTL

(* With ten relays or fewer no relay's name begins another's: each one     *)
(* announces itself.                                                       *)
THEOREM UpToTenRelays ==
    ASSUME Count <= 10
    PROVE  Spec => [](sent # Nothing =>
                         sent = [port |-> Ports[me], block |-> me, magic |-> "set"])
<1>1. IInv /\ AnnouncesItself =>
         (sent # Nothing => sent = [port |-> Ports[me], block |-> me, magic |-> "set"])
  BY CountIsNat DEF IInv, TypeOK, Relays, AnnouncesItself
<1> QED
  BY <1>1, Inductive, Announced, PTL

(* With more of them the port and the magic are the relay's own all the    *)
(* same, and only the block number may be that of a relay whose name       *)
(* begins with this one's (topologyupdater.go:87-106).                     *)
THEOREM OnlyTheBlockMayBeAnothers ==
    Spec => [](sent # Nothing => /\ sent.port = Ports[me] /\ sent.magic = "set"
                                 /\ sent.block # me => me > 0 /\ sent.block >= 10 * me)
<1>1. IInv => (sent # Nothing => /\ sent.port = Ports[me] /\ sent.magic = "set"
                                 /\ sent.block # me => me > 0 /\ sent.block >= 10 * me)
  <2> SUFFICES ASSUME IInv, sent # Nothing
               PROVE  /\ sent.port = Ports[me] /\ sent.magic = "set"
                      /\ sent.block # me => me > 0 /\ sent.block >= 10 * me
    OBVIOUS
  <2>1. /\ sent.block \in Relays /\ HasPrefix(sent.block, me)
        /\ sent = [port |-> Ports[me], block |-> sent.block, magic |-> "set"]
    BY DEF IInv, SentOfName
  <2>2. me \in Nat /\ sent.block \in Nat
    BY <2>1, CountIsNat DEF IInv, TypeOK, Relays
  <2>3. sent.block # me => sent.block >= 10 * me /\ me > 0
    BY <2>1, <2>2, LongerNumber
  <2>4. sent.port = Ports[me] /\ sent.magic = "set"
    BY <2>1
  <2> QED
    BY <2>3, <2>4
<1> QED
  BY <1>1, Inductive, PTL
=============================================================================
