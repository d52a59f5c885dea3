------------------------------ MODULE RelayLists ------------------------------
(***************************************************************************)
(* The lists of relays the topology code passes around.  A relay of the    *)
(* model is one occurrence in the list it came from, so a list holds none  *)
(* of them twice.                                                          *)
(***************************************************************************)
EXTENDS Integers, FiniteSets, Functions

(* The lists that hold exactly the members of S, in any order. *)
Orders(S) == Bijection(1 .. Cardinality(S), S)

(* The lists of some members of S. *)
Lists(S) == UNION {Orders(T) : T \in SUBSET S}

(* NodeList.Less: latencies never decrease along the list.  sort.Sort is   *)
(* not stable, so every order that satisfies this is a possible outcome.   *)
SortedBy(list, latency) ==
    \A i, j \in DOMAIN list : i <= j => latency[list[i]] <= latency[list[j]]

(* What a latency test of the relays in C may return: the relays that lost *)
(* every packet, the relays that passed, and whether an error comes too.   *)
Results(C) == [lost : SUBSET C, ranked : Lists(C), failed : BOOLEAN]

NoResult == [lost |-> {}, ranked |-> <<>>, failed |-> FALSE]

(* Nobody is left to wait for: every relay of C is in the ranked list. *)
Complete(C, r) == Range(r.ranked) = C

(* A result the callers of a test can work with: no relay is both lost and *)
(* ranked, and a complete result comes without an error.                   *)
Acceptable(C) == {r \in Results(C) : /\ r.lost \cap Range(r.ranked) = {}
                                     /\ Complete(C, r) => ~r.failed}
=============================================================================
