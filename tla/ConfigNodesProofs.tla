--------------------------- MODULE ConfigNodesProofs ---------------------------
(***************************************************************************)
(* configNodes for any number of nodes and pools and whatever room append  *)
(* leaves: the host lists are right, a node's list begins with its pool's  *)
(* and loses an external host only to a later node that shares its array,  *)
(* and defaults do not meet.                                               *)
(*                                                                         *)
(* First come facts about the loops and about append; then the inductive   *)
(* invariant, which says that host lists share no array and that a node's  *)
(* list lies in its pool's array or in one no host list has; then one      *)
(* lemma for each step.                                                    *)
(***************************************************************************)
EXTENDS ConfigNodes, TLAPS

-----------------------------------------------------------------------------
(* Nodes and loops. *)

Kinds == {"enter", "link", "place"}

EntryType == [node : Nodes \cup {<<>>}, ext : Nat]

LEMMA NodeParts ==
    ASSUME NEW n \in Nodes
    PROVE  /\ n = <<n[1], n[2]>> /\ n[1] \in Roles
           /\ n[2] \in Nat /\ n[2] < NodeCount[n[1]]
           /\ NodeCount[n[1]] \in Nat
BY CountsAreNat DEF Nodes

LEMMA SameNode ==
    ASSUME NEW m \in Nodes, NEW n \in Nodes, m[1] = n[1], m[2] = n[2]
    PROVE  m = n
BY NodeParts

LEMMA OtherRole ==
    ASSUME NEW r \in Roles, NEW s \in Roles
    PROVE  Other(r) \in Roles /\ (Other(r) = Other(s) => r = s)
BY DEF Roles, Other

Loops == Kinds \X Roles

(* The order of the loops. *)
LEMMA RankTable ==
    /\ Rank(<<"enter", "producer">>) = 0 /\ Rank(<<"enter", "relay">>) = 1
    /\ Rank(<<"link", "producer">>) = 2 /\ Rank(<<"link", "relay">>) = 3
    /\ Rank(<<"place", "producer">>) = 4 /\ Rank(<<"place", "relay">>) = 5
    /\ Rank(Done) = 6
BY DEF Rank, Done

LEMMA AfterTable ==
    /\ After(<<"enter", "producer">>) = <<"enter", "relay">>
    /\ After(<<"enter", "relay">>) = <<"link", "producer">>
    /\ After(<<"link", "producer">>) = <<"link", "relay">>
    /\ After(<<"link", "relay">>) = <<"place", "producer">>
    /\ After(<<"place", "producer">>) = <<"place", "relay">>
    /\ After(<<"place", "relay">>) = Done
BY DEF After, Done

LEMMA LoopCases ==
    ASSUME NEW l \in Loops
    PROVE  \/ l = <<"enter", "producer">> \/ l = <<"enter", "relay">>
           \/ l = <<"link", "producer">> \/ l = <<"link", "relay">>
           \/ l = <<"place", "producer">> \/ l = <<"place", "relay">>
BY DEF Loops, Kinds, Roles

LEMMA RankOrder ==
    ASSUME NEW l \in Loops, NEW k \in Loops
    PROVE  /\ Rank(l) \in Nat
           /\ Rank(l) = Rank(k) => l = k
           /\ Rank(After(l)) = Rank(l) + 1
           /\ After(l) \in Loops \cup {Done}
<1>1. Rank(l) \in Nat /\ Rank(After(l)) = Rank(l) + 1
  BY LoopCases, RankTable, AfterTable
<1>2. Rank(l) = Rank(k) => l = k
  BY LoopCases, RankTable
<1>3. After(l) \in Loops \cup {Done}
  BY LoopCases, AfterTable DEF Loops, Kinds, Roles
<1> QED
  BY <1>1, <1>2, <1>3

(* The index stays within its loop. *)
LoopTyped ==
    /\ loop \in Loops \cup {Done}
    /\ i \in Nat
    /\ loop # Done => i <= NodeCount[loop[2]]

(* A step of a loop is through with its node, and with no other. *)
LEMMA PassedAdvance ==
    ASSUME LoopTyped, NEW kind \in Kinds, NEW n \in Nodes, At(kind, n), Advance
    PROVE  /\ LoopTyped'
           /\ ~Passed(kind, n)
           /\ \A k \in Kinds, m \in Nodes :
                 Passed(k, m)' <=> Passed(k, m) \/ (k = kind /\ m = n)
<1>1. /\ loop = <<kind, n[1]>> /\ i = n[2] /\ loop' = loop /\ i' = i + 1
      /\ n[1] \in Roles /\ n[2] \in Nat /\ n[2] < NodeCount[n[1]] /\ NodeCount[n[1]] \in Nat
  BY NodeParts DEF At, Advance
<1>2. loop \in Loops /\ loop # Done /\ loop[2] = n[1]
  BY <1>1 DEF Loops, Kinds, Done
<1>3. LoopTyped'
  BY <1>1, <1>2 DEF LoopTyped
<1>4. Rank(loop) \in Nat /\ Rank(loop)' = Rank(loop)
  BY <1>1, <1>2, RankOrder
<1>5. ~Passed(kind, n)
  BY <1>1, <1>4 DEF Passed
<1>6. ASSUME NEW k \in Kinds, NEW m \in Nodes
      PROVE  Passed(k, m)' <=> Passed(k, m) \/ (k = kind /\ m = n)
  <2>1. m[2] \in Nat /\ m[1] \in Roles
    BY NodeParts
  <2>2. loop = <<k, m[1]>> <=> k = kind /\ m[1] = n[1]
    BY <1>1
  <2>3. Passed(k, m) <=> \/ Rank(loop) > Rank(<<k, m[1]>>)
                         \/ k = kind /\ m[1] = n[1] /\ m[2] < i
    BY <2>2 DEF Passed
  <2>4. Passed(k, m)' <=> \/ Rank(loop) > Rank(<<k, m[1]>>)
                          \/ k = kind /\ m[1] = n[1] /\ m[2] < i + 1
    BY <1>1, <1>4, <2>2 DEF Passed
  <2>5. m[1] = n[1] /\ m[2] = i <=> m = n
    BY <1>1, SameNode
  <2> QED
    BY <1>1, <2>1, <2>3, <2>4, <2>5
<1> QED
  BY <1>3, <1>5, <1>6

(* The step to the next loop is through with none. *)
LEMMA PassedNext ==
    ASSUME LoopTyped, NextLoop
    PROVE  /\ LoopTyped'
           /\ \A k \in Kinds, m \in Nodes : Passed(k, m)' <=> Passed(k, m)
<1>1. loop \in Loops /\ i = NodeCount[loop[2]] /\ loop' = After(loop) /\ i' = 0
  BY DEF NextLoop, LoopTyped
<1>2. loop' \in Loops \cup {Done} /\ Rank(loop)' = Rank(loop) + 1 /\ Rank(loop) \in Nat
  BY <1>1, RankOrder
<1>3. LoopTyped'
  <2>1. loop' # Done => NodeCount[loop'[2]] \in Nat
    BY <1>2, CountsAreNat DEF Loops
  <2> QED
    BY <1>1, <1>2, <2>1 DEF LoopTyped
<1>4. ASSUME NEW k \in Kinds, NEW m \in Nodes
      PROVE  Passed(k, m)' <=> Passed(k, m)
  <2>1. m[2] \in Nat /\ <<k, m[1]>> \in Loops /\ m[2] < NodeCount[m[1]]
    BY NodeParts DEF Loops
  <2>2. Rank(<<k, m[1]>>) \in Nat /\ (Rank(loop) = Rank(<<k, m[1]>>) <=> loop = <<k, m[1]>>)
    BY <1>1, <2>1, RankOrder
  <2>3. loop = <<k, m[1]>> => m[2] < i
    BY <1>1, <2>1
  <2>4. Passed(k, m) <=> Rank(loop) >= Rank(<<k, m[1]>>)
    BY <1>2, <2>2, <2>3 DEF Passed
  <2>5. Passed(k, m)' <=> Rank(loop) + 1 > Rank(<<k, m[1]>>)
    BY <1>1, <1>2, <2>1 DEF Passed
  <2> QED
    BY <1>2, <2>2, <2>4, <2>5
<1> QED
  BY <1>3, <1>4

-----------------------------------------------------------------------------
(* Slices. *)

LEMMA SeqOf ==
    ASSUME NEW S, NEW n \in Nat, NEW f \in [1 .. n -> S]
    PROVE  f \in Seq(S) /\ Len(f) = n
OBVIOUS

Arrays == Seq(Seq(EntryType))

(* What a slice shows lies in its array. *)
Within(s, all) == /\ s \in [array : Nat, len : Nat] /\ s.array <= Len(all)
                  /\ s.len <= IF s.array = 0 THEN 0 ELSE Len(all[s.array])

(* t is an append of new to s: what s shows stays, and so does every place  *)
(* that is not one of those after it in its array.                         *)
Extended(s, new, t) ==
    /\ arrays' \in Arrays
    /\ Len(arrays') >= Len(arrays)
    /\ \A a \in 1 .. Len(arrays) :
          /\ Len(arrays'[a]) = Len(arrays[a])
          /\ \A k \in 1 .. Len(arrays[a]) :
                a # t.array \/ k <= s.len \/ k > s.len + Len(new)
                   => arrays'[a][k] = arrays[a][k]
    /\ \A a \in Len(arrays) + 1 .. Len(arrays') : Len(arrays'[a]) > 0
    /\ Within(t, arrays')
    /\ t.len = s.len + Len(new)
    /\ t.array = s.array \/ t.array = Len(arrays) + 1
    /\ \A k \in 1 .. s.len : arrays'[t.array][k] = arrays[s.array][k]
    /\ \A k \in s.len + 1 .. s.len + Len(new) : arrays'[t.array][k] = new[k - s.len]

LEMMA AppendExtends ==
    ASSUME arrays \in Arrays,
           NEW s, Within(s, arrays),
           NEW new \in Seq(EntryType),
           WriteAppended(s, new)
    PROVE  Extended(s, new, Appended(s, new))
<1> DEFINE t == Appended(s, new)
           n == Len(new)
<1>1. n \in Nat /\ s.len \in Nat /\ s.array \in 0 .. Len(arrays) /\ Len(arrays) \in Nat
  BY DEF Within, Arrays
<1>2. \A a \in 1 .. Len(arrays) : arrays[a] \in Seq(EntryType) /\ Len(arrays[a]) \in Nat
  BY DEF Arrays
<1>3. NoEntry \in EntryType
  BY DEF NoEntry, EntryType
<1>4. CASE Fits(s, n) /\ WriteInPlace(s, new)
  <2>1. t = [array |-> s.array, len |-> s.len + n]
    BY <1>4 DEF Appended
  <2>2. s.array = 0 => n = 0 /\ s.len = 0
    BY <1>4 DEF Fits, Within
  <2>3. s.array # 0 => s.len + n <= Len(arrays[s.array])
    BY <1>4 DEF Fits
  <2>4. arrays' = [a \in 1 .. Len(arrays) |-> [k \in 1 .. Len(arrays[a]) |->
                     IF a = s.array /\ k \in s.len + 1 .. s.len + n
                     THEN new[k - s.len] ELSE arrays[a][k]]]
    BY <1>2, <1>4 DEF WriteInPlace, Arrays
  <2>5. \A a \in 1 .. Len(arrays) : arrays'[a] \in Seq(EntryType) /\ Len(arrays'[a]) = Len(arrays[a])
    <3> TAKE a \in 1 .. Len(arrays)
    <3>1. arrays'[a] = [k \in 1 .. Len(arrays[a]) |->
                          IF a = s.array /\ k \in s.len + 1 .. s.len + n
                          THEN new[k - s.len] ELSE arrays[a][k]]
      BY <2>4
    <3>2. \A k \in 1 .. Len(arrays[a]) : arrays'[a][k] \in EntryType
      BY <1>1, <1>2, <3>1
    <3>3. arrays'[a] \in [1 .. Len(arrays[a]) -> EntryType]
      BY <3>1, <3>2
    <3> QED
      BY <1>2, <3>3, SeqOf
  <2>6. arrays' \in Arrays /\ Len(arrays') = Len(arrays)
    <3>1. arrays' \in [1 .. Len(arrays) -> Seq(EntryType)]
      BY <2>4, <2>5
    <3> QED
      BY <1>1, <3>1, SeqOf DEF Arrays
  <2>7. \A a \in 1 .. Len(arrays) : \A k \in 1 .. Len(arrays[a]) :
           a # s.array \/ k <= s.len \/ k > s.len + n => arrays'[a][k] = arrays[a][k]
    BY <1>1, <1>2, <2>4
  <2>8. \A k \in s.len + 1 .. s.len + n : arrays'[t.array][k] = new[k - s.len]
    <3> TAKE k \in s.len + 1 .. s.len + n
    <3>1. s.array \in 1 .. Len(arrays) /\ k \in 1 .. Len(arrays[s.array])
      BY <1>1, <1>2, <2>2, <2>3
    <3> QED
      BY <2>1, <2>4, <3>1
  <2>9. \A k \in 1 .. s.len : arrays'[t.array][k] = arrays[s.array][k]
    <3> TAKE k \in 1 .. s.len
    <3>1. s.array \in 1 .. Len(arrays) /\ k \in 1 .. Len(arrays[s.array])
      BY <1>1, <1>2, <2>2, <2>3
    <3> QED
      BY <2>1, <2>7, <3>1
  <2>10. Within(t, arrays')
    BY <1>1, <2>1, <2>2, <2>3, <2>5, <2>6 DEF Within
  <2> QED
    BY <1>1, <2>1, <2>5, <2>6, <2>7, <2>8, <2>9, <2>10 DEF Extended
<1>5. CASE ~Fits(s, n) /\ WriteElsewhere(s, new)
  <2> DEFINE at(spare) == [k \in 1 .. s.len + n + spare |->
                             IF k <= s.len THEN arrays[s.array][k]
                             ELSE IF k <= s.len + n THEN new[k - s.len]
                             ELSE NoEntry]
  <2>1. PICK spare \in 0 .. MaxSpare : arrays' = Append(arrays, at(spare))
    BY <1>5 DEF WriteElsewhere
  <2>2. spare \in Nat
    BY <2>1, CapacityPositive
  <2>3. \A k \in 1 .. s.len + n + spare : at(spare)[k] \in EntryType
    <3> TAKE k \in 1 .. s.len + n + spare
    <3>1. CASE k <= s.len
      <4>1. arrays[s.array] \in Seq(EntryType) /\ k \in 1 .. Len(arrays[s.array])
        BY <1>1, <1>2, <2>2, <3>1 DEF Within
      <4> QED
        BY <3>1, <4>1
    <3>2. CASE ~(k <= s.len) /\ k <= s.len + n
      <4>1. k - s.len \in 1 .. n
        BY <1>1, <2>2, <3>2
      <4> QED
        BY <3>2, <4>1
    <3>3. CASE ~(k <= s.len) /\ ~(k <= s.len + n)
      BY <1>3, <3>3
    <3> QED
      BY <3>1, <3>2, <3>3
  <2>4. at(spare) \in Seq(EntryType) /\ Len(at(spare)) = s.len + n + spare
    <3>1. s.len + n + spare \in Nat
      BY <1>1, <2>2
    <3>2. at(spare) = [k \in 1 .. s.len + n + spare |-> at(spare)[k]]
      OBVIOUS
    <3> HIDE DEF at
    <3>3. at(spare) \in [1 .. s.len + n + spare -> EntryType]
      BY <2>3, <3>2
    <3> QED
      BY <3>1, <3>3, SeqOf
  <2>5. t = [array |-> Len(arrays) + 1, len |-> s.len + n]
    BY <1>5 DEF Appended
  <2>6. /\ \A k \in 1 .. s.len : at(spare)[k] = arrays[s.array][k]
        /\ \A k \in s.len + 1 .. s.len + n : at(spare)[k] = new[k - s.len]
    <3>1. \A k \in s.len + 1 .. s.len + n : k \in 1 .. s.len + n + spare /\ ~(k <= s.len)
                                             /\ k <= s.len + n
      BY <1>1, <2>2
    <3>2. \A k \in 1 .. s.len : k \in 1 .. s.len + n + spare /\ k <= s.len
      BY <1>1, <2>2
    <3>3. \A k \in 1 .. s.len : at(spare)[k] = arrays[s.array][k]
      BY <3>2
    <3>4. \A k \in s.len + 1 .. s.len + n : at(spare)[k] = new[k - s.len]
      BY <3>1
    <3> QED
      BY <3>3, <3>4
  <2> HIDE DEF at
  <2>7. /\ arrays' \in Arrays /\ Len(arrays') = Len(arrays) + 1
        /\ \A a \in 1 .. Len(arrays) : arrays'[a] = arrays[a]
        /\ arrays'[Len(arrays) + 1] = at(spare)
    BY <1>1, <2>1, <2>4 DEF Arrays
  <2>8. Within(t, arrays')
    BY <1>1, <2>2, <2>4, <2>5, <2>7 DEF Within
  <2>9. s.len + n + spare > 0
    BY <1>1, <1>2, <1>5, <2>2 DEF Fits, Within
  <2> QED
    BY <1>1, <2>4, <2>5, <2>6, <2>7, <2>8, <2>9 DEF Extended
<1> QED
  BY <1>4, <1>5 DEF WriteAppended

-----------------------------------------------------------------------------
(* The inductive invariant. *)

(* The k-th element that a slice shows. *)
Elem(s, k) == arrays[s.array][k]

SettingsTyped ==
    /\ setting \in [Nodes -> Settings]
    /\ port \in [Nodes -> Nat] /\ rtPort \in [Nodes -> Nat]

SlicesTyped ==
    /\ arrays \in Arrays
    /\ \A a \in 1 .. Len(arrays) : Len(arrays[a]) > 0
    /\ hosts \in [Roles -> [Pools -> [array : Nat, len : Nat]]]
    /\ list \in [Nodes -> [array : Nat, len : Nat]]
    /\ \A r \in Roles, p \in Pools : Within(hosts[r][p], arrays)
    /\ \A n \in Nodes : Within(list[n], arrays)

(* No two host lists share an array. *)
HostsApart ==
    \A r, s \in Roles, p, q \in Pools :
       hosts[r][p].array # 0 /\ hosts[r][p].array = hosts[s][q].array => r = s /\ p = q

Entered(r, p) == {m \in Nodes : m[1] = r /\ PoolOf(m) = p /\ Passed("enter", m)}

(* A host list has an entry for each node that was entered, and only one.  *)
HostsNamed ==
    \A r \in Roles, p \in Pools :
       LET h == hosts[r][p]
       IN  /\ \A k \in 1 .. h.len : \E m \in Entered(r, p) : Elem(h, k) = Entry(m, 0)
           /\ \A m \in Entered(r, p) : \E k \in 1 .. h.len : Elem(h, k) = Entry(m, 0)
           /\ \A j, k \in 1 .. h.len : Elem(h, j) = Elem(h, k) => j = k

(* The list of a node that was linked begins as its pool's, goes on with   *)
(* external hosts of nodes that share its array, each in its own place,    *)
(* and lies in its pool's array or in one that no host list has.           *)
LinkedWell(n) ==
    LET own == list[n]
        pool == PoolHosts(n)
    IN  /\ own.len = pool.len + setting[n].exts
        /\ \A k \in 1 .. pool.len : Elem(own, k) = Elem(pool, k)
        /\ \A k \in pool.len + 1 .. own.len :
              \E m \in Sharers(n) : Elem(own, k) = Entry(m, k - pool.len)
        /\ Overwritten(n) \/ \A k \in pool.len + 1 .. own.len :
                                Elem(own, k) = Entry(n, k - pool.len)
        /\ \/ own.array = pool.array
           \/ \A r \in Roles, p \in Pools : own.array # hosts[r][p].array

ListsLinked == \A n \in Nodes : Passed("link", n) => LinkedWell(n)

IInv == /\ SettingsTyped /\ LoopTyped /\ SlicesTyped
        /\ HostsApart /\ HostsNamed /\ ListsLinked

LEMMA PoolIn ==
    ASSUME SettingsTyped, NEW n \in Nodes
    PROVE  PoolOf(n) \in Pools /\ setting[n].exts \in Nat /\ setting[n] \in Settings
BY SettingsRead DEF SettingsTyped, PoolOf, Pools

LEMMA EntryTyped ==
    ASSUME NEW n \in Nodes, NEW k \in Nat
    PROVE  Entry(n, k) \in EntryType /\ Entry(n, k).node = n
BY DEF Entry, EntryType

LEMMA ExtsTyped ==
    ASSUME SettingsTyped, NEW n \in Nodes
    PROVE  /\ Exts(n) \in Seq(EntryType) /\ Len(Exts(n)) = setting[n].exts
           /\ \A k \in 1 .. setting[n].exts : Exts(n)[k] = Entry(n, k)
<1>1. setting[n].exts \in Nat
  BY PoolIn
<1>2. \A k \in 1 .. setting[n].exts : Exts(n)[k] = Entry(n, k)
  BY DEF Exts
<1>3. Exts(n) = [k \in 1 .. setting[n].exts |-> Exts(n)[k]]
  BY DEF Exts
<1>4. \A k \in 1 .. setting[n].exts : Exts(n)[k] \in EntryType
  BY <1>1, <1>2, EntryTyped
<1>5. Exts(n) \in [1 .. setting[n].exts -> EntryType]
  BY <1>3, <1>4
<1> QED
  BY <1>1, <1>2, <1>5, SeqOf

(* While nodes are entered none is linked. *)
LEMMA EnterBeforeLink ==
    ASSUME NEW n \in Nodes, At("enter", n), NEW m \in Nodes
    PROVE  ~Passed("link", m)
<1>1. loop = <<"enter", "producer">> \/ loop = <<"enter", "relay">>
  BY NodeParts DEF At, Roles
<1>2. m[1] = "producer" \/ m[1] = "relay"
  BY NodeParts DEF Roles
<1> QED
  BY <1>1, <1>2, RankTable DEF Passed

(* What an append to one host list leaves of every other slice. *)
LEMMA OthersStay ==
    ASSUME SlicesTyped, NEW s, Within(s, arrays), NEW new \in Seq(EntryType), NEW t,
           Extended(s, new, t),
           NEW u, Within(u, arrays), u.array # s.array \/ u.len <= s.len
    PROVE  /\ Within(u, arrays')
           /\ \A k \in 1 .. u.len : arrays'[u.array][k] = arrays[u.array][k]
<1>1. Len(arrays) \in Nat /\ u.array \in Nat /\ u.len \in Nat /\ s.len \in Nat /\ Len(new) \in Nat
  BY DEF SlicesTyped, Arrays, Within
<1>2. CASE u.array = 0
  BY <1>1, <1>2 DEF Within, Extended, Arrays
<1>3. CASE u.array # 0
  <2>1. u.array \in 1 .. Len(arrays) /\ u.len <= Len(arrays[u.array])
    BY <1>1, <1>3 DEF Within
  <2>2. arrays[u.array] \in Seq(EntryType)
    BY <2>1 DEF SlicesTyped, Arrays
  <2>3. \A k \in 1 .. u.len : k \in 1 .. Len(arrays[u.array])
    BY <1>1, <2>1, <2>2
  <2>4. Within(u, arrays')
    BY <1>1, <1>3, <2>1 DEF Within, Extended, Arrays
  <2>5. \A k \in 1 .. u.len : u.array # s.array \/ k <= s.len
    BY <1>1
  <2> QED
    BY <2>1, <2>3, <2>4, <2>5 DEF Extended
<1> QED
  BY <1>2, <1>3

-----------------------------------------------------------------------------
(* Entering a node. *)

(* The first node makes a list of one, which extends the empty one. *)
LEMMA FirstExtends ==
    ASSUME IInv, NEW n \in Nodes, EnterFirst(n)
    PROVE  Extended(hosts[n[1]][PoolOf(n)], <<Entry(n, 0)>>,
                    [array |-> Len(arrays) + 1, len |-> 1])
<1> DEFINE new == [k \in 1 .. Capacity |-> IF k = 1 THEN Entry(n, 0) ELSE NoEntry]
           t == [array |-> Len(arrays) + 1, len |-> 1]
<1>1. hosts[n[1]][PoolOf(n)] = [array |-> 0, len |-> 0] /\ arrays' = Append(arrays, new)
  BY DEF EnterFirst, Nil
<1>2. Capacity \in Nat /\ Capacity >= 1 /\ Len(arrays) \in Nat
  BY CapacityPositive DEF IInv, SlicesTyped, Arrays
<1>3. new \in [1 .. Capacity -> EntryType]
  BY EntryTyped DEF NoEntry, EntryType
<1>4. new[1] = Entry(n, 0)
  BY <1>2
<1> HIDE DEF new
<1>5. new \in Seq(EntryType) /\ Len(new) = Capacity
  BY <1>2, <1>3, SeqOf
<1>6. /\ arrays' \in Arrays /\ Len(arrays') = Len(arrays) + 1
      /\ \A a \in 1 .. Len(arrays) : arrays'[a] = arrays[a]
      /\ arrays'[Len(arrays) + 1] = new
  BY <1>1, <1>2, <1>5 DEF IInv, SlicesTyped, Arrays
<1>7. Within(t, arrays')
  BY <1>2, <1>5, <1>6 DEF Within
<1>8. Len(<<Entry(n, 0)>>) = 1 /\ <<Entry(n, 0)>>[1] = Entry(n, 0)
  OBVIOUS
<1>9. \A k \in 0 + 1 .. 0 + 1 : k = 1 /\ k - 0 = 1
  OBVIOUS
<1>10. t.array = Len(arrays) + 1 /\ t.len = 0 + 1
  OBVIOUS
<1> HIDE DEF t
<1> QED
  BY <1>1, <1>2, <1>4, <1>5, <1>6, <1>7, <1>8, <1>9, <1>10 DEF Extended, t

(* Ports are numbers. *)
LEMMA PortsTyped ==
    ASSUME SettingsTyped, NEW n \in Nodes, SetPorts(n), UNCHANGED setting
    PROVE  SettingsTyped'
<1> DEFINE s == setting[n]
           above == Offset(n[1]) + n[2]
<1>1. s \in Settings /\ s.port \in Nat /\ s.rtPort \in Nat
  BY PoolIn, SettingsRead
<1>2. above \in Nat
  BY NodeParts DEF Offset
<1>3. PortBase(s.network) \in Nat /\ RTPortBase(s.network) \in Nat
  BY BasesAreNat DEF PortBase, RTPortBase, OrDefault
<1>4. port' = [port EXCEPT ![n] = OrDefault(s.port, PortBase(s.network) + above)]
  BY DEF SetPorts
<1>5. rtPort' = [rtPort EXCEPT ![n] = OrDefault(s.rtPort, RTPortBase(s.network) + 600 + above)]
  BY DEF SetPorts
<1> HIDE DEF s, above
<1> QED
  BY <1>1, <1>2, <1>3, <1>4, <1>5 DEF SettingsTyped, OrDefault

(* Both ways of entering put an extension of the list into the map. *)
LEMMA EnterExtends ==
    ASSUME IInv, NEW n \in Nodes, EnterFirst(n) \/ EnterNext(n)
    PROVE  /\ At("enter", n) /\ Advance /\ SetPorts(n)
           /\ UNCHANGED <<setting, list>>
           /\ \E t : /\ Extended(hosts[n[1]][PoolOf(n)], <<Entry(n, 0)>>, t)
                     /\ t.array # 0
                     /\ hosts' = [hosts EXCEPT ![n[1]][PoolOf(n)] = t]
<1>1. CASE EnterFirst(n)
  <2>1. Len(arrays) + 1 # 0
    BY DEF IInv, SlicesTyped, Arrays
  <2> QED
    BY <1>1, <2>1, FirstExtends DEF EnterFirst, Advance
<1>2. CASE EnterNext(n)
  <2> DEFINE pool == hosts[n[1]][PoolOf(n)]
             t == Appended(pool, <<Entry(n, 0)>>)
  <2>1. n[1] \in Roles /\ PoolOf(n) \in Pools
    BY NodeParts, PoolIn DEF IInv
  <2>2. Within(pool, arrays) /\ arrays \in Arrays
    BY <2>1 DEF IInv, SlicesTyped
  <2>3. <<Entry(n, 0)>> \in Seq(EntryType)
    BY EntryTyped
  <2>4. Extended(pool, <<Entry(n, 0)>>, t)
    BY <1>2, <2>2, <2>3, AppendExtends DEF EnterNext
  <2>5. pool.array # 0
    BY <1>2, <2>2 DEF EnterNext, Within, Nil
  <2>6. t.array # 0
    BY <2>2, <2>4, <2>5 DEF Extended, Arrays
  <2>7. hosts' = [hosts EXCEPT ![n[1]][PoolOf(n)] = t]
    BY <1>2 DEF EnterNext
  <2> QED
    BY <1>2, <2>4, <2>6, <2>7 DEF EnterNext, Advance
<1> QED
  BY <1>1, <1>2

LEMMA EnterIInv ==
    ASSUME IInv, NEW n \in Nodes, EnterFirst(n) \/ EnterNext(n)
    PROVE  IInv'
<1> DEFINE role == n[1]
           name == PoolOf(n)
           pool == hosts[role][name]
           new == <<Entry(n, 0)>>
<1>1. /\ At("enter", n) /\ Advance /\ SetPorts(n) /\ UNCHANGED <<setting, list>>
  BY EnterExtends
<1>2. PICK t : /\ Extended(pool, new, t) /\ t.array # 0
               /\ hosts' = [hosts EXCEPT ![role][name] = t]
  BY EnterExtends
<1>3. /\ role \in Roles /\ name \in Pools /\ Within(pool, arrays)
      /\ pool.array \in Nat /\ pool.len \in Nat /\ Len(arrays) \in Nat
  BY NodeParts, PoolIn DEF IInv, SlicesTyped, Within, Arrays
<1>4. new \in Seq(EntryType) /\ Len(new) = 1 /\ new[1] = Entry(n, 0)
  BY EntryTyped
<1>5. /\ LoopTyped' /\ ~Passed("enter", n)
      /\ \A k \in Kinds, m \in Nodes : Passed(k, m)' <=> Passed(k, m) \/ (k = "enter" /\ m = n)
  BY <1>1, PassedAdvance DEF IInv, Kinds
<1>6. \A m \in Nodes : PoolOf(m)' = PoolOf(m)
  BY <1>1 DEF PoolOf
<1>7. Pools' = Pools
  OBVIOUS
<1>8. /\ hosts' \in [Roles -> [Pools -> [array : Nat, len : Nat]]]
      /\ hosts'[role][name] = t
      /\ \A r \in Roles, p \in Pools : r # role \/ p # name => hosts'[r][p] = hosts[r][p]
  <2>1. t \in [array : Nat, len : Nat]
    BY <1>2 DEF Extended, Within
  <2> QED
    BY <1>2, <1>3, <2>1 DEF IInv, SlicesTyped
(* The other host lists lie in other arrays. *)
<1>9. \A r \in Roles, p \in Pools : r # role \/ p # name =>
         LET h == hosts[r][p]
         IN  /\ Within(h, arrays')
             /\ \A k \in 1 .. h.len : arrays'[h.array][k] = arrays[h.array][k]
  <2> SUFFICES ASSUME NEW r \in Roles, NEW p \in Pools, r # role \/ p # name
               PROVE  /\ Within(hosts[r][p], arrays')
                      /\ \A k \in 1 .. hosts[r][p].len :
                            arrays'[hosts[r][p].array][k] = arrays[hosts[r][p].array][k]
    OBVIOUS
  <2>1. Within(hosts[r][p], arrays)
    BY DEF IInv, SlicesTyped
  <2>2. hosts[r][p].array # pool.array \/ hosts[r][p].len <= pool.len
    BY <1>3, <2>1 DEF IInv, HostsApart, Within
  <2>3. SlicesTyped
    BY DEF IInv
  <2> HIDE DEF pool, new
  <2> QED
    BY <1>2, <1>3, <1>4, <2>1, <2>2, <2>3, OthersStay
<1>10. /\ t.len = pool.len + 1
       /\ \A k \in 1 .. pool.len : arrays'[t.array][k] = arrays[pool.array][k]
       /\ arrays'[t.array][pool.len + 1] = Entry(n, 0)
  <2>1. \A k \in pool.len + 1 .. pool.len + 1 : k - pool.len = 1
    BY <1>3
  <2>2. pool.len + 1 \in pool.len + 1 .. pool.len + 1
    BY <1>3
  <2> HIDE DEF pool, new
  <2> QED
    BY <1>2, <1>3, <1>4, <2>1, <2>2 DEF Extended
<1>11. /\ arrays' \in Arrays /\ Within(t, arrays')
       /\ Len(arrays') >= Len(arrays) /\ Len(arrays') \in Nat
       /\ \A a \in 1 .. Len(arrays) : Len(arrays'[a]) = Len(arrays[a])
       /\ \A a \in Len(arrays) + 1 .. Len(arrays') : Len(arrays'[a]) > 0
  BY <1>2 DEF Extended, Arrays
<1>12. SlicesTyped'
  <2>1. \A a \in 1 .. Len(arrays') : Len(arrays'[a]) > 0
    BY <1>3, <1>11 DEF IInv, SlicesTyped
  <2>2. \A r \in Roles, p \in Pools : Within(hosts'[r][p], arrays')
    BY <1>8, <1>9, <1>11
  <2>3. \A m \in Nodes : Within(list[m], arrays')
    BY <1>3, <1>11 DEF IInv, SlicesTyped, Within
  <2> QED
    BY <1>1, <1>7, <1>8, <1>11, <2>1, <2>2, <2>3 DEF IInv, SlicesTyped
<1>13. HostsApart'
  <2>1. \A r \in Roles, p \in Pools : hosts[r][p].array <= Len(arrays)
    BY DEF IInv, SlicesTyped, Within
  <2>2. t.array = pool.array \/ t.array = Len(arrays) + 1
    BY <1>2 DEF Extended
  <2>3. ASSUME NEW r \in Roles, NEW s \in Roles, NEW p \in Pools, NEW q \in Pools,
               hosts'[r][p].array # 0, hosts'[r][p].array = hosts'[s][q].array
        PROVE  r = s /\ p = q
    <3> HIDE DEF pool, new
    <3>1. CASE r = role /\ p = name /\ ~(s = role /\ q = name)
      <4>1. hosts'[s][q] = hosts[s][q] /\ hosts[s][q].array <= Len(arrays)
        BY <1>8, <2>1, <3>1
      <4>2. t.array = hosts[s][q].array
        BY <1>8, <2>3, <3>1, <4>1
      <4>3. pool.array = hosts[s][q].array /\ pool.array # 0
        BY <1>2, <1>3, <2>2, <4>1, <4>2
      <4> QED
        BY <1>3, <3>1, <4>3 DEF IInv, HostsApart, pool
    <3>2. CASE ~(r = role /\ p = name) /\ s = role /\ q = name
      <4>1. hosts'[r][p] = hosts[r][p] /\ hosts[r][p].array <= Len(arrays)
        BY <1>8, <2>1, <3>2
      <4>2. t.array = hosts[r][p].array
        BY <1>8, <2>3, <3>2, <4>1
      <4>3. pool.array = hosts[r][p].array /\ pool.array # 0
        BY <1>2, <1>3, <2>2, <4>1, <4>2
      <4> QED
        BY <1>3, <3>2, <4>3 DEF IInv, HostsApart, pool
    <3>3. CASE ~(r = role /\ p = name) /\ ~(s = role /\ q = name)
      <4>1. hosts'[r][p] = hosts[r][p] /\ hosts'[s][q] = hosts[s][q]
        BY <1>8, <3>3
      <4>2. hosts[r][p].array # 0 /\ hosts[r][p].array = hosts[s][q].array
        BY <2>3, <4>1
      <4> QED
        BY <4>2 DEF IInv, HostsApart
    <3> QED
      BY <3>1, <3>2, <3>3
  <2> QED
    BY <1>7, <2>3 DEF HostsApart
<1>14. HostsNamed'
  <2> SUFFICES ASSUME NEW r \in Roles, NEW p \in Pools
               PROVE  LET h == hosts'[r][p]
                          all == Entered(r, p)'
                      IN  /\ \A k \in 1 .. h.len : \E m \in all : arrays'[h.array][k] = Entry(m, 0)
                          /\ \A m \in all : \E k \in 1 .. h.len : arrays'[h.array][k] = Entry(m, 0)
                          /\ \A j, k \in 1 .. h.len :
                                arrays'[h.array][j] = arrays'[h.array][k] => j = k
    BY <1>7 DEF HostsNamed, Elem
  <2>1. /\ \A k \in 1 .. hosts[r][p].len : \E m \in Entered(r, p) :
              arrays[hosts[r][p].array][k] = Entry(m, 0)
        /\ \A m \in Entered(r, p) : \E k \in 1 .. hosts[r][p].len :
              arrays[hosts[r][p].array][k] = Entry(m, 0)
        /\ \A j, k \in 1 .. hosts[r][p].len :
              arrays[hosts[r][p].array][j] = arrays[hosts[r][p].array][k] => j = k
    BY DEF IInv, HostsNamed, Elem
  <2>2. CASE r = role /\ p = name
    <3>1. Entered(r, p)' = Entered(r, p) \cup {n}
      BY <1>5, <1>6, <2>2 DEF Entered, Kinds
    <3>2. hosts'[r][p] = t /\ hosts[r][p] = pool
      BY <1>8, <2>2
    <3>3. n \notin Entered(r, p)
      BY <1>5 DEF Entered
    <3>4. \A m \in Entered(r, p) : Entry(m, 0) # Entry(n, 0)
      BY <3>3 DEF Entry
    <3> HIDE DEF pool, new, role, name
    <3>5. \A k \in 1 .. t.len : k \in 1 .. pool.len \/ k = pool.len + 1
      BY <1>3, <1>10
    <3>6. (\A k \in 1 .. pool.len : k \in 1 .. t.len) /\ pool.len + 1 \in 1 .. t.len
      BY <1>3, <1>10
    <3>7. \A k \in 1 .. t.len : \E m \in Entered(r, p)' : arrays'[t.array][k] = Entry(m, 0)
      BY <1>10, <2>1, <3>1, <3>2, <3>5
    <3>8. \A m \in Entered(r, p)' : \E k \in 1 .. t.len : arrays'[t.array][k] = Entry(m, 0)
      BY <1>10, <2>1, <3>1, <3>2, <3>6
    <3>9. \A k \in 1 .. pool.len : arrays'[t.array][k] # Entry(n, 0)
      BY <1>10, <2>1, <3>2, <3>4
    <3>10. \A j, k \in 1 .. t.len : arrays'[t.array][j] = arrays'[t.array][k] => j = k
      BY <1>10, <2>1, <3>2, <3>5, <3>9
    <3> QED
      BY <3>2, <3>7, <3>8, <3>10
  <2>3. CASE r # role \/ p # name
    <3>1. Entered(r, p)' = Entered(r, p)
      BY <1>5, <1>6, <2>3 DEF Entered, Kinds
    <3>2. hosts'[r][p] = hosts[r][p]
      BY <1>8, <2>3
    <3>3. \A k \in 1 .. hosts[r][p].len :
             arrays'[hosts[r][p].array][k] = arrays[hosts[r][p].array][k]
      BY <1>9, <2>3
    <3> QED
      BY <2>1, <3>1, <3>2, <3>3
  <2> QED
    BY <2>2, <2>3
<1>15. ListsLinked'
  BY <1>1, <1>5, EnterBeforeLink DEF ListsLinked, Kinds
<1>16. SettingsTyped'
  BY <1>1, PortsTyped DEF IInv
<1> QED
  BY <1>5, <1>12, <1>13, <1>14, <1>15, <1>16 DEF IInv

-----------------------------------------------------------------------------
(* Linking a node. *)

(* Of two nodes of a role the one that was linked comes first. *)
LEMMA LinkedBefore ==
    ASSUME LoopTyped, NEW n \in Nodes, At("link", n),
           NEW m \in Nodes, m[1] = n[1], Passed("link", m)
    PROVE  m[2] < n[2]
<1>1. loop = <<"link", n[1]>> /\ i = n[2] /\ loop \in Loops
  BY NodeParts DEF At, Loops, Kinds
<1>2. Rank(loop) \in Nat
  BY <1>1, RankOrder
<1> QED
  BY <1>1, <1>2 DEF Passed

LEMMA LinkIInv ==
    ASSUME IInv, NEW n \in Nodes, Link(n)
    PROVE  IInv'
<1> DEFINE role == Other(n[1])
           name == PoolOf(n)
           pool == hosts[role][name]
           new == Exts(n)
           t == Appended(pool, new)
<1>1. /\ At("link", n) /\ Advance /\ UNCHANGED <<setting, hosts, port, rtPort>>
      /\ WriteAppended(pool, new) /\ list' = [list EXCEPT ![n] = t]
  BY DEF Link, Advance
<1>2. /\ role \in Roles /\ name \in Pools /\ Within(pool, arrays)
      /\ pool.array \in Nat /\ pool.len \in Nat /\ Len(arrays) \in Nat
  BY NodeParts, OtherRole, PoolIn DEF IInv, SlicesTyped, Within, Arrays
<1>3. /\ new \in Seq(EntryType) /\ Len(new) = setting[n].exts /\ setting[n].exts \in Nat
      /\ \A k \in 1 .. setting[n].exts : new[k] = Entry(n, k)
  BY ExtsTyped, PoolIn DEF IInv
<1>4. Extended(pool, new, t)
  BY <1>1, <1>2, <1>3, AppendExtends DEF IInv, SlicesTyped
<1>5. /\ LoopTyped'
      /\ \A k \in Kinds, m \in Nodes : Passed(k, m)' <=> Passed(k, m) \/ (k = "link" /\ m = n)
  BY <1>1, PassedAdvance DEF IInv, Kinds
<1>6. /\ \A m \in Nodes : PoolOf(m)' = PoolOf(m) /\ PoolHosts(m)' = PoolHosts(m)
      /\ PoolHosts(n) = pool
  BY <1>1 DEF PoolOf, PoolHosts
<1>7. Pools' = Pools
  OBVIOUS
<1>8. list'[n] = t /\ \A m \in Nodes : m # n => list'[m] = list[m]
  BY <1>1 DEF IInv, SlicesTyped
<1>9. /\ arrays' \in Arrays /\ Within(t, arrays')
      /\ Len(arrays') >= Len(arrays) /\ Len(arrays') \in Nat
      /\ \A a \in 1 .. Len(arrays) : Len(arrays'[a]) = Len(arrays[a])
      /\ \A a \in Len(arrays) + 1 .. Len(arrays') : Len(arrays'[a]) > 0
      /\ t.len = pool.len + setting[n].exts
      /\ t.array = pool.array \/ t.array = Len(arrays) + 1
      /\ \A k \in 1 .. pool.len : arrays'[t.array][k] = arrays[pool.array][k]
      /\ \A k \in pool.len + 1 .. pool.len + setting[n].exts :
            arrays'[t.array][k] = new[k - pool.len]
  BY <1>3, <1>4 DEF Extended, Arrays
<1>10. \A a \in 1 .. Len(arrays) : \A k \in 1 .. Len(arrays[a]) :
          a # t.array \/ k <= pool.len \/ k > pool.len + setting[n].exts
             => arrays'[a][k] = arrays[a][k]
  BY <1>3, <1>4 DEF Extended
(* No host list sees the append. *)
<1>11. \A r \in Roles, p \in Pools :
          LET h == hosts[r][p]
          IN  /\ Within(h, arrays')
              /\ \A k \in 1 .. h.len : arrays'[h.array][k] = arrays[h.array][k]
  <2> SUFFICES ASSUME NEW r \in Roles, NEW p \in Pools
               PROVE  /\ Within(hosts[r][p], arrays')
                      /\ \A k \in 1 .. hosts[r][p].len :
                            arrays'[hosts[r][p].array][k] = arrays[hosts[r][p].array][k]
    OBVIOUS
  <2>1. Within(hosts[r][p], arrays) /\ SlicesTyped
    BY DEF IInv, SlicesTyped
  <2>2. hosts[r][p].array # pool.array \/ hosts[r][p].len <= pool.len
    BY <1>2, <2>1 DEF IInv, HostsApart, Within
  <2> HIDE DEF pool, new, t
  <2> QED
    BY <1>2, <1>3, <1>4, <2>1, <2>2, OthersStay
<1>12. SlicesTyped'
  <2>1. \A a \in 1 .. Len(arrays') : Len(arrays'[a]) > 0
    BY <1>2, <1>9 DEF IInv, SlicesTyped
  <2>2. \A r \in Roles, p \in Pools : Within(hosts'[r][p], arrays')
    BY <1>1, <1>11
  <2>3. \A m \in Nodes : Within(list[m], arrays')
    BY <1>2, <1>9 DEF IInv, SlicesTyped, Within
  <2>4. list' \in [Nodes -> [array : Nat, len : Nat]]
    BY <1>1, <1>9 DEF IInv, SlicesTyped, Within
  <2>5. \A m \in Nodes : Within(list'[m], arrays')
    BY <1>8, <1>9, <2>3
  <2> QED
    BY <1>1, <1>7, <1>9, <2>1, <2>2, <2>4, <2>5 DEF IInv, SlicesTyped
<1>13. HostsApart'
  BY <1>1, <1>7 DEF IInv, HostsApart
<1>14. HostsNamed'
  <2>1. \A r \in Roles, p \in Pools : Entered(r, p)' = Entered(r, p)
    BY <1>5, <1>6 DEF Entered, Kinds
  <2> QED
    BY <1>1, <1>7, <1>11, <2>1 DEF IInv, HostsNamed, Elem
<1>15. ASSUME NEW m \in Nodes, Passed("link", m)'
       PROVE  LinkedWell(m)'
  <2> DEFINE own == list[m]
             h == PoolHosts(m)
  <2>1. /\ h \in [array : Nat, len : Nat] /\ h.len \in Nat /\ h.array <= Len(arrays)
        /\ \A k \in 1 .. h.len : arrays'[h.array][k] = arrays[h.array][k]
        /\ \E r \in Roles, p \in Pools : h = hosts[r][p] /\ r = Other(m[1]) /\ p = PoolOf(m)
    BY <1>11, NodeParts, OtherRole, PoolIn DEF PoolHosts, IInv, SlicesTyped, Within
  <2> SUFFICES LET o == list'[m]
               IN  /\ o.len = h.len + setting[m].exts
                   /\ \A k \in 1 .. h.len : arrays'[o.array][k] = arrays'[h.array][k]
                   /\ \A k \in h.len + 1 .. o.len :
                         \E l \in Sharers(m)' : arrays'[o.array][k] = Entry(l, k - h.len)
                   /\ Overwritten(m)' \/ \A k \in h.len + 1 .. o.len :
                                            arrays'[o.array][k] = Entry(m, k - h.len)
                   /\ \/ o.array = h.array
                      \/ \A r \in Roles, p \in Pools : o.array # hosts[r][p].array
    BY <1>1, <1>6, <1>7 DEF LinkedWell, Elem
  <2>2. CASE m = n
    <3>1. list'[m] = t /\ h = pool
      BY <1>6, <1>8, <2>2
    <3>2. \A k \in 1 .. pool.len : arrays'[t.array][k] = arrays'[pool.array][k]
      BY <1>2, <1>9, <1>11
    <3>3. \A k \in pool.len + 1 .. t.len : arrays'[t.array][k] = Entry(n, k - pool.len)
      <4> HIDE DEF pool, new, t
      <4>1. \A k \in pool.len + 1 .. t.len : k - pool.len \in 1 .. setting[n].exts
        BY <1>2, <1>3, <1>9
      <4> QED
        BY <1>3, <1>9, <4>1
    <3>4. t.array = pool.array \/ \A r \in Roles, p \in Pools : t.array # hosts[r][p].array
      BY <1>2, <1>9 DEF IInv, SlicesTyped, Within
    <3>5. n \in Sharers(n)'
      <4>1. n[2] >= n[2] /\ Passed("link", n)'
        BY <1>15, <2>2, NodeParts
      <4> QED
        BY <4>1 DEF Sharers
    <3> QED
      BY <1>9, <2>2, <3>1, <3>2, <3>3, <3>4, <3>5
  <2>3. CASE m # n
    <3>1. LinkedWell(m) /\ Passed("link", m) /\ list'[m] = own
      BY <1>5, <1>8, <1>15, <2>3 DEF IInv, ListsLinked, Kinds
    <3>2. /\ own.len = h.len + setting[m].exts
          /\ \A k \in 1 .. h.len : arrays[own.array][k] = arrays[h.array][k]
          /\ \A k \in h.len + 1 .. own.len :
                \E l \in Sharers(m) : arrays[own.array][k] = Entry(l, k - h.len)
          /\ Overwritten(m) \/ \A k \in h.len + 1 .. own.len :
                                  arrays[own.array][k] = Entry(m, k - h.len)
          /\ \/ own.array = h.array
             \/ \A r \in Roles, p \in Pools : own.array # hosts[r][p].array
      BY <3>1 DEF LinkedWell, Elem
    <3>3. /\ Within(own, arrays) /\ own.array \in Nat /\ own.len \in Nat
          /\ \A k \in h.len + 1 .. own.len : k \in 1 .. own.len
          /\ \A k \in 1 .. h.len : k \in 1 .. own.len
      BY <2>1, <3>2, PoolIn DEF IInv, SlicesTyped, Within
    <3>4. Overwritten(m)' <=> Overwritten(m)
      BY <1>1, <1>6, <3>1 DEF Overwritten
    <3>5. Sharers(m) \subseteq Sharers(m)'
      <4>1. ~Passed("link", n)
        BY <1>1, PassedAdvance DEF IInv, Kinds
      <4>2. \A l \in Sharers(m) : l # n /\ list'[l] = list[l] /\ Passed("link", l)'
        BY <1>5, <1>8, <4>1 DEF Sharers, Kinds
      <4> QED
        BY <1>6, <3>1, <4>2 DEF Sharers
    <3>6. CASE \A k \in 1 .. own.len : arrays'[own.array][k] = arrays[own.array][k]
      BY <2>1, <3>1, <3>2, <3>3, <3>4, <3>5, <3>6
    <3>7. CASE own.array # pool.array \/ own.array = 0
      <4>1. own.array # pool.array \/ own.len <= pool.len
        BY <1>2, <3>3, <3>7 DEF Within
      <4>2. SlicesTyped
        BY DEF IInv
      <4> HIDE DEF pool, new, t, own, h
      <4>3. \A k \in 1 .. own.len : arrays'[own.array][k] = arrays[own.array][k]
        BY <1>2, <1>3, <1>4, <3>3, <4>1, <4>2, OthersStay
      <4> QED
        BY <3>6, <4>3
    <3>8. CASE own.array = pool.array /\ own.array # 0
      <4>1. own.array = h.array
        BY <1>2, <3>2, <3>8
      <4>2. Other(m[1]) = role /\ PoolOf(m) = name /\ h = pool
        <5>1. /\ Other(m[1]) \in Roles /\ PoolOf(m) \in Pools
              /\ h = hosts[Other(m[1])][PoolOf(m)]
          BY NodeParts, OtherRole, PoolIn DEF PoolHosts, IInv
        <5>2. h.array # 0 /\ h.array = pool.array
          BY <3>8, <4>1
        <5>3. HostsApart
          BY DEF IInv
        <5> HIDE DEF h, role, name
        <5>4. Other(m[1]) = role /\ PoolOf(m) = name
          BY <1>2, <5>1, <5>2, <5>3 DEF HostsApart
        <5> QED
          BY <5>1, <5>4
      <4>3. m[1] = n[1]
        BY <4>2, NodeParts, OtherRole
      <4>4. m[2] < n[2]
        BY <1>1, <3>1, <4>3, LinkedBefore DEF IInv
      <4>5. own.array \in 1 .. Len(arrays) /\ own.len <= Len(arrays[own.array])
        BY <1>2, <3>3, <3>8 DEF Within
      <4>6. \A k \in 1 .. own.len : k \in 1 .. Len(arrays[own.array])
        <5>1. Len(arrays[own.array]) \in Nat
          BY <4>5 DEF IInv, SlicesTyped, Arrays
        <5> QED
          BY <3>3, <4>5, <5>1
      <4>7. \A k \in 1 .. own.len :
               \/ arrays'[own.array][k] = arrays[own.array][k]
               \/ /\ k \in pool.len + 1 .. pool.len + setting[n].exts
                  /\ arrays'[own.array][k] = Entry(n, k - pool.len)
                  /\ own.array = t.array
        <5> TAKE k \in 1 .. own.len
        <5>1. CASE own.array # t.array \/ k <= pool.len \/ k > pool.len + setting[n].exts
          BY <1>10, <4>5, <4>6, <5>1
        <5>2. CASE own.array = t.array /\ ~(k <= pool.len) /\ ~(k > pool.len + setting[n].exts)
          <6> HIDE DEF pool, new, t, own, h
          <6>1. /\ k \in pool.len + 1 .. pool.len + setting[n].exts
                /\ k - pool.len \in 1 .. setting[n].exts
            BY <1>2, <1>3, <3>3, <5>2
          <6> QED
            BY <1>3, <1>9, <5>2, <6>1
        <5> QED
          BY <5>1, <5>2
      <4>8. CASE setting[n].exts = 0
        <5> HIDE DEF pool, new, t, own, h
        <5>1. \A k \in 1 .. own.len : k \notin pool.len + 1 .. pool.len + setting[n].exts
          BY <1>2, <3>3, <4>8
        <5> QED
          BY <3>6, <4>7, <5>1
      <4>9. CASE setting[n].exts # 0
        <5>1. Overwritten(m)
          BY <1>3, <4>1, <4>2, <4>3, <4>4, <4>9 DEF Overwritten
        <5>2. \A k \in 1 .. h.len : arrays'[own.array][k] = arrays'[h.array][k]
          BY <4>1
        <5> HIDE DEF pool, new, t, own, h
        <5>3. \A k \in h.len + 1 .. own.len :
                 \E l \in Sharers(m)' : arrays'[own.array][k] = Entry(l, k - h.len)
          <6>1. own.array = t.array => n \in Sharers(m)'
            <7>1. /\ Passed("link", n)' /\ PoolOf(n) = PoolOf(m) /\ n[2] >= m[2]
                  /\ list'[n] = t /\ list'[m] = own
              BY <1>5, <1>8, <3>1, <4>2, <4>4, NodeParts DEF Kinds, name
            <7> QED
              BY <1>6, <4>3, <7>1 DEF Sharers
          <6>2. h = pool
            BY <4>2
          <6> QED
            BY <3>2, <3>3, <3>5, <4>7, <6>1, <6>2
        <5> QED
          BY <3>1, <3>2, <3>4, <4>1, <5>1, <5>2, <5>3
      <4> QED
        BY <4>8, <4>9
    <3> QED
      BY <3>7, <3>8
  <2> QED
    BY <2>2, <2>3
<1>16. SettingsTyped'
  BY <1>1 DEF IInv, SettingsTyped
<1> QED
  BY <1>5, <1>12, <1>13, <1>14, <1>15, <1>16 DEF IInv, ListsLinked

-----------------------------------------------------------------------------
(* The steps that touch no slice. *)

LEMMA SlicesStay ==
    ASSUME IInv, UNCHANGED <<setting, slices, port, rtPort>>, LoopTyped',
           \A k \in {"enter", "link"}, m \in Nodes : Passed(k, m)' <=> Passed(k, m)
    PROVE  IInv'
<1>1. /\ \A m \in Nodes : PoolOf(m)' = PoolOf(m) /\ PoolHosts(m)' = PoolHosts(m)
      /\ Pools' = Pools
  BY DEF PoolOf, PoolHosts, slices
<1>2. \A r \in Roles, p \in Pools : Entered(r, p)' = Entered(r, p)
  BY <1>1 DEF Entered
<1>3. SettingsTyped' /\ SlicesTyped' /\ HostsApart'
  BY <1>1 DEF IInv, SettingsTyped, SlicesTyped, HostsApart, slices
<1>4. HostsNamed'
  BY <1>1, <1>2 DEF IInv, HostsNamed, Elem, slices
<1>5. ListsLinked'
  <2> SUFFICES ASSUME NEW m \in Nodes, Passed("link", m)' PROVE LinkedWell(m)'
    BY DEF ListsLinked
  <2>1. LinkedWell(m)
    BY DEF IInv, ListsLinked
  <2>2. (Overwritten(m)' <=> Overwritten(m)) /\ Sharers(m)' = Sharers(m)
    BY <1>1 DEF Overwritten, Sharers, slices
  <2> QED
    BY <1>1, <2>1, <2>2 DEF LinkedWell, Elem, slices
<1> QED
  BY <1>3, <1>4, <1>5 DEF IInv

LEMMA InitIInv == Init => IInv
<1> SUFFICES ASSUME Init PROVE IInv
  OBVIOUS
<1>1. \A k \in Kinds, m \in Nodes : ~Passed(k, m)
  <2> TAKE k \in Kinds, m \in Nodes
  <2>1. loop = <<"enter", "producer">> /\ i = 0 /\ m[2] \in Nat /\ <<k, m[1]>> \in Loops
    BY NodeParts DEF Init, Loops
  <2>2. Rank(<<k, m[1]>>) \in Nat
    BY <2>1, RankOrder
  <2> QED
    BY <2>1, <2>2, RankTable DEF Passed
<1>2. SettingsTyped
  BY DEF Init, SettingsTyped
<1>3. LoopTyped
  BY CountsAreNat DEF Init, LoopTyped, Loops, Kinds, Roles
<1>4. arrays = <<>> /\ Len(arrays) = 0 /\ arrays \in Arrays
  BY DEF Init, Arrays
<1>5. Nil \in [array : Nat, len : Nat] /\ Within(Nil, arrays) /\ Nil.array = 0 /\ Nil.len = 0
  BY <1>4 DEF Nil, Within
<1>6. SlicesTyped
  BY <1>4, <1>5 DEF Init, SlicesTyped
<1>7. \A r \in Roles, p \in Pools : hosts[r][p] = Nil
  BY DEF Init
<1>8. HostsApart
  BY <1>5, <1>7 DEF HostsApart
<1>9. \A r \in Roles, p \in Pools : Entered(r, p) = {}
  BY <1>1 DEF Entered, Kinds
<1>10. HostsNamed
  BY <1>5, <1>7, <1>9 DEF HostsNamed
<1>11. ListsLinked
  BY <1>1 DEF ListsLinked, Kinds
<1> QED
  BY <1>2, <1>3, <1>6, <1>8, <1>10, <1>11 DEF IInv

(* The invariant holds in every state. *)
THEOREM Inductive == Spec => []IInv
<1>1. IInv /\ [Next]_vars => IInv'
  <2> SUFFICES ASSUME IInv, [Next]_vars PROVE IInv'
    OBVIOUS
  <2>1. ASSUME NEW n \in Nodes, EnterFirst(n) \/ EnterNext(n) PROVE IInv'
    BY <2>1, EnterIInv
  <2>2. ASSUME NEW n \in Nodes, Link(n) PROVE IInv'
    BY <2>2, LinkIInv
  <2>3. ASSUME NEW n \in Nodes, Place(n) PROVE IInv'
    <3>1. /\ At("place", n) /\ Advance /\ LoopTyped
          /\ UNCHANGED <<setting, slices, port, rtPort>>
      BY <2>3 DEF Place, Advance, IInv
    <3>2. /\ LoopTyped'
          /\ \A k \in Kinds, m \in Nodes :
                Passed(k, m)' <=> Passed(k, m) \/ (k = "place" /\ m = n)
      BY <3>1, PassedAdvance DEF Kinds
    <3>3. \A k \in {"enter", "link"}, m \in Nodes : Passed(k, m)' <=> Passed(k, m)
      BY <3>2 DEF Kinds
    <3> QED
      BY <3>1, <3>2, <3>3, SlicesStay
  <2>4. CASE NextLoop
    <3>1. UNCHANGED <<setting, slices, port, rtPort>> /\ LoopTyped
      BY <2>4 DEF NextLoop, IInv
    <3>2. LoopTyped' /\ \A k \in Kinds, m \in Nodes : Passed(k, m)' <=> Passed(k, m)
      BY <2>4, <3>1, PassedNext
    <3> QED
      BY <3>1, <3>2, SlicesStay DEF Kinds
  <2>5. CASE Terminated \/ UNCHANGED vars
    <3>1. UNCHANGED <<setting, slices, port, rtPort>> /\ LoopTyped /\ UNCHANGED <<loop, i>>
      BY <2>5 DEF Terminated, vars, slices, IInv
    <3>2. LoopTyped' /\ \A k \in {"enter", "link"}, m \in Nodes : Passed(k, m)' <=> Passed(k, m)
      BY <3>1 DEF LoopTyped, Passed
    <3> QED
      BY <3>1, <3>2, SlicesStay
  <2> QED
    BY <2>1, <2>2, <2>3, <2>4, <2>5 DEF Next
<1> QED
  BY <1>1, InitIInv, PTL DEF Spec

-----------------------------------------------------------------------------
(* The theorems. *)

(* Every variable keeps its type and every slice lies within its array.    *)
THEOREM TypeCorrect == Spec => []TypeOK
<1>1. IInv => TypeOK
  <2> SUFFICES ASSUME IInv PROVE TypeOK
    OBVIOUS
  <2>1. /\ setting \in [Nodes -> Settings] /\ i \in Nat
        /\ loop \in ({"enter", "link", "place"} \X Roles) \cup {Done}
        /\ port \in [Nodes -> Nat] /\ rtPort \in [Nodes -> Nat]
    BY DEF IInv, SettingsTyped, LoopTyped, Loops, Kinds
  <2>2. /\ hosts \in [Roles -> [Pools -> Slices]] /\ list \in [Nodes -> Slices]
        /\ \A a \in DOMAIN arrays : Len(arrays[a]) > 0
    BY DEF IInv, SlicesTyped, Slices, Within, Arrays
  <2>3. \A s \in {hosts[r][p] : r \in Roles, p \in Pools} \cup {list[n] : n \in Nodes} :
           s.len <= IF s.array = 0 THEN 0 ELSE Len(arrays[s.array])
    BY DEF IInv, SlicesTyped, Within
  <2> QED
    BY <2>1, <2>2, <2>3 DEF TypeOK
<1> QED
  BY <1>1, Inductive, PTL

(* However many nodes and pools there are and whatever room append leaves, *)
(* a pool's host list names its nodes, once each (config.go:216-222,       *)
(* 252-259), and no later append through a copy of it changes that.        *)
THEOREM HostsNamedOnce == Spec => []HostsListed
<1>1. IInv => HostsListed
  <2> SUFFICES ASSUME IInv, NEW r \in Roles, NEW p \in Pools
               PROVE  LET v == View(hosts[r][p])
                      IN  /\ {v[k] : k \in DOMAIN v} = {Entry(n, 0) : n \in Entered(r, p)}
                          /\ \A j, k \in DOMAIN v : v[j] = v[k] => j = k
    BY DEF HostsListed, Entered
  <2> DEFINE h == hosts[r][p]
             v == View(h)
  <2>1. DOMAIN v = 1 .. h.len /\ \A k \in 1 .. h.len : v[k] = Elem(h, k)
    BY DEF View, Elem
  <2>2. /\ \A k \in 1 .. h.len : \E m \in Entered(r, p) : Elem(h, k) = Entry(m, 0)
        /\ \A m \in Entered(r, p) : \E k \in 1 .. h.len : Elem(h, k) = Entry(m, 0)
        /\ \A j, k \in 1 .. h.len : Elem(h, j) = Elem(h, k) => j = k
    BY DEF IInv, HostsNamed
  <2> HIDE DEF v, h
  <2>3. \A x \in {v[k] : k \in DOMAIN v} : x \in {Entry(n, 0) : n \in Entered(r, p)}
    BY <2>1, <2>2
  <2>4. \A x \in {Entry(n, 0) : n \in Entered(r, p)} : x \in {v[k] : k \in DOMAIN v}
    BY <2>1, <2>2
  <2>5. {v[k] : k \in DOMAIN v} = {Entry(n, 0) : n \in Entered(r, p)}
    BY <2>3, <2>4
  <2> QED
    BY <2>1, <2>2, <2>5 DEF v, h
<1> QED
  BY <1>1, Inductive, PTL

(* What a node's list and its pool's show. *)
LEMMA LinkedView ==
    ASSUME IInv, NEW n \in Nodes, Passed("link", n)
    PROVE  LET own == View(list[n])
               pool == View(PoolHosts(n))
           IN  /\ DOMAIN own = 1 .. PoolHosts(n).len + setting[n].exts
               /\ DOMAIN pool = 1 .. PoolHosts(n).len /\ Len(pool) = PoolHosts(n).len
               /\ \A k \in DOMAIN own : own[k] = Elem(list[n], k)
               /\ \A k \in DOMAIN pool : pool[k] = Elem(PoolHosts(n), k)
               /\ PoolHosts(n).len \in Nat /\ setting[n].exts \in Nat /\ LinkedWell(n)
<1>1. LinkedWell(n)
  BY DEF IInv, ListsLinked
<1>2. PoolHosts(n).len \in Nat /\ setting[n].exts \in Nat
  BY NodeParts, OtherRole, PoolIn DEF IInv, SlicesTyped, PoolHosts
<1>3. list[n].len = PoolHosts(n).len + setting[n].exts
  BY <1>1 DEF LinkedWell
<1>4. View(PoolHosts(n)) = [k \in 1 .. PoolHosts(n).len |-> Elem(PoolHosts(n), k)]
  BY DEF View, Elem
<1>5. View(list[n]) = [k \in 1 .. list[n].len |-> Elem(list[n], k)]
  BY DEF View, Elem
<1>6. Len(View(PoolHosts(n))) = PoolHosts(n).len
  BY <1>2, <1>4
<1> QED
  BY <1>1, <1>2, <1>3, <1>4, <1>5, <1>6

(* A node's list begins with its pool's hosts, and nothing in it comes     *)
(* from another pool (config.go:264, 273).                                 *)
THEOREM ListsApart == Spec => []ListsOfOwnPool
<1>1. IInv => ListsOfOwnPool
  <2> SUFFICES ASSUME IInv, NEW n \in Nodes, Passed("link", n)
               PROVE  LET own == View(list[n])
                          pool == View(PoolHosts(n))
                      IN  /\ Len(pool) <= Len(own)
                          /\ \A k \in DOMAIN pool : own[k] = pool[k]
                          /\ \A k \in DOMAIN own \ DOMAIN pool :
                                own[k].node[1] = n[1] /\ PoolOf(own[k].node) = PoolOf(n)
    BY DEF ListsOfOwnPool
  <2> DEFINE own == View(list[n])
             pool == View(PoolHosts(n))
             len == PoolHosts(n).len
             exts == setting[n].exts
  <2>1. /\ DOMAIN own = 1 .. len + exts /\ DOMAIN pool = 1 .. len /\ Len(pool) = len
        /\ \A k \in DOMAIN own : own[k] = Elem(list[n], k)
        /\ \A k \in DOMAIN pool : pool[k] = Elem(PoolHosts(n), k)
        /\ len \in Nat /\ exts \in Nat /\ LinkedWell(n)
    BY LinkedView
  <2>2. Len(own) = len + exts
    BY <2>1
  <2>3. /\ \A k \in 1 .. len : Elem(list[n], k) = Elem(PoolHosts(n), k)
        /\ \A k \in len + 1 .. len + exts :
              Elem(list[n], k).node[1] = n[1] /\ PoolOf(Elem(list[n], k).node) = PoolOf(n)
    <3>1. /\ \A k \in 1 .. len : Elem(list[n], k) = Elem(PoolHosts(n), k)
          /\ \A k \in len + 1 .. len + exts :
                \E m \in Sharers(n) : Elem(list[n], k) = Entry(m, k - len)
      BY <2>1 DEF LinkedWell
    <3>2. \A m, k : Entry(m, k).node = m
      BY DEF Entry
    <3>3. \A m \in Sharers(n) : m[1] = n[1] /\ PoolOf(m) = PoolOf(n)
      BY DEF Sharers
    <3> HIDE DEF len, exts
    <3> QED
      BY <3>1, <3>2, <3>3
  <2> HIDE DEF own, pool, len, exts
  <2>4. \A k \in DOMAIN pool : own[k] = pool[k]
    BY <2>1, <2>3
  <2>5. \A k \in DOMAIN own \ DOMAIN pool :
           own[k].node[1] = n[1] /\ PoolOf(own[k].node) = PoolOf(n)
    BY <2>1, <2>3
  <2> QED
    BY <2>1, <2>2, <2>4, <2>5 DEF own, pool
<1> QED
  BY <1>1, Inductive, PTL

(* A node's list ends with its own external hosts (config.go:268, 277),    *)
(* unless a later node of its pool and role shares its array: the only way *)
(* in which the appends can lose a host, for any capacity.                 *)
THEOREM HostsKept == Spec => []OwnHostsKept
<1>1. IInv => OwnHostsKept
  <2> SUFFICES ASSUME IInv, NEW n \in Nodes, Passed("link", n), ~Overwritten(n)
               PROVE  View(list[n]) = View(PoolHosts(n)) \o Exts(n)
    BY DEF OwnHostsKept
  <2> DEFINE own == View(list[n])
             pool == View(PoolHosts(n))
             len == PoolHosts(n).len
             exts == setting[n].exts
  <2>1. /\ DOMAIN own = 1 .. len + exts /\ DOMAIN pool = 1 .. len /\ Len(pool) = len
        /\ \A k \in DOMAIN own : own[k] = Elem(list[n], k)
        /\ \A k \in DOMAIN pool : pool[k] = Elem(PoolHosts(n), k)
        /\ len \in Nat /\ exts \in Nat /\ LinkedWell(n)
    BY LinkedView
  <2>2. /\ \A k \in 1 .. len : Elem(list[n], k) = Elem(PoolHosts(n), k)
        /\ \A k \in len + 1 .. len + exts : Elem(list[n], k) = Entry(n, k - len)
    BY <2>1 DEF LinkedWell
  <2>3. Exts(n) \in Seq(EntryType) /\ Len(Exts(n)) = exts
        /\ \A k \in 1 .. exts : Exts(n)[k] = Entry(n, k)
    BY ExtsTyped DEF IInv
  <2>4. pool \in Seq(EntryType)
    <3>1. \A k \in 1 .. len : Elem(PoolHosts(n), k) \in EntryType
      BY NodeParts, OtherRole, PoolIn DEF IInv, SlicesTyped, Within, Arrays, Elem, PoolHosts
    <3>2. pool = [k \in 1 .. len |-> pool[k]]
      BY DEF View
    <3> HIDE DEF pool, len
    <3>3. pool \in [1 .. len -> EntryType]
      BY <2>1, <3>1, <3>2
    <3> QED
      BY <2>1, <3>3, SeqOf
  <2>5. own = [k \in 1 .. len + exts |-> own[k]]
    <3>1. own = [k \in 1 .. list[n].len |-> own[k]]
      BY DEF View
    <3> QED
      BY <2>1, <3>1 DEF LinkedWell
  <2> HIDE DEF own, pool, len, exts
  <2>6. \A k \in 1 .. len + exts :
           own[k] = IF k <= len THEN pool[k] ELSE Exts(n)[k - len]
    <3> TAKE k \in 1 .. len + exts
    <3>1. CASE k <= len
      <4>1. k \in 1 .. len /\ k \in DOMAIN own /\ k \in DOMAIN pool
        BY <2>1, <3>1
      <4> QED
        BY <2>1, <2>2, <3>1, <4>1
    <3>2. CASE ~(k <= len)
      <4>1. k \in len + 1 .. len + exts /\ k - len \in 1 .. exts /\ k \in DOMAIN own
        BY <2>1, <3>2
      <4> QED
        BY <2>1, <2>2, <2>3, <3>2, <4>1
    <3> QED
      BY <3>1, <3>2
  <2>7. /\ Len(pool \o Exts(n)) = len + exts
        /\ pool \o Exts(n) \in Seq(EntryType)
        /\ \A k \in 1 .. len + exts :
              (pool \o Exts(n))[k] = IF k <= len THEN pool[k] ELSE Exts(n)[k - len]
    BY <2>1, <2>3, <2>4
  <2>8. pool \o Exts(n) = [k \in 1 .. len + exts |-> (pool \o Exts(n))[k]]
    <3> DEFINE both == pool \o Exts(n)
    <3>1. both \in Seq(EntryType) /\ Len(both) = len + exts
      BY <2>7
    <3> HIDE DEF both
    <3>2. both = [k \in 1 .. len + exts |-> both[k]]
      BY <3>1
    <3> QED
      BY <3>2 DEF both
  <2>9. own = pool \o Exts(n)
    BY <2>5, <2>6, <2>7, <2>8
  <2> QED
    BY <2>9 DEF own, pool
<1> QED
  BY <1>1, Inductive, PTL

(* And whatever is written over it, the k-th place of a node's external    *)
(* hosts (config.go:268, 277) only ever goes to the k-th host of a later   *)
(* node of its pool and role, for any capacity.                            *)
THEOREM LostToLater == Spec => []LostToLaterOnly
<1>1. IInv => LostToLaterOnly
  <2> SUFFICES ASSUME IInv, NEW n \in Nodes, Passed("link", n),
                      NEW k \in 1 .. setting[n].exts
               PROVE  \E m \in Sharers(n) :
                         View(list[n])[PoolHosts(n).len + k] = Entry(m, k)
    BY DEF LostToLaterOnly
  <2> DEFINE len == PoolHosts(n).len
             exts == setting[n].exts
             own == View(list[n])
  <2>1. /\ DOMAIN own = 1 .. len + exts /\ len \in Nat /\ exts \in Nat
        /\ \A j \in DOMAIN own : own[j] = Elem(list[n], j)
        /\ LinkedWell(n)
    BY LinkedView
  <2>2. \A j \in len + 1 .. len + exts :
           \E m \in Sharers(n) : Elem(list[n], j) = Entry(m, j - len)
    BY <2>1 DEF LinkedWell
  <2> HIDE DEF len, exts, own
  <2>3. len + k \in len + 1 .. len + exts /\ len + k \in DOMAIN own /\ (len + k) - len = k
    BY <2>1 DEF exts
  <2>4. \E m \in Sharers(n) : own[len + k] = Entry(m, k)
    BY <2>1, <2>2, <2>3
  <2> QED
    BY <2>4 DEF own, len
<1> QED
  BY <1>1, Inductive, PTL

(* So a node keeps its external hosts when no later node of its pool and   *)
(* role lists any, as when it is the only one.                             *)
LastHostsKept ==
    \A n \in Nodes :
       /\ Passed("link", n)
       /\ \A m \in Nodes : m[1] = n[1] /\ m[2] > n[2] /\ PoolOf(m) = PoolOf(n)
                              => setting[m].exts = 0
       => View(list[n]) = View(PoolHosts(n)) \o Exts(n)

THEOREM LastKeepsHosts == Spec => []LastHostsKept
<1>1. IInv /\ OwnHostsKept => LastHostsKept
  <2> SUFFICES ASSUME IInv, OwnHostsKept, NEW n \in Nodes, Passed("link", n),
                      \A m \in Nodes : m[1] = n[1] /\ m[2] > n[2] /\ PoolOf(m) = PoolOf(n)
                                          => setting[m].exts = 0
               PROVE  View(list[n]) = View(PoolHosts(n)) \o Exts(n)
    BY DEF LastHostsKept
  <2>1. ~Overwritten(n)
    BY DEF Overwritten
  <2> QED
    BY <2>1 DEF OwnHostsKept
<1> QED
  BY <1>1, Inductive, HostsKept, PTL

-----------------------------------------------------------------------------
(* Ports and directories. *)

(* What is added to a node's base. *)
Above(n) == Offset(n[1]) + n[2]

(* The ports of a node that was entered. *)
PortsGiven ==
    \A n \in Nodes : Passed("enter", n) =>
       /\ port[n] = OrDefault(setting[n].port, PortBase(setting[n].network) + Above(n))
       /\ rtPort[n] = OrDefault(setting[n].rtPort,
                                RTPortBase(setting[n].network) + 600 + Above(n))

PoolDir(n) == <<setting[n].network, setting[n].pool>>

(* The directories of a node that was placed. *)
DirsGiven ==
    /\ DOMAIN dirs = Nodes /\ dirs = [n \in Nodes |-> dirs[n]]
    /\ \A n \in Nodes : Passed("place", n) =>
          /\ setting[n].rootDir = <<>> => dirs[n].root = PoolDir(n) \o n
          /\ setting[n].backupDir = <<>> => dirs[n].backup = Append(PoolDir(n), "backup")
          /\ setting[n].tmpDir = <<>> => dirs[n].tmp = <<"/tmp">> \o PoolDir(n) \o n

Given == PortsGiven /\ DirsGiven

LEMMA GivenStays ==
    ASSUME Given, UNCHANGED <<setting, port, rtPort, dirs>>,
           \A k \in {"enter", "place"}, m \in Nodes : Passed(k, m)' <=> Passed(k, m)
    PROVE  Given'
<1>1. PortsGiven'
  BY DEF Given, PortsGiven
<1>2. \A m \in Nodes : PoolDir(m)' = PoolDir(m)
  BY DEF PoolDir
<1>3. DirsGiven'
  BY <1>2 DEF Given, DirsGiven
<1> QED
  BY <1>1, <1>3 DEF Given

LEMMA EnterGiven ==
    ASSUME IInv, Given, NEW n \in Nodes, EnterFirst(n) \/ EnterNext(n)
    PROVE  Given'
<1>1. At("enter", n) /\ Advance /\ SetPorts(n) /\ UNCHANGED <<setting, dirs>>
  BY DEF EnterFirst, EnterNext, Advance
<1>2. \A k \in Kinds, m \in Nodes : Passed(k, m)' <=> Passed(k, m) \/ (k = "enter" /\ m = n)
  BY <1>1, PassedAdvance DEF IInv, Kinds
<1>3. /\ port' = [port EXCEPT ![n] = OrDefault(setting[n].port,
                                               PortBase(setting[n].network) + Above(n))]
      /\ rtPort' = [rtPort EXCEPT ![n] = OrDefault(setting[n].rtPort,
                                            RTPortBase(setting[n].network) + 600 + Above(n))]
  BY <1>1 DEF SetPorts, Above
<1>4. PortsGiven'
  BY <1>1, <1>2, <1>3 DEF Given, PortsGiven, IInv, SettingsTyped, Kinds
<1>5. DirsGiven'
  BY <1>1, <1>2 DEF Given, DirsGiven, PoolDir, Kinds
<1> QED
  BY <1>4, <1>5 DEF Given

LEMMA PlaceGiven ==
    ASSUME IInv, Given, NEW n \in Nodes, Place(n)
    PROVE  Given'
<1>1. At("place", n) /\ Advance /\ UNCHANGED <<setting, port, rtPort>>
  BY DEF Place, Advance
<1>2. \A k \in Kinds, m \in Nodes : Passed(k, m)' <=> Passed(k, m) \/ (k = "place" /\ m = n)
  BY <1>1, PassedAdvance DEF IInv, Kinds
<1>3. PortsGiven'
  BY <1>1, <1>2 DEF Given, PortsGiven, Kinds
<1> DEFINE own == [root   |-> Configured(setting[n].rootDir, PoolDir(n) \o n),
                   backup |-> Configured(setting[n].backupDir, Append(PoolDir(n), "backup")),
                   tmp    |-> Configured(setting[n].tmpDir, <<"/tmp">> \o PoolDir(n) \o n)]
<1>4. dirs' = [dirs EXCEPT ![n] = own]
  BY DEF Place, PoolDir
<1>5. /\ setting[n].rootDir = <<>> => own.root = PoolDir(n) \o n
      /\ setting[n].backupDir = <<>> => own.backup = Append(PoolDir(n), "backup")
      /\ setting[n].tmpDir = <<>> => own.tmp = <<"/tmp">> \o PoolDir(n) \o n
  BY DEF Configured
<1> HIDE DEF own
<1>6. /\ DOMAIN dirs' = Nodes /\ dirs' = [m \in Nodes |-> dirs'[m]]
      /\ dirs'[n] = own /\ \A m \in Nodes : m # n => dirs'[m] = dirs[m]
  BY <1>4 DEF Given, DirsGiven
<1>7. \A m \in Nodes : PoolDir(m)' = PoolDir(m)
  BY <1>1 DEF PoolDir
<1>8. ASSUME NEW m \in Nodes, Passed("place", m)'
      PROVE  /\ setting[m].rootDir = <<>> => dirs'[m].root = PoolDir(m) \o m
             /\ setting[m].backupDir = <<>> => dirs'[m].backup = Append(PoolDir(m), "backup")
             /\ setting[m].tmpDir = <<>> => dirs'[m].tmp = <<"/tmp">> \o PoolDir(m) \o m
  <2>1. CASE m = n
    BY <1>5, <1>6, <2>1
  <2>2. CASE m # n
    <3>1. Passed("place", m) /\ dirs'[m] = dirs[m]
      BY <1>2, <1>6, <1>8, <2>2 DEF Kinds
    <3> QED
      BY <3>1 DEF Given, DirsGiven
  <2> QED
    BY <2>1, <2>2
<1>9. DirsGiven'
  BY <1>1, <1>6, <1>7, <1>8 DEF DirsGiven
<1> QED
  BY <1>3, <1>9 DEF Given

LEMMA InitGiven == Init => Given
<1> SUFFICES ASSUME Init PROVE Given
  OBVIOUS
<1>1. \A k \in Kinds, m \in Nodes : ~Passed(k, m)
  <2> TAKE k \in Kinds, m \in Nodes
  <2>1. loop = <<"enter", "producer">> /\ i = 0 /\ m[2] \in Nat /\ <<k, m[1]>> \in Loops
    BY NodeParts DEF Init, Loops
  <2>2. Rank(<<k, m[1]>>) \in Nat
    BY <2>1, RankOrder
  <2> QED
    BY <2>1, <2>2, RankTable DEF Passed
<1> QED
  BY <1>1 DEF Init, Given, PortsGiven, DirsGiven, Kinds

(* Ports and directories are those that the loops have given. *)
THEOREM GivenAlways == Spec => []Given
<1>1. IInv /\ Given /\ [Next]_vars => Given'
  <2> SUFFICES ASSUME IInv, Given, [Next]_vars PROVE Given'
    OBVIOUS
  <2>1. ASSUME NEW n \in Nodes, EnterFirst(n) \/ EnterNext(n) PROVE Given'
    BY <2>1, EnterGiven
  <2>2. ASSUME NEW n \in Nodes, Link(n) PROVE Given'
    <3>1. At("link", n) /\ Advance /\ UNCHANGED <<setting, port, rtPort, dirs>>
      BY <2>2 DEF Link, Advance
    <3>2. \A k \in Kinds, m \in Nodes : Passed(k, m)' <=> Passed(k, m) \/ (k = "link" /\ m = n)
      BY <3>1, PassedAdvance DEF IInv, Kinds
    <3> QED
      BY <3>1, <3>2, GivenStays DEF Kinds
  <2>3. ASSUME NEW n \in Nodes, Place(n) PROVE Given'
    BY <2>3, PlaceGiven
  <2>4. CASE NextLoop
    <3>1. UNCHANGED <<setting, port, rtPort, dirs>>
      BY <2>4 DEF NextLoop
    <3>2. \A k \in Kinds, m \in Nodes : Passed(k, m)' <=> Passed(k, m)
      BY <2>4, PassedNext DEF IInv
    <3> QED
      BY <3>1, <3>2, GivenStays DEF Kinds
  <2>5. CASE Terminated \/ UNCHANGED vars
    <3>1. UNCHANGED <<setting, port, rtPort, dirs, loop, i>>
      BY <2>5 DEF Terminated, vars
    <3>2. \A k \in Kinds, m \in Nodes : Passed(k, m)' <=> Passed(k, m)
      BY <3>1 DEF Passed
    <3> QED
      BY <3>1, <3>2, GivenStays DEF Kinds
  <2> QED
    BY <2>1, <2>2, <2>3, <2>4, <2>5 DEF Next
<1> QED
  BY <1>1, InitGiven, Inductive, PTL DEF Spec

LEMMA PlacedEntered ==
    ASSUME LoopTyped, NEW n \in Nodes, Passed("place", n)
    PROVE  Passed("enter", n)
<1>1. n[1] = "producer" \/ n[1] = "relay"
  BY NodeParts DEF Roles
<1>2. loop \in Loops \cup {Done}
  BY DEF LoopTyped
<1>3. Rank(loop) >= 4 /\ Rank(loop) \in Nat
  BY <1>1, <1>2, LoopCases, RankTable DEF Passed
<1> QED
  BY <1>1, <1>3, RankTable DEF Passed

(* The parts of the joined paths that name the node. *)
LEMMA PairsJoined ==
    ASSUME NEW a, NEW b, NEW n \in Nodes
    PROVE  LET t == <<a, b>> \o n
           IN  Len(t) = 4 /\ t[3] = n[1] /\ t[4] = n[2]
<1> DEFINE S == {a, b, n[1], n[2]}
<1>1. n = <<n[1], n[2]>>
  BY NodeParts
<1>2. /\ <<a, b>> \in Seq(S) /\ <<n[1], n[2]>> \in Seq(S)
      /\ Len(<<a, b>>) = 2 /\ Len(<<n[1], n[2]>>) = 2
  OBVIOUS
<1>3. LET t == <<a, b>> \o <<n[1], n[2]>> IN Len(t) = 4 /\ t[3] = n[1] /\ t[4] = n[2]
  BY <1>2
<1> QED
  BY <1>1, <1>3

LEMMA TmpJoined ==
    ASSUME NEW a, NEW b, NEW c, NEW n \in Nodes
    PROVE  (<<c>> \o <<a, b>> \o n)[4] = n[1] /\ (<<c>> \o <<a, b>> \o n)[5] = n[2]
<1> DEFINE S == {a, b, c, n[1], n[2]}
           head == <<c>> \o <<a, b>>
<1>1. n = <<n[1], n[2]>>
  BY NodeParts
<1>2. head = <<c, a, b>>
  <2>1. <<c>> \in Seq(S) /\ <<a, b>> \in Seq(S) /\ Len(<<c>>) = 1 /\ Len(<<a, b>>) = 2
    OBVIOUS
  <2>2. Len(head) = 3 /\ head[1] = c /\ head[2] = a /\ head[3] = b /\ head \in Seq(S)
    BY <2>1
  <2> HIDE DEF head, S
  <2> QED
    BY <2>2
<1>3. /\ <<c, a, b>> \in Seq(S) /\ <<n[1], n[2]>> \in Seq(S)
      /\ Len(<<c, a, b>>) = 3 /\ Len(<<n[1], n[2]>>) = 2
  OBVIOUS
<1>4. LET t == <<c, a, b>> \o <<n[1], n[2]>> IN t[4] = n[1] /\ t[5] = n[2]
  BY <1>3
<1> HIDE DEF head
<1>5. (head \o n)[4] = n[1] /\ (head \o n)[5] = n[2]
  BY <1>1, <1>2, <1>4, Zenon
<1> QED
  BY <1>5 DEF head

LEMMA BackupLength == ASSUME NEW a, NEW b PROVE Len(Append(<<a, b>>, "backup")) = 3
<1>1. <<a, b>> \in Seq({a, b, "backup"}) /\ Len(<<a, b>>) = 2
  OBVIOUS
<1> QED
  BY <1>1

(* The two networks' ports are as far apart as the nodes of two roles     *)
(* need, and no role has more than a hundred nodes.                        *)
FarApart(a, b) == a + 200 <= b \/ b + 200 <= a

BasesApart ==
    /\ \A r \in Roles : NodeCount[r] <= 100
    /\ FarApart(PortBase("mainnet"), PortBase("testnet"))
    /\ FarApart(RTPortBase("mainnet"), RTPortBase("testnet"))

LEMMA AboveApart ==
    ASSUME BasesApart, NEW m \in Nodes, NEW n \in Nodes
    PROVE  Above(m) \in 0 .. 199 /\ (Above(m) = Above(n) => m = n)
<1>1. \A x \in Nodes : /\ x[2] \in Nat /\ x[2] < 100
                       /\ x[1] = "producer" \/ x[1] = "relay"
  BY NodeParts DEF BasesApart, Roles
<1>2. \A x \in Nodes : Above(x) = (IF x[1] = "producer" THEN 100 ELSE 0) + x[2]
  BY DEF Above, Offset
<1>3. Above(m) = Above(n) => m[1] = n[1] /\ m[2] = n[2]
  BY <1>1, <1>2
<1> QED
  BY <1>1, <1>2, <1>3, SameNode

LEMMA PortApart ==
    ASSUME BasesApart, NEW m \in Nodes, NEW n \in Nodes, m # n, NEW u, NEW w
    PROVE  /\ PortBase(u) + Above(m) # PortBase(w) + Above(n)
           /\ RTPortBase(u) + 600 + Above(m) # RTPortBase(w) + 600 + Above(n)
<1>1. /\ Above(m) \in 0 .. 199 /\ Above(n) \in 0 .. 199 /\ Above(m) # Above(n)
  BY AboveApart
<1>2. /\ PortBase(u) = PortBase(w) \/ FarApart(PortBase(u), PortBase(w))
      /\ RTPortBase(u) = RTPortBase(w) \/ FarApart(RTPortBase(u), RTPortBase(w))
  BY DEF PortBase, RTPortBase, BasesApart, FarApart
<1>3. PortBase(u) \in Nat /\ PortBase(w) \in Nat /\ RTPortBase(u) \in Nat /\ RTPortBase(w) \in Nat
  BY BasesAreNat DEF PortBase, RTPortBase, OrDefault
<1>4. ASSUME NEW p, NEW q, p \in Nat, q \in Nat, p = q \/ FarApart(p, q)
      PROVE  p + Above(m) # q + Above(n) /\ p + 600 + Above(m) # q + 600 + Above(n)
  <2>1. PICK a \in Nat, b \in Nat, x \in 0 .. 199, y \in 0 .. 199 :
           a = p /\ b = q /\ x = Above(m) /\ y = Above(n)
    BY <1>1, <1>4
  <2>2. (a = b \/ FarApart(a, b)) /\ x # y
    BY <1>1, <1>4, <2>1
  <2>3. a + x # b + y /\ a + 600 + x # b + 600 + y
    BY <2>2 DEF FarApart
  <2> QED
    BY <2>1, <2>3
<1>5. PortBase(u) + Above(m) # PortBase(w) + Above(n)
  BY <1>2, <1>3, <1>4
<1>6. RTPortBase(u) + 600 + Above(m) # RTPortBase(w) + 600 + Above(n)
  BY <1>2, <1>3, <1>4
<1> QED
  BY <1>5, <1>6

(* What two nodes leave to the program of their ports and directories is   *)
(* apart (config.go:184-208, 225-245, 281-323), whatever else they         *)
(* configure, if the bases of the networks are two hundred apart and no    *)
(* role has more than a hundred nodes.                                     *)
THEOREM Apart == ASSUME BasesApart PROVE Spec => []DefaultsApart
<1>1. IInv /\ Given => DefaultsApart
  <2> SUFFICES ASSUME IInv, Given, NEW m \in Nodes, NEW n \in Nodes,
                      Passed("place", m), Passed("place", n)
               PROVE  /\ setting[m].rootDir = <<>> /\ setting[n].backupDir = <<>> =>
                            dirs[m].root # dirs[n].backup
                      /\ m # n =>
                         /\ setting[m].port = 0 /\ setting[n].port = 0 => port[m] # port[n]
                         /\ setting[m].rtPort = 0 /\ setting[n].rtPort = 0
                               => rtPort[m] # rtPort[n]
                         /\ setting[m].rootDir = <<>> /\ setting[n].rootDir = <<>> =>
                               dirs[m].root # dirs[n].root
                         /\ setting[m].tmpDir = <<>> /\ setting[n].tmpDir = <<>> =>
                               dirs[m].tmp # dirs[n].tmp
    BY DEF DefaultsApart
  <2>1. Passed("enter", m) /\ Passed("enter", n)
    BY PlacedEntered DEF IInv
  <2>2. \A x \in {m, n} :
           /\ setting[x].rootDir = <<>> =>
                 /\ Len(dirs[x].root) = 4 /\ dirs[x].root[3] = x[1] /\ dirs[x].root[4] = x[2]
           /\ setting[x].backupDir = <<>> => Len(dirs[x].backup) = 3
           /\ setting[x].tmpDir = <<>> => dirs[x].tmp[4] = x[1] /\ dirs[x].tmp[5] = x[2]
    <3> TAKE x \in {m, n}
    <3>0. x \in Nodes
      OBVIOUS
    <3>1. /\ setting[x].rootDir = <<>> => dirs[x].root = PoolDir(x) \o x
          /\ setting[x].backupDir = <<>> => dirs[x].backup = Append(PoolDir(x), "backup")
          /\ setting[x].tmpDir = <<>> => dirs[x].tmp = <<"/tmp">> \o PoolDir(x) \o x
      BY DEF Given, DirsGiven
    <3>2. LET t == PoolDir(x) \o x IN Len(t) = 4 /\ t[3] = x[1] /\ t[4] = x[2]
      BY PairsJoined DEF PoolDir
    <3>3. /\ (<<"/tmp">> \o PoolDir(x) \o x)[4] = x[1]
          /\ (<<"/tmp">> \o PoolDir(x) \o x)[5] = x[2]
      <4>1. PICK a, b : PoolDir(x) = <<a, b>>
        BY DEF PoolDir
      <4>2. /\ (<<"/tmp">> \o <<a, b>> \o x)[4] = x[1]
            /\ (<<"/tmp">> \o <<a, b>> \o x)[5] = x[2]
        BY <3>0, TmpJoined
      <4> QED
        BY <4>1, <4>2
    <3>4. Len(Append(PoolDir(x), "backup")) = 3
      BY BackupLength DEF PoolDir
    <3> QED
      BY <3>1, <3>2, <3>3, <3>4
  <2>3. setting[m].rootDir = <<>> /\ setting[n].backupDir = <<>> =>
           dirs[m].root # dirs[n].backup
    BY <2>2
  <2>4. ASSUME m # n
        PROVE  /\ setting[m].port = 0 /\ setting[n].port = 0 => port[m] # port[n]
               /\ setting[m].rtPort = 0 /\ setting[n].rtPort = 0 => rtPort[m] # rtPort[n]
    BY <2>1, <2>4, PortApart DEF Given, PortsGiven, OrDefault
  <2>5. ASSUME m # n
        PROVE  /\ setting[m].rootDir = <<>> /\ setting[n].rootDir = <<>> =>
                     dirs[m].root # dirs[n].root
               /\ setting[m].tmpDir = <<>> /\ setting[n].tmpDir = <<>> =>
                     dirs[m].tmp # dirs[n].tmp
    BY <2>2, <2>5, SameNode
  <2> QED
    BY <2>3, <2>4, <2>5
<1> QED
  BY <1>1, Inductive, GivenAlways, PTL

(* The bases the program comes with (config.go:102-116) are far enough     *)
(* apart for a hundred nodes of each role.                                 *)
THEOREM DefaultBasesApart ==
    ASSUME \A r \in Roles : NodeCount[r] <= 100,
           MainnetPortBase = 0, TestnetPortBase = 0,
           MainnetRTPortBase = 0, TestnetRTPortBase = 0
    PROVE  Spec => []DefaultsApart
<1>1. BasesApart
  BY DEF BasesApart, FarApart, PortBase, RTPortBase, OrDefault
<1> QED
  BY <1>1, Apart
=============================================================================
