------------------------------ MODULE ConfigNodes ------------------------------
(***************************************************************************)
(* New and configNodes of config/config.go: what becomes of the nodes of   *)
(* gocnode.yaml.  One loop after the other enters every node in the host   *)
(* list of its pool and gives it ports, links it to the hosts of its       *)
(* pool's other role, and gives it directories.                            *)
(*                                                                         *)
(* The host lists are Go slices.  A slice is an array and a length, taking *)
(* one from a map copies those two and not the array, and append writes    *)
(* into the array as long as it has room.  When it has none the runtime    *)
(* allocates another, of any capacity that is enough.                      *)
(***************************************************************************)
EXTENDS Integers, Sequences

CONSTANTS NodeCount,   (* NodeCount[r]: how many nodes of role r there are   *)
          Settings,    (* what gocnode.yaml may say of a node                *)
          Capacity,    (* of a new host list: 5                              *)
          MaxSpare,    (* bound: the room append adds beyond what is needed  *)
          MainnetPortBase, TestnetPortBase,      (* 0 when they are not set  *)
          MainnetRTPortBase, TestnetRTPortBase

Roles == {"producer", "relay"}

ASSUME CountsAreNat == NodeCount \in [Roles -> Nat]
ASSUME CapacityPositive == Capacity \in Nat \ {0} /\ MaxSpare \in Nat
ASSUME BasesAreNat == {MainnetPortBase, TestnetPortBase,
                       MainnetRTPortBase, TestnetRTPortBase} \subseteq Nat
ASSUME SettingsRead ==
    \A s \in Settings : /\ s.exts \in Nat /\ s.port \in Nat /\ s.rtPort \in Nat

(* Nodes are numbered from 0 in each role; the name is made of the two. *)
Nodes == UNION {{r} \X (0 .. NodeCount[r] - 1) : r \in Roles}

Other(role) == IF role = "producer" THEN "relay" ELSE "producer"

(* A NodeShort: the k-th external host that node n lists, or n itself. *)
Entry(n, k) == [node |-> n, ext |-> k]
NoEntry == [node |-> <<>>, ext |-> 0]

VARIABLES setting,  (* setting[n]: the entry of gocnode.yaml                 *)
          loop,     (* the loop that runs, over the nodes of one role        *)
          i,        (* its index                                             *)
          arrays,   (* the arrays allocated, in order                        *)
          hosts,    (* hosts[r][p]: the slice of ProducerHostsList[p] or     *)
                    (* RelaysHostsList[p]                                    *)
          list,     (* list[n]: the slice n.Relays or n.Producers            *)
          port, rtPort,  (* of each node, 0 before it is set                 *)
          dirs           (* its directories                                  *)

slices == <<arrays, hosts, list>>
vars == <<setting, loop, i, arrays, hosts, list, port, rtPort, dirs>>

Pools == {s.pool : s \in Settings}
PoolOf(n) == setting[n].pool
Exts(n) == [k \in 1 .. setting[n].exts |-> Entry(n, k)]

-----------------------------------------------------------------------------
(* Slices. *)

Nil == [array |-> 0, len |-> 0]

View(s) == [k \in 1 .. s.len |-> arrays[s.array][k]]

Fits(s, n) == IF s.array = 0 THEN n = 0 ELSE s.len + n <= Len(arrays[s.array])

(* append(s, new...): the slice it returns ... *)
Appended(s, new) ==
    [array |-> IF Fits(s, Len(new)) THEN s.array ELSE Len(arrays) + 1,
     len   |-> s.len + Len(new)]

(* ... and what it does to the arrays. *)
WriteInPlace(s, new) ==
    arrays' = [a \in DOMAIN arrays |-> [k \in DOMAIN arrays[a] |->
                 IF a = s.array /\ k \in s.len + 1 .. s.len + Len(new)
                 THEN new[k - s.len]
                 ELSE arrays[a][k]]]

WriteElsewhere(s, new) ==
    \E spare \in 0 .. MaxSpare :
       arrays' = Append(arrays, [k \in 1 .. s.len + Len(new) + spare |->
                    IF k <= s.len THEN arrays[s.array][k]
                    ELSE IF k <= s.len + Len(new) THEN new[k - s.len]
                    ELSE NoEntry])

WriteAppended(s, new) ==
    \/ Fits(s, Len(new)) /\ WriteInPlace(s, new)
    \/ ~Fits(s, Len(new)) /\ WriteElsewhere(s, new)

-----------------------------------------------------------------------------
(* The loops of configNodes. *)

Done == <<"done", "">>

After(l) == CASE l[2] = "producer" -> <<l[1], "relay">>
              [] l = <<"enter", "relay">> -> <<"link", "producer">>
              [] l = <<"link", "relay">> -> <<"place", "producer">>
              [] l = <<"place", "relay">> -> Done

(* The loop is at node n. *)
At(kind, n) == loop = <<kind, n[1]>> /\ i = n[2]

Advance == i' = i + 1 /\ UNCHANGED <<setting, loop>>

NextLoop == /\ loop # Done
            /\ i = NodeCount[loop[2]]
            /\ loop' = After(loop)
            /\ i' = 0
            /\ UNCHANGED <<setting, slices, port, rtPort, dirs>>

(* Slip: the ports of both roles are counted from the same number. *)
OffsetSame(role) == 0

(* The ports of a producer lie that much above a relay's. *)
Offset(role) == IF role = "producer" THEN 100 ELSE 0

OrDefault(value, default) == IF value = 0 THEN default ELSE value

PortBase(network) == IF network = "testnet" THEN OrDefault(TestnetPortBase, 5000)
                                            ELSE OrDefault(MainnetPortBase, 3000)
RTPortBase(network) == IF network = "testnet" THEN OrDefault(TestnetRTPortBase, 7000)
                                              ELSE OrDefault(MainnetRTPortBase, 6000)

SetPorts(n) ==
    LET s == setting[n]
        above == Offset(n[1]) + n[2]
    IN  /\ port' = [port EXCEPT ![n] = OrDefault(s.port, PortBase(s.network) + above)]
        /\ rtPort' = [rtPort EXCEPT ![n] =
                        OrDefault(s.rtPort, RTPortBase(s.network) + 600 + above)]

(* The first node of a pool makes the host list. *)
EnterFirst(n) ==
    /\ At("enter", n)
    /\ hosts[n[1]][PoolOf(n)] = Nil
    /\ arrays' = Append(arrays, [k \in 1 .. Capacity |->
                                    IF k = 1 THEN Entry(n, 0) ELSE NoEntry])
    /\ hosts' = [hosts EXCEPT ![n[1]][PoolOf(n)] = [array |-> Len(arrays) + 1, len |-> 1]]
    /\ SetPorts(n)
    /\ Advance
    /\ UNCHANGED <<list, dirs>>

(* Slip: the list that append returns is not put back into the map. *)
EnterNextLost(n) ==
    /\ At("enter", n)
    /\ hosts[n[1]][PoolOf(n)] # Nil
    /\ WriteAppended(hosts[n[1]][PoolOf(n)], <<Entry(n, 0)>>)
    /\ SetPorts(n)
    /\ Advance
    /\ UNCHANGED <<hosts, list, dirs>>

EnterNext(n) ==
    LET pool == hosts[n[1]][PoolOf(n)]
    IN  /\ At("enter", n)
        /\ pool # Nil
        /\ WriteAppended(pool, <<Entry(n, 0)>>)
        /\ hosts' = [hosts EXCEPT ![n[1]][PoolOf(n)] = Appended(pool, <<Entry(n, 0)>>)]
        /\ SetPorts(n)
        /\ Advance
        /\ UNCHANGED <<list, dirs>>

(* Slip: the node's own hosts are put over the pool's. *)
LinkFromStart(n) ==
    LET pool == [hosts[Other(n[1])][PoolOf(n)] EXCEPT !.len = 0]
    IN  /\ At("link", n)
        /\ WriteAppended(pool, Exts(n))
        /\ list' = [list EXCEPT ![n] = Appended(pool, Exts(n))]
        /\ Advance
        /\ UNCHANGED <<hosts, port, rtPort, dirs>>

(* Slip: nothing is appended where the pool has no hosts. *)
LinkIfFound(n) ==
    LET pool == hosts[Other(n[1])][PoolOf(n)]
    IN  /\ At("link", n)
        /\ IF pool = Nil THEN UNCHANGED <<arrays, list>>
           ELSE /\ WriteAppended(pool, Exts(n))
                /\ list' = [list EXCEPT ![n] = Appended(pool, Exts(n))]
        /\ Advance
        /\ UNCHANGED <<hosts, port, rtPort, dirs>>

(* Slip: the pool's hosts are appended to the node's own. *)
LinkSwapped(n) ==
    LET pool == View(hosts[Other(n[1])][PoolOf(n)])
    IN  /\ At("link", n)
        /\ WriteAppended(Nil, Exts(n) \o pool)
        /\ list' = [list EXCEPT ![n] = Appended(Nil, Exts(n) \o pool)]
        /\ Advance
        /\ UNCHANGED <<hosts, port, rtPort, dirs>>

(* A node's list starts as its pool's, nil when there is none, and its own *)
(* external hosts are appended.                                            *)
Link(n) ==
    LET pool == hosts[Other(n[1])][PoolOf(n)]
    IN  /\ At("link", n)
        /\ WriteAppended(pool, Exts(n))
        /\ list' = [list EXCEPT ![n] = Appended(pool, Exts(n))]
        /\ Advance
        /\ UNCHANGED <<hosts, port, rtPort, dirs>>

(* A directory that gocnode.yaml leaves empty is the program's to choose. *)
Configured(dir, default) == IF dir = <<>> THEN default ELSE dir

(* RootDir, BackupDir and TmpDir.  What is configured is taken as it is,   *)
(* and held against nothing.                                               *)
Place(n) ==
    LET s == setting[n]
        pool == <<s.network, s.pool>>
    IN  /\ At("place", n)
        /\ dirs' = [dirs EXCEPT ![n] =
                      [root   |-> Configured(s.rootDir, pool \o n),
                       backup |-> Configured(s.backupDir, Append(pool, "backup")),
                       tmp    |-> Configured(s.tmpDir, <<"/tmp">> \o pool \o n)]]
        /\ Advance
        /\ UNCHANGED <<slices, port, rtPort>>

Terminated == loop = Done /\ UNCHANGED vars

-----------------------------------------------------------------------------

Init ==
    /\ setting \in [Nodes -> Settings]
    /\ loop = <<"enter", "producer">>
    /\ i = 0
    /\ arrays = <<>>
    /\ hosts = [r \in Roles |-> [p \in Pools |-> Nil]]
    /\ list = [n \in Nodes |-> Nil]
    /\ port = [n \in Nodes |-> 0]
    /\ rtPort = [n \in Nodes |-> 0]
    /\ dirs = [n \in Nodes |-> <<>>]

Next == \/ \E n \in Nodes : EnterFirst(n) \/ EnterNext(n) \/ Link(n) \/ Place(n)
        \/ NextLoop \/ Terminated

Spec == Init /\ [][Next]_vars

-----------------------------------------------------------------------------
(* Properties. *)

(* The loops in the order of the code. *)
Rank(l) == (CASE l[1] = "enter" -> 0 [] l[1] = "link" -> 2 [] l[1] = "place" -> 4
              [] OTHER -> 6) + IF l[2] = "relay" THEN 1 ELSE 0

(* The loop of this kind is through with node n. *)
Passed(kind, n) == \/ Rank(loop) > Rank(<<kind, n[1]>>)
                   \/ loop = <<kind, n[1]>> /\ n[2] < i

PoolHosts(n) == hosts[Other(n[1])][PoolOf(n)]

Slices == [array : 0 .. Len(arrays), len : Nat]

(* The types of config.go:18-55; every slice lies within its array. *)
TypeOK ==
    /\ setting \in [Nodes -> Settings]
    /\ loop \in ({"enter", "link", "place"} \X Roles) \cup {Done}
    /\ i \in Nat
    /\ \A a \in DOMAIN arrays : Len(arrays[a]) > 0
    /\ hosts \in [Roles -> [Pools -> Slices]]
    /\ list \in [Nodes -> Slices]
    /\ \A s \in {hosts[r][p] : r \in Roles, p \in Pools} \cup {list[n] : n \in Nodes} :
          s.len <= IF s.array = 0 THEN 0 ELSE Len(arrays[s.array])
    /\ port \in [Nodes -> Nat] /\ rtPort \in [Nodes -> Nat]

(* A pool's host list names each node of the role and pool that was        *)
(* entered, once, and nothing else (config.go:216-222, 252-259), whatever  *)
(* is appended later to slices that were copied from it.                   *)
HostsListed ==
    \A r \in Roles, p \in Pools :
       LET v == View(hosts[r][p])
       IN  /\ {v[k] : k \in DOMAIN v} =
                 {Entry(n, 0) : n \in {m \in Nodes : /\ m[1] = r /\ PoolOf(m) = p
                                                     /\ Passed("enter", m)}}
           /\ \A j, k \in DOMAIN v : v[j] = v[k] => j = k

(* A node's list starts with its pool's hosts of the other role            *)
(* (config.go:264, 273), and what follows belongs to its pool and role:    *)
(* sharing an array never brings in another pool.                          *)
ListsOfOwnPool ==
    \A n \in Nodes : Passed("link", n) =>
       LET own == View(list[n])
           pool == View(PoolHosts(n))
       IN  /\ Len(pool) <= Len(own)
           /\ \A k \in DOMAIN pool : own[k] = pool[k]
           /\ \A k \in DOMAIN own \ DOMAIN pool :
                 own[k].node[1] = n[1] /\ PoolOf(own[k].node) = PoolOf(n)

(* Another node writes over the external hosts of n when it shares the     *)
(* array of the pool's list with n and has external hosts of its own.      *)
Overwritten(n) ==
    /\ list[n].array = PoolHosts(n).array
    /\ \E m \in Nodes : /\ m[1] = n[1] /\ m[2] > n[2]
                        /\ PoolOf(m) = PoolOf(n) /\ setting[m].exts > 0

(* A node's list ends with its own external hosts (config.go:268, 277),    *)
(* unless a later node of its role and pool shares its array.              *)
OwnHostsKept ==
    \A n \in Nodes : Passed("link", n) /\ ~Overwritten(n) =>
       View(list[n]) = View(PoolHosts(n)) \o Exts(n)

(* The nodes of n's role and pool, from n on, whose lists share its array. *)
Sharers(n) == {m \in Nodes : /\ m[1] = n[1] /\ m[2] >= n[2] /\ PoolOf(m) = PoolOf(n)
                             /\ Passed("link", m)
                             /\ list[m].array = list[n].array}

(* Where the k-th external host of n belongs there is the k-th external    *)
(* host of n or, when that was written over (config.go:268, 277), of a     *)
(* later node of its role and pool that shares the array: a host is lost   *)
(* to its like only, and never to an earlier node.                         *)
LostToLaterOnly ==
    \A n \in Nodes : Passed("link", n) =>
       \A k \in 1 .. setting[n].exts :
          \E m \in Sharers(n) : View(list[n])[PoolHosts(n).len + k] = Entry(m, k)

(* Ports and directories that two nodes leave to the program are apart     *)
(* (config.go:184-208, 225-245, 281-323), and so is a root directory from  *)
(* a backup directory.  Nothing is said of what gocnode.yaml configures:   *)
(* the program does not compare it.  There are fewer than a hundred nodes  *)
(* of a role and the configured bases are as far apart as the default ones.*)
DefaultsApart ==
    \A m, n \in Nodes : Passed("place", m) /\ Passed("place", n) =>
       /\ setting[m].rootDir = <<>> /\ setting[n].backupDir = <<>> =>
             dirs[m].root # dirs[n].backup
       /\ m # n =>
             /\ setting[m].port = 0 /\ setting[n].port = 0 => port[m] # port[n]
             /\ setting[m].rtPort = 0 /\ setting[n].rtPort = 0 => rtPort[m] # rtPort[n]
             /\ setting[m].rootDir = <<>> /\ setting[n].rootDir = <<>> =>
                   dirs[m].root # dirs[n].root
             /\ setting[m].tmpDir = <<>> /\ setting[n].tmpDir = <<>> =>
                   dirs[m].tmp # dirs[n].tmp
=============================================================================
