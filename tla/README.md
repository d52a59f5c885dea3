# gocnode in TLA+

gocnode wraps a Cardano node: it reads the configuration of a pool, downloads
and adapts the node's configuration files, searches for public relays with a low
latency, restores a database from a backup, starts `cardano-node` and
`node_exporter`, and announces a relay to the topology service. It also starts the
two programs that watch the nodes, Prometheus and RTView. These modules model the
parts of it that keep state, are concurrent or have to survive a failure, TLC
checks them on small instances, and TLAPS proves the invariants that matter most
for every value of the constants.

Paths below are relative to the repository, `src/` included.

## Inventory

| Component | State | Operations | Modelled in |
|---|---|---|---|
| latency tests (`cardanocfg/topology.go:156-264`, `fastping/`) | the probes, the shared `err` and `allLostPackets`, the channel, the timer | probe, check, append, send; receive, time out, close, return | `LatencyTest` |
| topology file (`cardanocfg/topology.go`) | the list under construction, the file on disk | download, first write, search (test network, main network), append, second write | `Topology` |
| configuration files (`cardanocfg/configfiles.go`, `config_json.go`) | four goroutines, the wait group, the recorded paths, `NetworkMagic`, the files | download, create, fill, record, signal; launch, wait | `ConfigFiles` |
| child processes (`runner/process/exec.go`) | the child, two pipes, two scanners, the channel `done` | start, scan, join, wait | `ProcessExec` |
| node runner (`runner/node/node.go`) | the database, three goroutines, the channel `cer`, two commands | find the node, restore, launch, receive | `NodeRunner` |
| configuration (`config/config.go`) | the nodes, their ports and directories, the host lists of each pool | `New`, `configNodes`, `SetLogMinSeverity` | `ConfigNodes`; the last in `NodeRunner` |
| topology updater (`topologyupdater/`, `runner/node/node.go:212-233`) | its copy of the node's configuration, the ticker | `New`, `Ping`, `GetCardanoBlock`, the hourly loop | `Updater` |
| prometheus runner (`runner/prometheuscfg/`) | one goroutine, one channel, its file | `GetYaml`, `CreateConfigFile`, `StartPrometheus` | `MonitorFiles`, `MonitorRunner` |
| rtview runner (`runner/rtview/`) | the same | `GetJSON`, `CreateConfigFile`, `StartRtView` | `MonitorFiles`, `MonitorRunner` |
| command line (`cmd/`) | the flags | `initConfig`, the three start commands | first steps of `NodeRunner` and `MonitorRunner` |
| logging (`logger/`) | none that anything reads | | not modelled |

How they interact: a command of `cmd/` calls `config.New`, which fills in the
nodes, and then a runner. `StartCnode` calls `DownloadConfigFiles`, which starts
one goroutine for each file; the one for the topology calls
`DownloadAndSetTopologyFile`, which reads the lists `configNodes` made and calls
the latency tests. Then `StartCnode` starts three goroutines, two of which call
`process.Exec`; the third asks Prometheus, which scrapes every node under a job
name from `GetYaml`, for the node's block number. Shared memory is used without
locks in the latency tests, a wait group in `DownloadConfigFiles`, unbuffered
channels elsewhere. A panic in any goroutine ends the process; the files, the
database and the node's socket survive it.

What is hard, and what makes each part correct:

* Latency tests: data races on `err` and `allLostPackets`, a channel closed
  under its senders, a timer that races the last answer. A test must end, return
  relays that answered, sorted, and never wait for a goroutine that cannot come.
* Topology file: written twice, with a search in between that may fail, panic or
  last for minutes. A complete file must name the pool's own nodes, a producer's
  file nobody else, and the first file must stay usable during the search.
* Configuration files: four writers and one waiter, with files left by earlier
  lives of the process. The node must not be started on partial files, nor while
  one is being written, and the wait must end.
* Child processes: two streams, each of which can block the child, and a wait
  that closes them. `Exec` must not return before the child has ended, and must
  print what it waited for.
* Node runner: an existing database must survive every restart; the error that
  ends the program must be a real one, and every failure end it; a socket left by
  a killed node must not be found by the next; a node that holds the keys must not
  be announced to the public.
* Configuration: Go slices are copied out of maps and appended to, so that lists
  share arrays. A pool's host list must keep its members whatever is appended
  elsewhere, a node's list must hold its pool's hosts and its own external ones,
  and what two nodes leave to the program must not meet.
* Topology updater: job names are matched by `strings.Contains`, and the updater
  works on a copy of a configuration that another call completes. A relay must
  announce itself and no other, and one failed try must not be the last.
* Prometheus and RTView: a file that outlives the process, truncated before it is
  written. The program must not watch the nodes of an earlier configuration, nor
  miss one of this.

## Modules

* `RelayLists`: the lists of relays and the results of a latency test. An
  occurrence in a list is a model value, a latency a small number.
* `LatencyContract`: the abstract specification of a latency test: it returns an
  acceptable result or the process dies; once the result is complete, it cannot
  kill the process any more.
* `LatencyTest`: both tests, chosen by `WithPing`. Each access to a shared
  variable is an action: `Probe` assigns `err`, `CheckFails` and `CheckPasses`
  read it, `Warn` reads it again, `LoadLost` and `StoreLost` are the two halves
  of the unlocked append. `Deliver` is the rendezvous on `nodeChan`, `Timeout`
  the timer, `CloseChannel` the deferred close, `Return` reads the named results
  after it. The code sorts where it returns; `Rankings` are the orders an
  unstable sort may leave. A race is resolved by interleaving, so `append` reads
  and writes the slice as a whole: an interface or slice value torn between its
  words is not modelled.
* `ExecContract`: what `Exec` promises a runner.
* `ProcessExec`: `Exec`, the child and the pipes. Lines are counted along each
  stream. `Intend` and `Write` are the child's, `Fill`, `Process`, `TooLong` and
  `ScanEnds` the scanner's, `Start`, `StartFails`, `Join` and `Wait` are `Exec`'s.
  That `Wait` closes the pipes is `os/exec`'s documented behaviour.
* `TopologyContract`: what `DownloadAndSetTopologyFile` promises about its file: it
  is whole during the search, and cut short only while it is written, or by a write
  that failed or died. `Topology` (`ImplementsCall`) has what is in the file,
  `ConfigFiles` (`ImplementsTopologyCall`) the goroutines around the call; both
  implement it, so what either assumes of the other is stated once.
* `Topology`: one call of `DownloadAndSetTopologyFile` after another, with
  crashes in between. A write is two steps, truncation and completion; either may
  fail. `PingTest` and `DialTest` use `Acceptable`, the contract of `LatencyTest`.
  The file is read back by the properties only. `MCTopology` gives it lists.
* `ConfigFiles`: `GetConfigFile` for the four files. `pc[f]` is the place in the
  code; `Open` and `Fill` are `os.Create` and `io.Copy` (or the two halves of
  `WriteFile`); a panic is `Die`. Of the topology it keeps only what
  `TopologyContract` tells, and that every error is dropped.
* `RunnerContract`: what a runner promises the container that starts it: it
  prepares, serves, and comes back when and only when something has failed.
* `NodeRunner`: composes two instances of `ExecContract` (`NodeExec`,
  `ExporterExec`) with the command `start-node`, from `ReadConfig` and `TakeFlags`
  through the restore of the database and `RemoveSocket` to the goroutines of
  `StartCnode`, with kills and restarts. `AllAsleep` is the Go runtime's own
  deadlock report, `UpdaterPanics` a panic in an hourly request (`QueryPanics` of
  `Updater`), which ends the process. It implements `RunnerContract`
  (`ImplementsRunner`).
* `ConfigNodes`: the six loops of `configNodes`, one node at each step: `EnterFirst`
  and `EnterNext` make the host lists and set ports, `Link` gives a node its list,
  `Place` its directories. Ports and all three directories are the configured ones,
  if any (`OrDefault`, `Configured`). A slice is an array and a length; `append` writes into
  the array when it `Fits` and allocates another, with up to `MaxSpare` places to
  spare, when it does not. A host is an `Entry`, the number of a node's external
  host, or the node itself. `MCConfigNodes` gives it settings.
* `MonitorFiles`: `GetYaml`, `GetJSON` and the two settings of `config.json` that a
  monitor relies on, as functions of the lists of nodes.
* `MonitorRunner`: both monitors' runners, told apart by `kind`, over `ExecContract`
  and `MonitorFiles`; `Truncate` and `Fill` are the two halves of a write, `loaded` is
  what the command read when it started. `gocnode.yaml` may change at a `Restart`. It
  implements `RunnerContract` too. `MCMonitorRunner` gives it configurations.
* `Updater`: one relay's hourly loop. `Download` sets the magic, `New` copies the
  configuration, then `Tick`, `GetCardanoBlock`, `Announce` and `Judge` go round. An
  error goes on to `Judge` too; a sample without a string in it panics (`QueryPanics`). A
  job or relay is a number; `HasPrefix` says when one name is the start of another.
  `MCUpdater` gives the relays ports.
* `LatencyTestProofs`, `ProcessExecProofs`, `ConfigFilesProofs`, `TopologyProofs`,
  `NodeRunnerProofs`, `MonitorRunnerProofs`, `ConfigNodesProofs`, `UpdaterProofs`: the
  theorems.

In `Topology` the merge of lists (`Merged`) is stated by what it yields, so that it
can be reasoned about without recursion.

Definitions marked "Slip" are the mistakes a change to the code could make; each
one replaces the definition after it to show that a property can fail.

## Runs

| Run | Instance | Question |
|---|---|---|
| `latency_ping` | 3 relays, 2 latencies, ping | What survives the races? The early return is complete and without error, the result is sorted and disjoint from the lost list, the lost list is sound, the contract is kept, no goroutine leaks. When no relay answers, none is ranked (`SilenceRanksNobody`). |
| `latency_dial` | 3 relays, 2 latencies, dial | `TestLatency`: a relay that could not be dialled is never ranked, since closing its nil connection panics; the contract is kept. |
| `latency_race` | 2 relays | Violated: a relay that failed its ping is ranked (finding 1). |
| `exec` | 3 lines per stream, pipes of 2 | `Exec` implements its contract, prints what it joined, and does not block the child. |
| `exec_output` | 1 line per stream | Violated: `Exec` does not wait for all output (finding 2). |
| `topology` | 1 published node, 1 pool node, 4 public relays, 1 or 2 peers, 1 kill | What is in the file after failures, panics and restarts, and that the call keeps `TopologyContract`. |
| `config_files` | 4 files, 2 lives of the process | What the node is started on, that the wait ends, and that the topology's goroutine keeps `TopologyContract` beside the others. |
| `node_runner` | 2 nodes, ids 0, 2 and 3, 2 starts | The database is kept, the error that ends the program is of a command that failed and no failure is lost (`ErrorsAccountedFor`), a bad id touches nothing (`BadIdHarmless`), no stale socket is met, neither producers nor nodes with keys are announced; the runner keeps its contract, so every failure is heard. |
| `node_clean_exit` | 1 node, 1 start | Violated: `StartCnode` does not return when both commands end well (finding 3). |
| `config_nodes` | 2 producers, 3 relays, 2 pools, host lists of capacity 2 | What shared slices do: host lists name their nodes once (`HostsListed`), a node's list starts with its pool's and has nothing of another pool (`ListsOfOwnPool`), external hosts are kept unless the array is shared (`OwnHostsKept`) and even then give way only to the same place of a later node's (`LostToLaterOnly`), ports and directories left to the program are apart (`DefaultsApart`). |
| `monitor_runner` | 2 configurations, 3 starts | A monitor watches every node of this configuration and no other, whatever was killed when (`EveryNodeWatched`); both runners keep their contract. |
| `updater` | 12 relays | A relay tells the service its own port, block and magic (`AnnouncesItself`), and tries again after an error (`TriesAgain`). |

Bounds. A race needs two goroutines, and a third to be neither of them; two
latencies tell a sorted list from an unsorted one. A pipe of two lines and
streams of three let the child block and let a read take less than what is there.
Four public relays with a pair under one address and an own one are the least for
every filter and cut to matter, and put the slice of `3 * Peers` inside and
outside the list. A partial or stale file needs one earlier life, so two lives
suffice; three starts of a monitor let the stale file be of another configuration
and be cut short in between. Ids 0, 2 and 3 of two nodes are good, just past the
end, and rejected. Host lists of one, two and three hosts against a capacity of 2
(5 in the code) have room, are full, and have been reallocated; up to two external
hosts fit or do not. One of six settings configures ports and the root directory, one
the other two directories, its backups in a relay's default root. Twelve relays are the least in which two names (`relay10`,
`relay11`) begin with a third's. `MaxSpare` bounds the room the runtime's growth
leaves; the proofs take any value of it.

Fairness. Each goroutine that can run does (the Go scheduler), a timer fires,
and a call to the network or the disk ends. The last one is an assumption:
`http.Get` and `net.Dial` have no limit in the code but that of the operating
system, and a server that accepts a connection and never answers would block
`DownloadConfigFiles` for ever. Nothing is assumed of the children: they may run
for ever, and nothing forces a kill or a crash.

In `Updater` the ticker ticks and every request ends; in both runners the goroutines
that can run do, and `Exec` keeps its contract once its command has ended. A
configuration that cannot be read stops a start for ever (below), so fairness
lets the program take that branch. `ConfigNodes` has no fairness: it is a
sequential program, checked for what it leaves at every step.

The types of `Topology`, `ConfigFiles` and `NodeRunner` are checked by runs and proved;
those of the other modules with theorems are proved only (`TypeCorrect`), which says
more than a run would.

Deadlock is checked in every run; `Terminated` (`Ended` in `Updater`) names the
states in which a component may stop, which include the calls that never return.

## What the code does differently

1. `latency_race`: `cardanocfg/topology.go:226` tests a shared `err`. When another
   probe has set it to nil, a relay whose ping failed is sent as a good one, with
   a duration of 0 or 1 ms, so it is sorted first.
2. `exec_output`: `runner/process/exec.go:98` receives once from `done`, on which
   two goroutines send, although `:40` makes the channel "to ensure we get all
   output". `Wait` closes the other stream's pipe, and its goroutine stays blocked.
3. `node_clean_exit`: `runner/node/node.go:257` receives errors only, so
   `StartCnode` never returns nil, which `runner/runner_test.go:27-28` expects.

## Weak points found while modelling

Nothing in the repository promises otherwise, so these are not violations of a
stated claim. The models contain each of them unless this says otherwise; where a
property would fail for it, the property names it as an exception.

* `config/config.go:268` and `:277` append a node's external hosts to the pool's
  slice. When that has room, the next node of the role and pool writes over them.
  `OwnHostsKept` excepts it by `Overwritten`; `LostToLaterOnly` says what is lost.
* `config/config.go:282`, `:288`, `:295` (and `:305`, `:311`, `:318`) take configured
  directories as they are: nothing notices a `root_dir` or a `backup_dir` that is the
  root or backup directory of another node. `Place` does the same, and
  `DefaultsApart` speaks only of what is left to the program.
* `runner/prometheuscfg/prometheuscfg.go:112` returns a variable that is nil, not the
  error of the write, so Prometheus may run with an old or a cut file.
  `EveryNodeWatched` excepts it by `lost`; RTView needs no exception.
* `topologyupdater/topologyupdater.go:88` looks for the relay's name inside the job's:
  with more than ten relays, `relay1` may announce the block number of `relay10`.
  `AnnouncesItself` excepts relays whose name begins another's.
* `runner/node/node.go:227` judges an announcement that failed by its code, 0, and logs
  it as good (`Judge`).
* `topologyupdater/topologyupdater.go:89` takes the number of a sample to be a string
  without looking: another reply panics in the updater's goroutine and ends the program,
  the node included (`QueryPanics`, `UpdaterPanics`).
* `runner/node/node.go:74` and the same comparison at `config/config.go:135` and `:140` let an id
  equal to the length through to the index, which panics (`IndexPanic`,
  `SeverityPanic`). The panic comes before anything is touched (`BadIdHarmless`).
* `runner/node/node.go:126`: a process killed while it copies the backup leaves a
  partial database, which the next start takes for a whole one (`DbFound`).
* `runner/node/node.go:208`: when the exporter does not start, the program ends and
  leaves the node behind (`ReceiveExporter` with `nodePhase` running).
* `runner/node/node.go:257`: in `TestMode` nothing is started, and the receive waits
  for ever or until the Go runtime gives up (`AllAsleep`).
* A `gocnode.yaml` that cannot be read is complained of every ten seconds for ever
  (`ConfigUnreadable`).
* `cardanocfg/topology.go:405` filters public relays by the node's own list of relays,
  which `configNodes` fills in for producers only, so the filter keeps every one.

## Proofs

TLAPS checks these for every value of the constants. Assumptions are the `ASSUME`s
of the modules: a finite set of relays and a positive latency bound; a positive
pipe capacity; sequences for lists; natural numbers for bounds, counts and ports;
powers of ten that are at least 10. Three theorems have a hypothesis of their own:
`Apart` and `DefaultBasesApart` (the bases of the ports) and `UpToTenRelays`.

Every module of proofs has the same shape: an inductive invariant made of named parts,
lemmas for the actions that disturb it, and the properties as consequences of it. Where a property is about a step or a refinement, each action
is taken under `IInv` in the same way.

* `LatencyTestProofs`: the types; the early return is complete and without error
  (`EarlyReturn`); the result is a ranking, disjoint from the lost list
  (`RankingReturned`); the lost list is sound (`LostSound`); `TestLatency` never
  ranks a failed relay (`DialRejectsFailed`); a test of which no relay answers ranks
  nobody (`NobodyRanked`), although the races on `err` can rank a failed relay when
  another one answers; every step is one of the contract or leaves it alone
  (`ContractKept`); the goroutines that outlive a test whose result is complete never
  touch what the caller reads (`ResultStable`). `EarlyReturnComplete` is not
  inductive: one has to know that a relay that arrived has finished, that its
  goroutine will not touch `err` again, and that its result was good or masked by a
  nil `err`.
* `ProcessExecProofs`: the types; the joined stream is printed to its end
  (`JoinedPrinted`), from the invariant that the lines of a stream are in the pipe,
  in the buffer or printed, and that a scanner that is through has left none;
  refinement of `ExecContract` without its liveness (`ContractKept`). The invariant
  also knows that until `Wait` closes the pipes the stream that is not joined is
  treated like the other: a scanner that is through has printed everything unless a
  line was too long (`BothPrinted`). So finding 2 loses output only by closing the
  pipe. A child that writes has a reader (`PipeIsRead`).
* `ConfigFilesProofs`: the types; the counter is the number of unfinished goroutines
  (`GroupCounts`), a fact about cardinalities; hence when it is 0 all have finished,
  and the node starts on whole files (`WholeFiles`) that nobody writes any more
  (`FilesKept`), and while it is not 0 somebody is still at work (`WaitsForWorker`).
  The invariant adds what each goroutine has done at its last steps. The goroutine of
  the topology refines `TopologyContract` (`TopologyCallRefines`), from which alone it
  follows that the search runs on a whole file (`SearchOnWholeFile`).
* `TopologyProofs`: the types; a producer is isolated (`Isolated`); a relay's first
  file is whole during the search (`UsableDuringSearch`); a complete file names the
  pool's nodes (`PoolKnown`), since they are in the list from its first write and it
  only grows; a search that reports no error has added at most the peers asked for,
  and on the test network no own relay and none twice (`WordKept`). They rest on
  lemmas about what merging, cutting and appending lists keep. The call refines
  `TopologyContract` (`CallRefines`) through any number of crashes.
* `NodeRunnerProofs`: the types; the reported error is of a command that failed, and no
  failure is lost while it waits for a receiver (`RealError`), since a goroutine that
  sends has seen its command fail and a returned command takes no more steps; a bad id
  touches nothing (`BadIdTouchesNothing`); producers are not announced
  (`NotAnnounced`); a producer started as passive has no keys (`NoKeysForPassive`); no
  stale socket is met (`NoStaleSocket`); the database is kept (`DatabaseStays`), since
  a copy begins only where there was none and no node runs during it; each step is one
  of `RunnerContract` or a stutter (`RunnerRefines`).
* `MonitorRunnerProofs`: the types; a monitor watches every node and no other
  (`NodesWatched`), from lemmas on what the two file generators list and an
  invariant that the file is whole and of this configuration from the write to the
  command's start; a runner waits in vain only when its command ended well
  (`NoFailureLost`); `RunnerRefines` as above.
* `ConfigNodesProofs`: the types and the five properties of `config_nodes`, for any
  number of nodes, any capacity and any spare room. The properties are not inductive:
  an append is harmless only because of where slices lie. The invariant adds that no
  two host lists share an array, and that a node's list lies in the array of its
  pool's host list or in one that no host list uses; and that each place after the
  pool's hosts holds the host of that place of a node from there on that shares the array
  (`Sharers`). So external hosts are lost to later nodes only (`LostToLater`), and a node
  keeps them if no later one of its pool and role lists any (`LastKeepsHosts`). `Apart` assumes `BasesApart`: at most a hundred nodes of a role,
  and the bases of two networks at least 200 apart; with closer ones, ports do meet. It
  holds whatever directories other nodes, or the same ones, configure.
  `DefaultBasesApart` shows that the bases in the code are far enough apart.
* `UpdaterProofs`: the types; a relay announces itself (`Announced`), from the
  arithmetic fact that a longer number beginning with k is at least 10 * k
  (`LongerNumber`) and the invariant that the copy was made after the download and
  that what was found and sent belongs to a relay whose number begins with this one's.
  Hence up to ten relays announce themselves without exception (`UpToTenRelays`), and
  with more of them only the block can be another's (`OnlyTheBlockMayBeAnothers`).

Only model-checked: liveness, that is `NoGoroutineLeak`, `WriteCompletes`,
`StartsOrDies`, `TriesAgain` and the fairness of the four contracts, which rests on
ENABLED and so is out of the prover's reach. What most of them need of safety is proved:
`WaitsForWorker` for `StartsOrDies`, `PipeIsRead` for `WriteCompletes`, `NoFailureLost`
and `RealError` for the return of the runners. What is left to TLC is that a step which can be taken is taken.

## Not modelled

* The contents of `config.json` beyond "from a good reply" and the two ports that the
  monitors rely on: the other tracing settings are data that nothing here reads.
* The constants of RTView's file, the wording of logs, the banner and the help.
* The value of the log severity: only what `SetLogMinSeverity` may do to the start.
* The download to `/tmp/testnet.json` by two programs at once: each runs in a
  container with a `/tmp` of its own, and within one program there is one download.
* `GetTopology` (called by a test only), `MainnetDownloadNodes`, `NewOptimzer` and the
  optimizer command, which no command reaches; `runner/gen`, which declares a type.
* Logging: loggers are made once and only write.
* `viper`, `http`, `net` and `os/exec` themselves: they are what the code sees of them.

## Plan

What would add most to what is here:

1. A whole start: `ConfigFiles` in the place of `NodeRunner`'s step `download`, so that
   the wait group, the files of earlier lives and the runner's kills are explored in
   one state space, still under `RunnerContract`. `TopologyContract` would stand for
   `Topology` in it.
2. `Topology` fed by the lists that `ConfigNodes` builds, in place of lists that
   satisfy the same assumptions.
3. A mark for a finished copy of the database, should the code gain one: `CopySome`,
   `Kill` and `DbFound` already meet in `NodeRunner`.
