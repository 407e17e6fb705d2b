# A TLA+ verification of app-manager

app-manager watches the desired LRPs (long running processes) on the bulletin
board, an etcd store, and for each change asks the rest of the system for start
auctions, stop auctions and stops of single instances until what runs is what
is desired. It keeps nothing on disk. What makes it hard is that every change
is handled by a goroutine of its own, with one read of the store at the start
and a sequence of writes after it, while clients, auctioneers, cells and other
goroutines write too, and while changes are lost whenever no watch is
registered.

The repository vendors what app-manager is built and tested with: the bulletin
board's schema (with the calls of the other programs and the convergence that
repairs what app-manager leaves), the store adapter and its etcd client, ifrit,
and ginkgo and gomega, under which the specs run. The parts with control of
their own are modelled too.

Paths below are relative to the repository; `GH` is
`Godeps/_workspace/src/github.com`, `RS` is
`GH/cloudfoundry-incubator/runtime-schema`, `SA` is `GH/cloudfoundry/storeadapter`,
`GK` is `GH/onsi/ginkgo`, `GM` is `GH/onsi/gomega`.

## Inventory

| component | state | operations | talks to |
|---|---|---|---|
| `handler` (`handler/handler.go`) | wait group; the current watch's three channels; for each goroutine its change, the listing it fetched, the delta that is left | `Run` (receive, watch again, shut down), `processDesiredChange` | bulletin board (calls), watch (channels), LRPreProcessor (call) |
| `delta_force` | none | `Reconcile`, three loops with an early return | called by the handler and the converger |
| bulletin board of LRPs and auctions (`RS/bbs/lrp_bbs`, `start_auction_bbs`, `stop_auction_bbs`, `shared`) | nodes in etcd: desired LRPs, actual LRPs, start auctions, stop auctions, stop requests | one `Create`, `Set`, compare-and-swap, delete or listing each, wrapped in `RetryIndefinitelyOnStoreTimeout` | etcd through the store adapter |
| watch on desired LRPs (`lrp_watchers.go`, `shared/bbs_helpers.go`, `etcd_store_adapter.go`) | two goroutines for each watch, unbuffered channels, the index of the next event | register, receive, filter, send, fail, stop | etcd (long poll), the handler's `select` |
| convergence of LRPs and auctions (`lrp_convergence.go`, `*_auction_convergence.go`) | what a pass has listed | prune, kick, delete, stop, expire | bulletin board |
| tasks (`RS/bbs/task_bbs`) | the node of each task | desire, claim, start, complete, resolve, converge | stagers, executors, the converger |
| presence and locks (`services_bbs/presence.go`, `lock_bbs`, the adapter's `MaintainNode`) | a node with a TTL; per maintainer a goroutine, a timer and a status channel | maintain, renew, report, remove | etcd, the client that reads the channel |
| store adapter and worker pool (`SA/etcdstoreadapter`, `SA/workerpool`) | in-flight watches; workers, queued work, results under way | every operation, `Watch`, `Disconnect`, `ScheduleWork`, `StopWorkers` | go-etcd |
| go-etcd (`GH/coreos/go-etcd/etcd`) | the machines, the shared leader, per request its attempts | the operations' options, `SendRequest` | the etcd machines |
| lifecycle (`main.go`, ifrit: process, sigmon, grouper) | the process group, its members' states, exit statuses, signals | start, signal, exit | handler, the operating system |
| integration suite (`integration`, `SA/storerunner`, `GM/gexec`, `gbytes`, `asyncassertion`) | the etcd nodes, the session, its buffer and cursor, the assertion under way | start and stop of both, `Eventually`, `Consistently` | the app-manager process and etcd |
| ginkgo (`GK`) | the tree; per node its specs, where it is, the first failure; the server's data and counts; the tracker's hashes | build, focus, share out, run, report, interrupt, compile, watch | parallel processes over HTTP, the disk |
| lrpreprocessor | (not in the repository) | `PreProcess` succeeds or fails | handler |

Behaviours that are hard are listed as hazards in `PROJECT.json`, each at the
line where it bites. What makes each component correct:

* *delta_force*: the result is exactly the missing, extra and duplicated
  entries, nothing is stopped while an index is missing, no index is listed twice.
* *handler*: a goroutine never acts against the desired state unless its change
  has been overtaken; guids identify one index; after the newest change is
  handled without interference every desired index has an instance or an
  auction; shutdown waits for all goroutines, and ends.
* *watch*: changes arrive in order, none twice; gaps only where a watch is lost;
  the watch is made again after each failure; no goroutine piles up.
* *auctions*: an auction is claimed by one auctioneer, and ends.
* *convergence*: whatever was lost, overtaken or left half done, the board ends
  with one instance of each desired index, and a pass undoes no client's write.
* *tasks*: a task is started once, its result stays, it fails only for a reason,
  and it is resolved in the end.
* *locks*: who is told it holds a lock holds it, as long as it is not late; it is had
  again after it vanished; a release ends.
* *store adapter, go-etcd*: nil means applied; a retry repeats nothing that was
  answered; a cluster is given up only when every machine was tried; calls return.
* *lifecycle, integration*: the exit code tells what happened; an assertion gives
  up only in vain; every spec ends.
* *ginkgo*: a verdict tells what happened to every spec; shared setup is done
  before it is used; what was entered is torn down; a suite ends; a watch
  catches up.

## Modules

| module | models | extends |
|---|---|---|
| `DeltaForce` | `Reconcile` as an operator on sets: `Missing`, `Extra`, `Duplicated`, and the early return | |
| `DeltaForceLoop` | the three loops of `Reconcile` on slices, one action per iteration | `DeltaForce` |
| `DeltaForceProofs` | proofs about `DeltaForceLoop` | `DeltaForceLoop` |
| `BBS` | the nodes in the store and every request of app-manager as one attempt with an outcome: `ok`, `exists`, `timeout` (not applied), `late` (applied, answer lost), `error` | |
| `Models` | which payloads the parsers of tasks, LRPs and auctions accept: operators | |
| `ChangeFeed` | what a caller of `WatchForDesiredLRPChanges` can rely on: an abstract specification | |
| `DesiredWatch` | how it is built: the goroutine D (`dispatchWatchEvents`), the goroutine F (`WatchWithFilter` with its filter) and the select H of `Run`, for several successive watches | `Models`, instance of `ChangeFeed` |
| `DesiredWatchProofs` | proofs about `DesiredWatch`, the refinement included, and about `Convergence` | `DesiredWatch`, `Convergence` |
| `Handler` | `Run` and `processDesiredChange`, composed with board, feed and delta, and the environment | `BBS`, `ChangeFeed`, `DeltaForce` |
| `HandlerProofs` | proofs about `Handler` | `Handler` |
| `Auctions` | an auction under its key, auctioneers, the two auction convergences | `Models` |
| `AuctionsProofs` | proofs about `Auctions` | `Auctions` |
| `Convergence` | `ConvergeLRPs` composed with clients, the handler, auctioneers and cells, one process | `DeltaForce` |
| `Tasks` | the calls on a task, and `ConvergeTask` | `Models` |
| `TasksProofs` | proofs about `Tasks` | `Tasks` |
| `MaintainNode` | the adapter's `maintainNode` and its client, with a clock | |
| `EtcdClient` | go-etcd's operations and `SendRequest`, etcd's side of it | |
| `StoreAdapter` | the adapter's operations on the worker pool, `Watch`, `Disconnect` | `EtcdClient` |
| `StoreAdapterProofs` | proofs about `StoreAdapter` and `EtcdClient` together, and about `MaintainNode` | `StoreAdapter`, `MaintainNode` |
| `Lifecycle` | `main`, ifrit's process, sigmon and grouper | |
| `Session` | the gexec session, the gbytes buffer, the assertions | `Lifecycle` |
| `Integration` | the suite around them, and the etcd runner | `Session` |
| `IntegrationProofs` | proofs about `Integration`, `Session` and `Lifecycle` together | `Integration` |
| `GinkgoSpecs` | the tree of a suite, focus, order, and the share of each node: operators | |
| `GinkgoServer` | the server and the aggregator of parallel nodes: operators on their state | `GinkgoSpecs` |
| `GinkgoNode` | a test process: `SpecRunner` with its interrupt goroutine | `GinkgoServer` |
| `GinkgoWatch` | the disk and the tracker of `ginkgo watch` | |
| `Ginkgo` | the commands that compile and run suites | `GinkgoNode`, `GinkgoWatch` |
| `GinkgoProofs` | proofs about `Ginkgo` and the modules under it | `Ginkgo` |
| `MCDeltaForce`, `MCHandler`, `MCStoreAdapter`, `MCGinkgo` | constants of the runs | |

### Handler

`phase` is where `Run` is: in its loop (`running`), in `wg.Wait` (`draining`), or
over (`exited`, `killed`, `panicked`). `wg` is the wait group's counter, not a
function of the goroutines: that the two agree is proved. A goroutine is a slot
of `Workers` with a `pc`: `fetch` before `actualsForProcessGuid`, `act` between
two requests, `auction` between drawing a guid and the answer to its request.
The local variables of `processDesiredChange` are `change`, `snapshot` (the map
`instanceGuidToActual` and the slice, which hold the same LRPs), `toStart`,
`toStop`, `toStopAllButOne` (what is left of the three ranges) and `guid`.

| code | action |
|---|---|
| `handler.go:42`, `47-49` | `Watch` |
| `52-58` | `Receive` |
| `70-73` | `ShutDown` |
| `73-75` | `Return` |
| `88-89` with both nil | `DereferenceNil` |
| `96`, `102`, `181-196` | `FetchActuals`; its error `97-100` is `FetchFails` |
| `110-120` | `PrepareStart`, or `StartAborted` for the two early returns |
| `122-137` | `RequestStart`, one attempt; a timeout leaves `pc` at `auction`, and the retry is the same action again |
| `140-160` | `RequestStop` |
| `162-178` | `RequestStopAuction` |
| `56`, `179` | `Finish`; every way out shares `End`, the deferred `wg.Done` |

A request and its application by etcd are one step, because nothing of
app-manager runs between them that could tell; that an answer is lost is an
outcome of the step. Between any two steps of a goroutine all others and the
environment may step. The ranges over indices go in the order of the slice,
which `IndicesIncreasing` shows to be increasing, so `First` is the smallest
element; guids to stop are taken in any order, which is the order of a directory
listing. The environment is what other programs do with the bulletin board,
through the functions of `RS` they call; it obeys no protocol beyond theirs.
`Leftovers` are the instances that may run before app-manager starts.

Two variables are history, read by properties only. `late[w]` says an attempt of
the request in progress was applied without an answer. `clean[p]` says that the
last fetch for `p` was made on the newest change, by the only goroutine on `p`,
with no stop under way, and that since then nothing it relies on went wrong (no
error, no crash of an instance, no failed auction, no lost change).

### DesiredWatch

A channel is unbuffered, so a send and its receive are one step of both sides.
`D` dials (`dial`), waits for the long poll (`wait`), holds an event for F
(`send`), holds an error (`fail`) or has returned. `F` is in its `select`, in
`chanValue.Send` (`send`), in its send of an error (`fail`), or has returned.
`Send` stands outside the select, so in `send` F sees neither a stop nor an
error; this is what the run `watch_stop` is about. The `watch-closed` branch of
`Run` (`59-62`) is the same step as a closed error channel (`64-68`), `HError`:
both channels are closed by the same deferred calls, when D's own have been
closed, and `Run` reacts to both alike.

### Tasks, Auctions and Convergence

Tasks do not depend on each other and auctions only on those under the same
key, so each module has one node. `Tasks`: a call reads the node (`getTask`),
checks the state, and writes with `CompareAndSwapByIndex`; `call[c].fresh` says
whether the node is still the one that was read, which is all an index that is
never used twice can tell. Ages are ticks up to the durations that matter. The
converger's pass is a listing of the tasks, then one of the executors, then the
writes, in the order of `convergence.go:32-60`. `Auctions`: a claim compares the
value, a kick the index and a deletion nothing; `kind` chooses start or stop
auctions, which share the protocol line by line. `Convergence`: the handler is
here two steps, `HandlerFetch` and `HandlerAct` (the fetch, and the requests for
its result), whose finer steps are `Handler`'s; `HandlerFails` ends it early.
`Misfortune` is what auctioneers, cells and etcd may lose: an auction, a stop
request, an instance, an executor. The converger lists executors, lists and
prunes actual LRPs, lists the desired LRP, writes (a kick, or the deletion of an
invalid value), and requests stops. A kick writes the value that was listed, when the
index is still the one that was listed.

### MaintainNode

The goroutine of `maintainNode` is in its `select`, at a request that has not reached
etcd, waiting for its answer (`answer`), or at a send on the unbuffered status channel.
Time is in ticks, and the timer fires twice per TTL. `Tick` is possible in every state:
go-etcd sends a request again up to `2n - 1` times with no bound on the time, and a
client may be slow to read the status, so time passes while a request, its answer or
the goroutine waits. The time a send took is taken off the interval
(`elapsedChannelSend`): the timer of the model runs on during the send. After a
failed renewal the goroutine backs off only when the status has been read, as in the
code. `MaxDelay` bounds no delay: a tick in which nobody is later than that is an
ordinary one (`Prompt`), any other counts against `MaxFailures`, so that a finite
number of them is explored. `MaintainNodeAssumption` says nothing of delays.

`slack[m]`, which only properties read, is what the TTL leaves after the interval
(`Slack`), less the ticks in which `m`'s timer had fired and its round was not over,
since etcd last applied or refused a request of `m`'s; a reset of the store uses it up.

### EtcdClient and StoreAdapter

A request of go-etcd is at `sleep`, `send` or `sent`; `Leader` is the field all
requests share without a lock, so a switch by one redirects the others. `Code`
and `After` are etcd's side. An operation of the adapter schedules one request
per key on the pool, of at most `MaxKeys`, and collects the results in the order they
come;
`SetMulti` and `Delete` keep the first error. `Disconnect` is `StopWorkers`,
`WorkersStopped`, `cancelInflightWatches`.

### Lifecycle, Session and Integration

`main` starts the group, then logs "started", then envokes the monitor, which
calls `signal.Notify`: in between a SIGTERM ends the process by itself. An ifrit
process has one exit status in a channel of capacity one, which each waiter
takes and puts back: `got`. The session's `monitorForExit` takes the exit code and
closes the buffer; a poll first asks whether anything may change
(`MatchMayChangeInTheFuture`, `async_assertion.go:117`) and then the matcher, and
writes may come between. In
`Integration` a failed assertion ends the block it is in; the later blocks run.

### Ginkgo

An invocation is a command, its flags and the suites it finds. A suite is the
sequence of calls of the DSL, from which `Declared` builds the tree. `Run` fixes
what each process will be given: its flags, and the order its seed draws
(processes with equal seeds draw the same order). Each process computes its own
specs (`generateSpecs`), with its share by `ParallelizedIndexRange`. In
`GinkgoNode` the goroutine `main` and the goroutine `handler` (of the interrupt)
go through the steps of `SpecRunner.Run`; the failer keeps the first failure
until it is drained; a subject that fails after its spec is over fails the next
(`StrayFails`). What a sample still has to run is a set of nodes, `todo`, of which
`IsFirst` goes first: `Earlier` is the order of the loops in `spec.go`. The server's operators say what a request does to `remote`.
A poll for the data of node 1 is two steps, as `handleBeforeSuiteState` is
(`server.go:185-186`): `waitForA` is the look at the data, and, when they are pending,
`askAlive` the question whether node 1 is alive, with all other nodes in between. The
copy of the data is one step: with the one thread that this version of Go uses by default, a
goroutine gives way only where it calls something.
`mayGoWrong` is how often something may go wrong in an invocation: a node of the
tree that does not pass, a lost request, a crash, an interrupt, a process that
does not start, a compilation that fails. `seen` is what the last compilation
of a watched suite read. `InvocationAssumption` says what an invocation is, and
`TreeAssumption` that what `Declared` and `Collate` build from the calls of a suite
lists every subject once, with its containers; both are evaluated in the run. For its properties each file is the number of edits
it has had; modification times are compared as the code does.

## Runs

All runs together reach every action.

| run | question | result |
|---|---|---|
| `reconcile` | do the loops return what the sets say, in increasing order, on every slice of at most 4 instances, every index up to 3, every count from -1 to 3 | holds |
| `handler` | what two goroutines on one process can do to each other and to a clean change, with a lost answer, kill or panic, restart and shutdown | holds, 480 000 states, 2 min |
| `handler_nil_change` | does the process survive every change it receives | violated |
| `watch` | order, no duplicates, no goroutine left behind, a watch again, and does `DesiredWatch` implement `ChangeFeed` | holds |
| `watch_stop` | are the channels closed when told to stop | violated |
| `tasks` | two executors, a stager and the converger on a task, with a fault and a crash | holds |
| `auctions` | two auctioneers and the converger on two auctions of a key | holds |
| `converge` | does the whole system come to what is desired | holds, 210 000 states |
| `maintain` | two maintainers of a key, with slow requests, answers and readers | holds, 230 000 states, 3 min |
| `store_adapter` | every operation and a watch, two workers, two machines | holds, 307 000 states |
| `integration` | two specs around an app-manager and two etcd nodes | holds, 160 000 states |
| `ginkgo` | eight invocations: parallel with shared setup and teardown, with shared setup only, nested containers, focus on nodes with unequal shares, a suite that panics, until it fails with filters, and two watches | holds, 295 000 states, 2 min |

The two violations are disagreements between code and tests:

* `handler_nil_change`: `ChangeDesiredLRP` deletes with `CompareAndDelete`.
  `makeWatchEvent` has no case for etcd's action `compareAndDelete` and returns an
  event without nodes; the filter passes a change without `Before` and `After`;
  `processDesiredChange` dereferences `Before`. The tests describe deletions as
  changes with a `Before` whose instances are stopped.
* `watch_stop`: a stop that comes while F is blocked in `Send` is not noticed, so
  F stays and closes nothing, against "closes the events and errors channel when
  told to stop". In `Run` the process ends soon after, so the goroutine is lost
  only for as long as the shutdown takes.

### What the properties do not say

Several properties name exceptions. Each exception is a behaviour of the code
that the model has too.

* `CleanMeansCovered` is what app-manager gives on its own: it is conditional on
  `clean`, and each of the three conjuncts of `CleanFetch` is needed. Unconditionally
  it is false, because of a fetch that failed, a change that was lost, an older
  goroutine that acted last, or an instance that stopped after the fetch had
  counted it. `EventuallyConverged` says that the converger repairs those.
  `OnlyOvertakenContradict` says that the only source of requests against the
  desired state is overtaking; `ReauctionOnlyAfterLostAnswer` bounds what a retry
  can do.
* `PendingDeletedOnlyByLate`: deletions are by key, so a late `Resolve`, or a
  converger that listed an earlier auction, does delete a newer one.
* `EventuallyConverged` takes the desired LRP that is left as the truth: the
  converger deletes an invalid value by key, and with it a valid one a client
  wrote in between.
* `AppliedOnce`: after a lost answer a `Set` is applied again, and a `Create` that
  was applied fails.
* `NotReachableMeansTried` speaks of a request that was left alone: `Leader` is
  shared, and other requests may send it to the same machine over and over; so
  may a redirect, after which one of three machines can remain untried.
* `CallsReturn` excepts calls on a stopped pool, whose work is dropped, and a
  watch that registers after `Disconnect` has cancelled the others.
* `ExitTellsTruth`: a SIGTERM after "started" and before `signal.Notify` ends the
  process with 143 and without draining.
* `ToldMeansHeld` excepts a client that is being told the contrary, and one that was
  late (`slack`): requests, answers and a slow reader together took what the TTL leaves
  after the interval. Nothing in the code keeps it from believing in a lock that has
  expired for as long as that goes on. The other way round it says that there is no
  other way to be misled: with less lateness than that, whatever expires, fails or is
  restarted, the lock is held. Time a reader takes off the interval is no lateness.
* `StartedMeansUp`: a start of etcd that times out at the second node leaves the
  first behind, and the next start finds its port taken.
* `VerdictTellsTruth` excepts a race from "a failing result means that something went
  wrong" (`ToldTooLate`). The server reads the data of node 1 (`server.go:185`) and then
  asks, without a lock, whether node 1 is alive. In between node 1 may send the data of
  a setup that passed, run its specs and exit, unless the suite has a
  `SynchronizedAfterSuite` in which it waits. The node that polled then fails with
  "Node 1 disappeared before completing BeforeSuite"
  (`synchronized_before_suite_node.go:107`), and a good suite with it. The invocation
  with shared setup only has it: without this exception, and with nothing that can go
  wrong, TLC finds the property violated in it.
* `VerdictTellsTruth` and `ReportsAddUp` claim nothing of parallel nodes whose seed is
  not positive: `BuildFlagArgs` does not hand it on, each node shuffles with the time it started,
  and a spec may run twice or nowhere while the suite passes. `ReportsAddUp` also
  leaves out suites in which something went wrong: the result of the aggregator is
  not looked at, so a suite passes although reports were lost.
* `SuiteEnds` names three ways to wait for ever: a node that a signal killed, or
  that did not start, looks alive to node 1's `SynchronizedAfterSuite`; a lost
  POST of the shared data; a node that ran its ending twice after an interrupt,
  so that the aggregator stops listening.
* `WatchCatchesUp` excepts changes that leave only older files (a file that is
  removed), dependencies whose directory went away, and a watch that ended: one
  whose suite's directory goes and comes back dereferences a nil hash.

Also seen, and in the model, without a property of their own: an interrupt
between two suites ends `ginkgo` with exit status 0 when those that ran passed;
an interrupt during the `AfterSuite` runs it twice.

### Bounds

| run | constants | why they are enough |
|---|---|---|
| `handler` | 2 goroutines, 1 process, 2 instances, 2 guids, 2 writes, 1 timeout, 1 restart, `Leftovers` | an overtaking, a duplicate start and a stale stop each need two goroutines; scaling down and up needs a missing, an extra and a duplicated index; nodes and decisions belong to one process; two guids are two instances at one index; nothing survives a restart, so a second repeats the first. `Leftovers` gives a duplicated index without the changes that would lead to it |
| `watch` | 3 events, 2 errors, 1 clearing | an event before, during and after a gap; three successive watches |
| `tasks` | 2 executors, 1 stager, 1 fault, 1 crash, 1 `DesireTask` | a claim raced for, a task demoted and claimed by the other, one call that is lost |
| `auctions` | 2 auctioneers, 2 auctions, 2 faults | a late `Resolve` of one meets the other; a lost watch and a lost answer together |
| `converge` | 1 index, 1 executor, 1 goroutine, 7 guids, 2 changes, 1 fault | desired, undesired or invalid and then changed; duplicates need guids, not indices; with two executors it holds as well (1.4 million states, too slow to keep); with two goroutines the graph is beyond two million states, and overtaking is `Handler`'s subject |
| `maintain` | 2 maintainers, TTL 6, delay 1, 2 faults, 2 starts | with an interval of 3, a tick of delay on either side of a request leaves the node alive, so that `EventuallyHeld` may hold; a fault is a tick of lateness, a lost or failed request, a reset or a death, so two of them are a slow reader whose next request is lost, or two late ticks in a row |
| `store_adapter` | 2 keys, at most 2 for a call, 2 machines, 2 workers, 1 call of any operation, 2 faults, a watch | a call with two requests; a leader that dies and a lost answer |
| `integration` | 2 specs, 2 etcd nodes, 2 slow nodes, 2 signals, 1 panic | what one spec leaves meets the next; a start that fails half way, and a stop |
| `ginkgo` | 2 nodes, 2 edits, depth 2, `mayGoWrong` 0 to 2 | unequal shares; an edit before and after a compilation; a failure and a failure of the teardown |

No run uses symmetry: all but two check liveness. Deadlock is not checked: the bounded
systems stop when clients have done all they may, and a process that has exited
has no step.

### Fairness

Everywhere: goroutines and processes that can run do (weak fairness), nothing is
assumed of clients, signals, errors, crashes or losses, and these are bounded by
the constants, so liveness says nothing about a store that never comes back.

* `Handler`: weak fairness of `Return`, of receiving and of each goroutine. A
  receive competes with the other cases of the `select`, which are bounded in
  number. `DesiredWatch`: weak fairness of D, F and H for each watch.
* `Tasks`: strong fairness of executors' `StartTask` and of stagers' calls: the
  interval of convergence is longer than a call, so the converger does not come
  first for ever. `Auctions`, `MaintainNode`: the clock, the converger, clients
  that read; `Release` is strongly fair, because Go's `select` chooses at random
  between a ready timer and a ready release.
* `Convergence`: all parts run on, executors come back, and a goroutine fetches
  (strong fairness, since it competes with other changes for the slot).
* `StoreAdapter`: a machine that is up answers, those left elect a leader.
* `Integration`: an assertion times out when its time is over (strong fairness,
  as it competes with polls).
* `Ginkgo`: something that can go on does (`Progress`), which is enough since a
  suite is a finite number of such steps; `StopWatch` is strongly fair, as the
  `select` between a tick and the interrupt does not take the tick for ever.

## Proofs

A theorem holds for every value of the constants that satisfies the named
assumptions; these are evaluated by TLC in the runs. Each inductive invariant
was model-checked on the run's instance, some on a larger one, before it was
proved. An invariant's proof has a lemma for each action, and where many actions
do the same to the state, a lemma for what they have in common: "a step that
leaves the goroutines alone", "a write of the node", "one request changes".

### Reconcile

`DeltaForceProofs` is for every set of guids, every set of integer counts and every slice
of distinct instances (`NumDesiredsAssumption`, `InputsAssumption`: a listing has
one node for each instance).

* `ReconcileCorrect`: `Spec => []ComputesReconcile`. The invariant says, for
  each loop, that the slice built so far is the definition restricted to what
  the loop has passed (`MissingBelow(i)`, `ExtraUpTo(i)`, `DupBelow(i)`), and
  that after the first loop no index is missing. `Within` is needed for negative
  counts, where the loop variable starts past the end. `CountPositions` relates
  the number of positions of a slice to the number of instances in its range.
* `NoIndexTwice`: `Spec => []IndicesIncreasing`, from the same invariant: all
  elements of the slice are below the loop variable that is appended.
* `DeltaForceTypeCorrect`.

### The handler

`HandlerProofs` is for every set of processes and guids, every finite set of
goroutines, every `MaxInstances`, every set of ways to delete, all leftovers and every bound
(`MaxInstancesAssumption`, `HandlerAssumption`, `LeftoversAssumption`: among the
instances that run before app-manager starts a guid names one). The inductive
invariant `IInv` is

* `TypeOK`;
* `WgCounts`: `wg` is the number of goroutines that run, preserved because
  `Receive` adds one, `End` takes one away, and no other step changes either;
* `NobodyLeft`: a process that is over has no goroutines; `Return` needs
  `WgCounts` for it;
* `AuctionReady`: a goroutine at its request has an index and a guid, without
  which the auction it writes would not be typed;
* `StopsKnown`: guids to stop are keys of the map, without which
  `actualToStop` would be the zero value;
* `NothingToStop`: before the fetch there is nothing to stop, so a new change in
  a slot does not meet an old delta;
* `StopsOnlyWhenCovered`.

From it follow `HandlerTypeCorrect`, `ShutdownDrains` (`[]DrainedOnExit`) and
`StopsCovered` (`[]StopsOnlyWhenCovered`). Three further invariants are
inductive on top of it:

* `GuidsOK`, for `GuidsNameOneIndex` and `ReauctionsLate`. `Named` is everything
  a guid is used for: in the store, in a goroutine's snapshot, or in the request
  it is about to send. A guid has one use, and all uses are of guids that were
  drawn. A step adds no use, except that `PrepareStart` draws a fresh guid. And a
  guid whose request was not applied is unknown to everybody else (`Unsent`).
* `ActsOK`, for `OvertakenContradict`. A change with the newest index of its
  process says what is desired (`ChangesCurrent`); what a goroutine still has to
  start or thin out is desired by its change, what it has to stop is not (`OwnOK`).
* `CleanOK`, for `CleanCovered`. While a process is clean, its newest change is
  still to be fetched (`Pending`), or no stop is under way for a desired index
  and each desired index is covered or in the hands of a goroutine that has
  fetched (`Settled`).

### The watch

`DesiredWatchProofs` is for logs of any length and any number of errors and
cleared histories (`DesiredWatchAssumption`). Its invariant says that only the
newest watch has goroutines (`OnlyNewest`, `NewestBegun`), that only a shutdown
stops a watch and any other end is an error's (`StopsAtEnd`, `EndsOnError`, which
also shows that a number is left for each new watch), and that what was
delivered is before what F holds, which is before what D will ask for (`Asks`,
`Ahead`). `EventsInOrder` and `NoWatchLeftBehind` follow.

`WatchImplementsFeed` is the refinement: `Spec => ImplementsFeed`, that is,
`DesiredWatch` with the mapping of its `INSTANCE` implements `ChangeFeed`, which
`Handler` is composed with. The feed of the mapping is the event F holds followed
by those D holds or will ask for, the increasing list of a set of positions
(`InOrder`). That a finite set of numbers has one such list, that it grows at the end
when a larger number comes and that it loses its head with the least, is shown
by least counterexamples (`LeastNumber`), since no induction principle can be
applied here. Then each action is shown to be a step of the feed or to
leave it as it is; `NotBeyond` says that D never asks for more than the next event.

The same module has the converger (`Convergence`), whose kicks that watch sees. A
pass swaps only what it listed as desired and valid (`PassOK`), and if its listing is
still fresh, what it listed is what is there (`FreshIsDesired`). A kick
writes the value listed, and only when the listing is fresh, so it replaces a value
by itself: `KicksUndoNothing` is `[]KicksChangeNothing`, for any numbers of processes, goroutines, changes and faults
and with no assumption on them, and `KickSwapsSame` is `[]FreshIsDesired`.

### Tasks and auctions

`TasksProofs` is for any number of executors and stagers, any durations, faults,
crashes and desires (`TasksAssumption`: nobody is called `NoOne`, and no executor is
a stager). The argument is what a fresh index is worth: a call (`FreshCalls`) or a pass
(`ListedPass`, `SwapPass`) whose node is still the one it read is about to write a
value that follows from the node there is now, and after a write nothing is
fresh. With `StartsOnce` this gives `TaskStartedOnce`; `TaskResultStays` follows
from the shape of what may be written (`Repairs`), and `TaskFailedOnlyIfLapsed`
from `GoneLapsed`: the executor of a claimed task is present, or it lapsed since
the claim, and the tasks are listed before the executors.

`AuctionsProofs` is for any number of auctioneers, auctions of a key and faults
(`AuctionsAssumption`). The node is the last auction requested or absent
(`NodeIsLast`), a pending auction has not been claimed (`Unclaimed`), and none is
pending again once claimed: what a pass swaps back it listed as pending, and a
fresh list is the node (`FreshIsNode`, `ListedEarlier`, `DecidesByState`). This gives
`AuctionClaimedOnce`; that who resolves holds what it resolves (`ResolvesHeld`)
gives `PendingDeletedLate`.

### Locks

`StoreAdapterProofs` has `MaintainNode` too, for every set of maintainers, any TTL with
an interval, and requests, answers and readers that are late in any way
(`MaintainNodeAssumption`). A client that was told owns the node or is about to be told
otherwise (`ToldByOwner`). The node of an owner outlives its next round by what is left
of its slack (`OwnerHasTime`: unless `slack[m] = 0`, the owner's value is in the store,
`ttl >= slack[m]` and `ttl >= slack[m] + timer[m]`), and a request that etcd has applied
outlives the interval that begins when its answer comes by that slack
(`AppliedHasTime`). A tick takes one from the node and one from the timer or, when that has
fired, from the slack. `LockHeld` is `[]ToldMeansHeld`; `LockExclusive` says that of two
clients that both believe in a lock one was that late, or is being told otherwise, or
the store was reset.

### The store adapter and go-etcd

`StoreAdapterProofs` is for any keys, machines, workers, callers and faults, for
operations of any number of keys (`EtcdClientAssumption`, `StoreAdapterAssumption`:
the operations are the adapter's, and none has more than `MaxKeys` keys, which is any
number). All requests
share `Leader`, so the
invariant about one request (`RequestOK`) takes the leader as a parameter: a
change of the leader is shown to leave the others' invariants in place or to
disturb them. `Ends` says that a request that ends without an error was applied;
with `CallOK` (a call has an error from its first failed result on, and returns
last) this is `StoreNilMeansApplied`. `Retried` (a request under way that was
applied has had its answer lost) gives `StoreAppliedOnce`. `Tries` says that attempt
`j + 1` of an undisturbed request goes to the machine whose turn it is; two rounds
less one reach every machine, which gives `StoreTriesAll`. In a cluster of three
the proof failed until a redirect counted as a disturbance: TLC showed the
machine that stays untried, which two machines cannot.

### The integration suite

`IntegrationProofs` is for any members, any number of etcd nodes and specs, any
number of slow nodes and panics (`LifecycleAssumption`, `IntegrationAssumption`:
a process may be sent the two signals `Stop` and `KillWithFire` send). `EtcdOK` is
about the loops of the runner and gives `EtcdIsUp`. `AppOK`: a status that was
waited for is final (`Waited`), so the monitor's status sums up the members'
(`SumsUp`) and the exit code the monitor's (`CodeOK`), and exit code 143 means
that `signal.Notify` had not been called; this gives `ExitCodeTrue`. `SessionOK`:
the buffer is closed when everything written is in it (`Recorded`), so what the
oracle and then the matcher said of a closed buffer still holds when they are
judged (`Asserted`); this gives `GivesUpInVain`.

### Ginkgo

`GinkgoProofs` is for any number of nodes, any set of invocations with any suites,
flags and seeds, and whatever goes wrong (`NodeAssumption`, `InvocationAssumption`,
`TreeAssumption`). It starts with what each step does to the record of its process,
because `Running` writes it through an operator parameter, which the provers take
only when it is expanded for each outcome of a body (`Frame`, `BodyRan`, `RunB` to
`Starts`); `NextKinds` and `CommandKinds` sort the steps of `Ginkgo` into a few kinds.

* `SharedSetupHolds`: `Spec => []SharedSetup`. `SharedInv` says that a process that
  has data has node 1's, and that a process in or after its second half has data
  (`ProcShared`); that the server has data only when node 1 has passed its first half
  (`DataOfOne`); and that node 1 tears down only after the others (`OthersGone`).
* `UnwoundHolds`: `Spec => []Unwound`. `SampleInv` follows a sample. On the way in,
  what ran is everything that is before what is left, all of it passed
  (`WayIn`); on the way out, the nodes left and those that ran are the `AfterEach`s of
  the containers that were entered, in their order (`WayOut`). The node that ends the way in is
  the one whose level says which containers those are, and the state of the sample
  is its first failure's (`FirstFailure`).
* `SharesPartition`: for any number of specs and nodes, the shares of
  `ParallelizedIndexRange` are consecutive, disjoint and together everything. The proof
  is arithmetic on quotient and remainder (`Division`, `Shares`, `SharesApart`,
  `SharesCover`).
* `VerdictHolds`: `Spec => []VerdictTellsTruth`. Each process's specs are its share of
  what it was told to list, with states that only move forward (`ProcVerdict`); exit
  status 0 or 197 means that all its specs are excused and its setup passed
  (`ByNow`, `EndedWell`); a result that passes merges such processes only
  (`CliVerdict`). With equal seeds the lists are equal, and `SharesPartition` gives
  each subject one owner (`OneOwner`, `PassedMeansWell`). For a result that fails,
  `SmoothInv` says that while nothing went wrong no process fails or waits in vain
  unless a pending spec fails it (`Smooth`, `FailuresExcused`), as long as nobody was
  told too late (`AtRisk`): a process at `askAlive` that finds node 1 gone finds its data
  with the server (`DataGiven`), which is `ToldTooLate` from then on (`LateStays`).
* `ReportsHold`: `Spec => []ReportsAddUp`. `ReportInv` relates the aggregator to how
  far each node is, while nothing has gone wrong: of each subject, what was announced
  and what waits for the last node to begin are together the specs that nodes are
  through with (`Logged`); the sums over the summaries are the sizes of what the nodes
  that have begun, or ended, were given (`Tallied`); and a node runs what it was to run
  and nothing else (`OnTrack`). At the end all nodes have exited (`CliVerdict`), so by
  `OneOwner` each subject was told of once (`ToldOnce`), and as every place is on one
  node the sums make up the whole suite (`SharesOfAll`). The aggregator's `Total`
  is a recursive function, about which nothing can be proved by induction here: that
  a summary more adds its number (`TotalOfAppend`) follows from least counterexamples
  (`LeastNumber`), by which the partial sums exist and are unique (`SumsExist`,
  `SumsAgree`).

### Model-checked only

The liveness properties, which are beyond the prover: `Drains`, `KeepsWatching`,
`EventuallyResolved`, `AuctionsEnd`, `EventuallyConverged`, `EventuallyHeld`,
`RemoveReturns`, `CallsReturn`, `SpecsEnd`, `SuiteEnds` and `WatchCatchesUp`. Every
other property of a passing run is a theorem.

## Not modelled

* lrpreprocessor: not in the repository; it succeeds or fails.
* JSON, HTTP, TLS and flag parsing. A value that does not parse is `invalid` where
  a handler drops or deletes it; a request arrives, is refused or is lost.
* Getters and watchers of tasks, services and LRPs that app-manager does not
  call: they list, filter and change nothing.
* go-etcd's saving and loading of its configuration, `SyncCluster` and `AddChild`:
  not called here.
* Gomega's matchers but `Say` and `Exit`, its HTTP server, ginkgo's reporters beyond
  what they announce, and the commands that rewrite files (bootstrap, generate,
  convert, nodot, unfocus): values, layout and syntax trees, with no control that
  could be interleaved.
* Test doubles (`fake_bbs`, `fakestoreadapter`, `fakeyagnats`), logging, uuid, the
  NATS client, which nothing in app-manager calls.
* A copy of the shared data that is torn by a POST (`server.go:183-185`): the build of
  go 1.3 (`Godeps.json`) runs one thread unless it is told otherwise, and a copy calls
  nothing. A GET in the middle of the decoding finds the data and still the state
  `pending`, since the state is the last field: to its reader that is a `pending` like any.
* In `ginkgo`: the order in which `ModifiedSuites` sorts (any order is allowed),
  coverage profiles and notifications.

## Plan

1. Done: the modules, their runs, and the proofs above: every safety and action
   property is a theorem.
2. Larger instances of `Convergence` (two goroutines, two indices), where a
   coarser step of the auctioneers would make room.
