-------------------------------- MODULE Ginkgo --------------------------------
(***************************************************************************)
(* The ginkgo command: "ginkgo" compiles suites and runs them one after    *)
(* the other, each as one process or as several parallel nodes, and        *)
(* "ginkgo watch" does so whenever a package changes.  An invocation is    *)
(* the command with its flags and the suites that it finds.                *)
(***************************************************************************)
EXTENDS GinkgoNode, GinkgoWatch

CONSTANT
    Invocations      \* [command, suites, conf, numCPU, stream, keepGoing, untilItFails, randomizeSuites, args, mayGoWrong]

\* The command itself has no flags for the number of a node and of all nodes.
ASSUME InvocationAssumption ==
    \A inv \in Invocations :
        /\ inv.numCPU \in Int /\ inv.numCPU <= MaxNodes /\ inv.mayGoWrong \in Nat
        /\ DOMAIN inv.conf = DOMAIN Unset /\ inv.conf.node = Unset.node /\ inv.conf.total = Unset.total
        /\ inv.suites \in Seq(Range(inv.suites))

VARIABLES
    cli,             \* the ginkgo process
    seen             \* what the last compilation of each watched suite read

vars == <<job, remote, node, mayGoWrong, disk, tracker, cli, seen>>
suiteVars == <<job, remote, node>>
watchVars == <<disk, tracker, seen>>

-----------------------------------------------------------------------------
PassingRunResult == [passed |-> TRUE, focus |-> FALSE]
FailingRunResult == [passed |-> FALSE, focus |-> FALSE]

Merge(r, o) == [passed |-> r.passed /\ o.passed, focus |-> r.focus \/ o.focus]

\* What TestRunner.run returns for a process; one that did not start has failed.
ResultOf(p) ==
    IF p.up = "failed" THEN FailingRunResult
    ELSE [passed |-> p.code \in {0, FocusExitCode}, focus |-> p.code = FocusExitCode]

\* A test binary, by the calls that build its tree.
Suite(calls) == [ginkgo |-> TRUE, tree |-> Declared(calls)]
GoTest == [ginkgo |-> FALSE, tree |-> NewSuite]
SuiteOf(id) == IF cli.inv.command = "watch" THEN GoTest ELSE cli.inv.suites[id]

WasInterrupted == cli.interrupts > 0

\* Anything but the processes of the suite.
Only(c) == cli' = c /\ UNCHANGED <<job, remote, node, mayGoWrong, disk, tracker, seen>>

-----------------------------------------------------------------------------
(* RunSuites.                                                              *)

\* The compilers start at once.
RunSuites(c, order) ==
    [c EXCEPT !.pc = "suites", !.order = order, !.next = 1, !.compile = [i \in DOMAIN order |-> "waiting"],
              !.res = PassingRunResult]

\* The callback of "watch" comes before the compilation.
willCompile(i) ==
    /\ cli.pc # "exited" /\ i \in DOMAIN cli.order /\ cli.compile[i] = "waiting"
    /\ tracker' = IF cli.callback THEN WillRun(tracker, cli.order[i]) ELSE tracker
    /\ cli' = [cli EXCEPT !.compile[i] = "started"]
    /\ UNCHANGED <<job, remote, node, mayGoWrong, disk, seen>>

\* What a compilation of a suite reads.
Sources(s) == [p \in {s} \cup NewDependencies(s, Depth) |-> <<disk.dir[p].code, IF p = s THEN disk.dir[p].test ELSE 0>>]

\* The outcome after up to five retries; a suite is compiled only once.
compile(i) ==
    /\ cli.pc # "exited" /\ i \in DOMAIN cli.order /\ cli.compile[i] = "started"
    /\ \E ok \in BOOLEAN :
           /\ IF ok \/ (cli.inv.command = "watch" /\ ~There(cli.order[i])) THEN Fine ELSE Wrong /\ cli.order[i] \notin cli.compiled
           /\ (ok /\ cli.inv.command = "watch") => There(cli.order[i])
           /\ cli' = [cli EXCEPT !.compile[i] = IF ok THEN "ok" ELSE "error",
                                 !.compiled = IF ok THEN @ \cup {cli.order[i]} ELSE @]
    /\ seen' = IF cli.inv.command = "watch" THEN (cli.order[i] :> Sources(cli.order[i])) @@ seen ELSE seen
    /\ UNCHANGED <<job, remote, node, disk, tracker>>

Orders(k) == {f \in [1 .. k -> 1 .. k] : \A i, j \in 1 .. k : f[i] = f[j] => i = j}

\* What Shuffle and Permuted may draw.
Seeds(suite, conf) ==
    Orders(IF conf.randomizeAllSpecs THEN Len(suite.subjects) ELSE Len(suite.containers[1].nodes))

\* The specs of a suite are its subjects, each once, whatever is drawn.
ListsAll(suite, conf) ==
    /\ suite.subjects \in Seq(Range(suite.subjects))
    /\ \A perm \in Seeds(suite, conf) :
           LET all == AllSpecs(suite, conf, perm)
           IN /\ DOMAIN all = DOMAIN suite.subjects
              /\ \A k \in DOMAIN suite.subjects : \E i \in DOMAIN all : \A j \in DOMAIN all : all[j].subject = k <=> j = i

\* A tree is what Declared makes, and Collate goes through all of it.
ASSUME TreeAssumption == \A inv \in Invocations : \A id \in DOMAIN inv.suites : ListsAll(inv.suites[id].tree, inv.conf)

\* What process n makes of its command line; it starts at a time of its own.
cmd(conf, n) == Flags(BuildFlagArgs(conf), -n)

\* The number of nodes, unless it is given.
computeNodes(nodes, auto, cpus) ==
    IF nodes # 0 THEN nodes ELSE IF ~auto THEN 1 ELSE IF cpus <= 4 THEN cpus ELSE cpus - 1

\* How many processes a suite has, and of which kind its run is.
IsParallel(suite) == suite.ginkgo /\ cli.inv.numCPU > 1
TotalOf(suite) == IF IsParallel(suite) THEN cli.inv.numCPU ELSE 1

ModeOf(suite) ==
    IF ~suite.ginkgo THEN "gotest"
    ELSE IF ~IsParallel(suite) THEN "serial" ELSE IF cli.inv.stream THEN "stream" ELSE "parallel"

\* The flags of process n.
ConfOf(suite, n) ==
    cmd(IF IsParallel(suite) THEN [cli.inv.conf EXCEPT !.node = n, !.total = TotalOf(suite)] ELSE cli.inv.conf, n)

\* TestRunner.Run: the specs of each process are in the order that it will
\* draw; equal seeds give equal orders.
Run(suite) ==
    LET nodes == 1 .. TotalOf(suite)
    IN \E perm \in [nodes -> Seeds(suite.tree, cli.inv.conf)] :
           /\ \A n, k \in nodes : ConfOf(suite, n).seed = ConfOf(suite, k).seed => perm[n] = perm[k]
           /\ job' = [suite |-> suite.tree, total |-> TotalOf(suite), mode |-> ModeOf(suite),
                      conf |-> [n \in nodes |-> ConfOf(suite, n)],
                      all |-> [n \in nodes |-> AllSpecs(suite.tree, cli.inv.conf, perm[n])]]
           /\ remote' = NewRemote
           /\ node' = [n \in Nodes |-> Off]

\* The head of the loop: the next suite, when it is compiled.
NextSuite ==
    /\ cli.pc = "suites" /\ cli.next \in DOMAIN cli.order /\ ~WasInterrupted
    /\ \/ /\ cli.compile[cli.next] = "ok"
          /\ Run(SuiteOf(cli.order[cli.next]))
          /\ cli' = [cli EXCEPT !.pc = "running", !.suiteRes = PassingRunResult, !.collected = {}]
       \/ /\ cli.compile[cli.next] = "error"
          /\ cli' = [cli EXCEPT !.pc = "suiteRan", !.suiteRes = FailingRunResult]
          /\ UNCHANGED suiteVars
    /\ UNCHANGED <<mayGoWrong, disk, tracker, seen>>

\* A process builds its tree, and the specs from it; one that panics on the
\* way never gets to them.
Started(n) ==
    IF job.suite.panicked THEN [Off EXCEPT !.up = "gone", !.code = 2]
    ELSE [Off EXCEPT !.up = "up", !.specs = generateSpecs(job.suite, job.conf[n], job.all[n]),
                     !.focused = HasProgrammaticFocus(job.conf[n], job.all[n])]

Start(n) ==
    /\ cli.pc = "running" /\ n <= job.total /\ node[n].up = "off"
    /\ \/ Fine /\ node' = [node EXCEPT ![n] = Started(n)]
       \/ Wrong /\ node' = [node EXCEPT ![n].up = "failed"]
    /\ UNCHANGED <<job, remote, disk, tracker, seen, cli>>

\* cmd.Wait returns
Wait(n) ==
    /\ cli.pc = "running" /\ node[n].up = "gone" /\ ~node[n].reaped
    /\ node' = [node EXCEPT ![n].reaped = TRUE]
    /\ UNCHANGED <<job, remote, mayGoWrong, disk, tracker, seen, cli>>

Completion(n) ==
    /\ cli.pc = "running" /\ n \in 1 .. job.total \ cli.collected
    /\ node[n].reaped \/ node[n].up = "failed"
    /\ Only([cli EXCEPT !.collected = @ \cup {n}, !.suiteRes = Merge(@, ResultOf(node[n])),
                        !.pc = IF Cardinality(cli.collected) + 1 < job.total THEN @
                               ELSE IF job.mode = "parallel" THEN "result" ELSE "suiteRan"])

\* The result of the aggregator, or a second without one; the value is not used.
AwaitResult ==
    /\ cli.pc = "result"
    /\ \/ remote.mux = "result" /\ remote' = [remote EXCEPT !.mux = "done"]
       \/ UNCHANGED remote
    /\ cli' = [cli EXCEPT !.pc = "suiteRan"]
    /\ UNCHANGED <<job, node, mayGoWrong, disk, tracker, seen>>

NoSuite == [suite |-> NewSuite, conf |-> <<>>, all |-> <<>>, total |-> 0, mode |-> "serial"]

\* A failure ends the loop, unless it is to keep going.
SuiteRan ==
    /\ cli.pc = "suiteRan"
    /\ cli' = [cli EXCEPT !.res = Merge(@, cli.suiteRes), !.next = @ + 1, !.suiteRes = PassingRunResult, !.collected = {},
                          !.pc = IF cli.suiteRes.passed \/ cli.inv.keepGoing \/ cli.inv.command = "watch"
                                 THEN "suites" ELSE "ran"]
    /\ job' = NoSuite /\ remote' = NewRemote /\ node' = [n \in Nodes |-> Off]
    /\ UNCHANGED <<mayGoWrong, disk, tracker, seen>>

\* The loop over the suites ends.
SuitesDone ==
    /\ cli.pc = "suites" /\ (cli.next \notin DOMAIN cli.order \/ WasInterrupted)
    /\ Only([cli EXCEPT !.pc = "ran"])

-----------------------------------------------------------------------------
(* The commands.                                                           *)

\* main finds the command by its name; "run" is the default, without a name.
main(command) == cli.pc = "start" /\ cli.inv.command = command

RunSpecs ==
    /\ main("run")
    /\ \E order \in IF cli.inv.randomizeSuites THEN Orders(Len(cli.inv.suites))
                    ELSE {[i \in DOMAIN cli.inv.suites |-> i]} :
           Only(RunSuites(cli, order))

\* Until it fails, or once; then the exit status.
RunSpecsEnds ==
    /\ cli.pc = "ran" /\ cli.inv.command = "run"
    /\ Only(IF cli.inv.untilItFails /\ ~WasInterrupted /\ cli.res.passed THEN [cli EXCEPT !.pc = "start"]
            ELSE [cli EXCEPT !.pc = "exited",
                             !.code = IF ~cli.res.passed THEN 1 ELSE IF cli.res.focus THEN FocusExitCode ELSE 0])

Listing(set) == {o \in [1 .. Cardinality(set) -> set] : \A s \in set : \E i \in DOMAIN o : o[i] = s}

\* A single suite runs at once, without the callback.
WatchSuites ==
    /\ main("watch")
    /\ LET delta == Delta(NewDeltaTracker)
       IN IF findSuites = {} THEN cli' = [cli EXCEPT !.pc = "exited", !.code = 1] /\ UNCHANGED watchVars
          ELSE /\ tracker' = delta.tracker /\ disk' = delta.disk /\ seen' = [s \in delta.new |-> Sources(s)]
               /\ cli' = IF Cardinality(findSuites) = 1
                         THEN RunSuites(cli, CHOOSE o \in Listing(findSuites) : TRUE) ELSE [cli EXCEPT !.pc = "watching"]
    /\ UNCHANGED <<suiteVars, mayGoWrong>>

\* The suites that are new and those that changed; the latter are sorted by
\* how much, which is not modelled.
Tick ==
    /\ cli.pc = "watching"
    /\ LET delta == Delta(tracker)
           toRun == delta.new \cup delta.modified
       IN IF delta.panics THEN cli' = [cli EXCEPT !.pc = "exited", !.code = 2] /\ UNCHANGED watchVars
          ELSE /\ tracker' = delta.tracker /\ disk' = delta.disk
               /\ seen' = [s \in delta.new |-> Sources(s)] @@ seen
               /\ IF toRun = {} THEN UNCHANGED cli
                  ELSE \E order \in Listing(toRun) : cli' = [RunSuites(cli, order) EXCEPT !.callback = TRUE]
    /\ UNCHANGED <<suiteVars, mayGoWrong>>

ResumeWatch == cli.pc = "ran" /\ cli.inv.command = "watch" /\ Only([cli EXCEPT !.pc = "watching"])

StopWatch == cli.pc = "watching" /\ WasInterrupted /\ Only([cli EXCEPT !.pc = "exited"])

\* ^C reaches the command and all its processes.  It ends the command while
\* handleInterrupt, on its way round, does not listen.
Interrupt ==
    /\ cli.pc # "exited" /\ Wrong
    /\ \/ cli' = [cli EXCEPT !.typed = TRUE, !.signalled = TRUE]
       \/ cli.signalled /\ cli' = [cli EXCEPT !.pc = "exited", !.code = 2]
    /\ \E code \in {1, 2} : node' = [n \in Nodes |-> Signalled(node[n], code)]
    /\ UNCHANGED <<job, remote, disk, tracker, seen>>

handleInterrupt ==
    /\ cli.pc # "exited" /\ cli.signalled
    /\ Only([cli EXCEPT !.signalled = FALSE, !.interrupts = @ + 1,
                        !.pc = IF cli.interrupts + 1 > 5 THEN "exited" ELSE @,
                        !.code = IF cli.interrupts + 1 > 5 THEN 1 ELSE @])

\* Somebody works on the packages while they are watched.
Develop ==
    /\ cli.inv.command = "watch" /\ cli.pc \notin {"start", "exited"}
    /\ \E p \in Packages : Edit(p) \/ RemoveDir(p) \/ RestoreDir(p)
    /\ UNCHANGED <<suiteVars, mayGoWrong, tracker, cli, seen>>

-----------------------------------------------------------------------------
Init ==
    /\ tracker = NewDeltaTracker /\ seen = <<>>
    /\ job = NoSuite /\ remote = NewRemote /\ node = [n \in Nodes |-> Off]
    /\ \E inv \in Invocations :
           /\ DiskInit(inv.args) /\ mayGoWrong = inv.mayGoWrong
           /\ cli = [inv |-> inv, pc |-> "start", order |-> <<>>, next |-> 1, compile |-> <<>>, compiled |-> {},
                  callback |-> FALSE, res |-> PassingRunResult, suiteRes |-> PassingRunResult, collected |-> {},
                  typed |-> FALSE, signalled |-> FALSE, interrupts |-> 0, code |-> 0]

CommandStep ==
    \/ NextSuite \/ AwaitResult \/ SuiteRan \/ SuitesDone
    \/ RunSpecs \/ RunSpecsEnds \/ WatchSuites \/ Tick \/ ResumeWatch \/ StopWatch

Background == handleInterrupt \/ \E i \in DOMAIN cli.order : willCompile(i) \/ compile(i)

ProcessStep(n) ==
    cli.pc # "exited" /\ (Main(n) \/ Finish(n, "main") \/ Handler(n) \/ StrayFails(n) \/ Crash(n)) /\ UNCHANGED <<cli, disk, tracker, seen>>

Next ==
    \/ CommandStep \/ Background \/ Interrupt \/ Develop
    \/ \E n \in Nodes : Start(n) \/ Wait(n) \/ Completion(n) \/ ProcessStep(n)

\* What goroutines and processes do by themselves, when nothing goes wrong.
Progress ==
    /\ Fine
    /\ \/ CommandStep \/ Background
       \/ \E n \in Nodes : Start(n) \/ Wait(n) \/ Completion(n)
                         \/ /\ Main(n) \/ Finish(n, "main") \/ Handler(n)
                            /\ UNCHANGED <<cli, disk, tracker, seen>>

\* Something that can go on does, which is enough since every suite is a
\* finite number of these steps; and select, between a tick and the interrupt,
\* does not take the tick for ever.
Fairness == WF_vars(Progress) /\ SF_vars(StopWatch)

Spec == Init /\ [][Next]_vars /\ Fairness

-----------------------------------------------------------------------------
(* Properties.                                                             *)

NothingWrong == mayGoWrong = cli.inv.mayGoWrong
NodesOfJob == 1 .. job.total
Excusable == {"passed", "pending", "skipped"}

\* How often, over all nodes, the spec of a subject is there in one of states.
Occurrences(subject, states) ==
    Cardinality(UNION {{<<n, i>> : i \in {i \in DOMAIN node[n].specs : node[n].specs[i].subject = subject
                                                                   /\ node[n].specs[i].state \in states}} :
                       n \in NodesOfJob})

Announced(subject) == Cardinality({i \in DOMAIN remote.announced : remote.announced[i].subject = subject})

AllWell ==
    /\ \A k \in DOMAIN job.suite.subjects :
           Occurrences(k, Excusable) = 1 /\ Occurrences(k, {"invalid", "failed", "panicked", "timedout"}) = 0
    /\ \A n \in NodesOfJob : node[n].before \in {"none", "passed"} /\ (node[n].after \in {"none", "passed"} \/ cli.typed)

\* All processes shuffle with the same seed; one that is zero is not handed on.
SeedForAll == cli.inv.conf.seed > 0

\* The results of all processes of a suite are merged.
VerdictReached == cli.pc \in {"result", "suiteRan"} /\ cli.compile[cli.next] = "ok" /\ job.mode # "gotest"

\* A node failed although node 1 has sent the data of a setup that passed: the
\* server had read it as pending, and asked for node 1 when that had gone.
ToldTooLate ==
    /\ job.suite.beforeSuite = "synchronized" /\ remote.beforeSuiteData.state = "passed" /\ node[1].up = "gone"
    /\ \E n \in NodesOfJob \ {1} : node[n].before = "failed"

\* A passing result means, unless each node drew a seed of its own, that every
\* spec of the suite was on exactly one node and failed nowhere, with all setup
\* and, unless somebody interrupted, all teardown passed; a failing result means
\* that something did go wrong, that a pending spec was not to be, or that the
\* server asked for node 1 too late.  (index_computer.go, run_result.go,
\* test_runner.go, spec_runner.go, server.go.)
VerdictTellsTruth ==
    VerdictReached =>
        /\ (cli.suiteRes.passed /\ (SeedForAll \/ job.total = 1)) => AllWell
        /\ ~cli.suiteRes.passed =>
               \/ ~NothingWrong \/ job.suite.panicked \/ ToldTooLate
               \/ \E n \in NodesOfJob : job.conf[n].failOnPending /\ \E i \in DOMAIN node[n].specs : Pending(node[n].specs[i])

\* When nothing went wrong in a suite that passed, every spec was announced
\* exactly once and the numbers announced are right.  (aggregator.go,
\* spec_runner.go.)
ReportsAddUp ==
    (VerdictReached /\ cli.suiteRes.passed /\ NothingWrong /\ (SeedForAll \/ job.total = 1)) =>
        /\ \A k \in DOMAIN job.suite.subjects : Announced(k) = 1
        /\ job.mode = "parallel" =>
               LET sum == AggregatedSummary(remote)
               IN /\ sum.succeeded /\ sum.failed = 0 /\ sum.passed = remote.willRun
                  /\ sum.passed + sum.pending + sum.skipped = Len(job.suite.subjects)

\* With a SynchronizedBeforeSuite no spec of any node runs before node 1 has
\* passed the shared part and the node has its data; with a
\* SynchronizedAfterSuite node 1 does the shared part only when all other
\* processes have gone.  (synchronized_before_suite_node.go,
\* synchronized_after_suite_node.go, server.go.)
SharedSetup ==
    \A n \in NodesOfJob :
        /\ (job.suite.beforeSuite = "synchronized" /\ node[n].main \in {"runB", "runSample", "completed"}) =>
               node[n].data = "A" /\ node[1].data = "A"
        /\ (node[1].tornDown /\ n # 1) => node[n].up = "gone"

\* The containers that were entered: no BeforeEach further out failed.
Level(spec, ran) ==
    {l \in DOMAIN spec.containers :
        \A i \in DOMAIN ran : ran[i].node.type = "BeforeEach" => ran[i].outcome = "passed" \/ l <= ran[i].node.level}

\* At the end of a sample every AfterEach of every container that was entered
\* has run once, inner containers first, and none of a container that was not;
\* the subject ran only after all setup ran and passed; and the sample has the
\* outcome of the first node that did not pass.  (spec.go, runSample.)
Unwound ==
    \A n \in NodesOfJob : (At(n, "runSample") /\ node[n].unwinding /\ node[n].todo = {}) =>
        LET ran == node[n].ran
            spec == node[n].specs[node[n].i]
            of(types) == {i \in DOMAIN ran : ran[i].node.type \in types}
            afterEachs(l) == SetupNodesOfType(job.suite, spec.containers[l], "AfterEach")
        IN /\ \A i \in of({"AfterEach"}) :
                 ran[i].node.level \in Level(spec, ran) /\ ran[i].node.place \in afterEachs(ran[i].node.level)
           /\ \A l \in Level(spec, ran) : \A k \in afterEachs(l) :
                 \E i \in of({"AfterEach"}) : ran[i].node.level = l /\ ran[i].node.place = k
           /\ \A i, j \in of({"AfterEach"}) : i < j =>
                 \/ ran[i].node.level > ran[j].node.level
                 \/ ran[i].node.level = ran[j].node.level /\ ran[i].node.place < ran[j].node.place
           /\ \A i \in DOMAIN ran : \A j \in of({"BeforeEach", "JustBeforeEach", "Subject"}) :
                 i < j => ran[i].outcome = "passed"
           /\ of({"Subject"}) # {} =>
                 \A type \in {"BeforeEach", "JustBeforeEach"} : \A e \in NodesOf(job.suite, spec.containers, type) :
                     \E i \in DOMAIN ran : ran[i].node = e
           /\ \/ node[n].state = "passed" /\ \A i \in DOMAIN ran : ran[i].outcome = "passed"
              \/ \E i \in DOMAIN ran : /\ ran[i].outcome # "passed" /\ node[n].state = ran[i].outcome
                                       /\ \A j \in DOMAIN ran : j < i => ran[j].outcome = "passed"

\* A process that a signal killed counts as alive, and so does one that did
\* not start.
LooksAlive == \E n \in NodesOfJob : node[n].up = "failed" \/ (node[n].up = "gone" /\ node[n].code = Killed)

\* Node 1 waits for nodes that wait for its data: the call with the data was
\* lost, or node 1 was interrupted before its setup and they were not.
WaitForEachOther ==
    /\ remote.beforeSuiteData.state = "pending" /\ "waitForOthers" \in {node[1].main, node[1].handler}
    /\ \E n \in NodesOfJob : At(n, "waitForA") \/ At(n, "askAlive")

\* A node that was interrupted late ended twice: the aggregator has counted
\* enough endings and takes no report any more.
EndedEarly == remote.mux = "result" /\ cli.typed

\* The command ends, unless its processes wait for one another in one of
\* three ways, or it was told to go on.  (server.go, test_runner.go,
\* synchronized_after_suite_node.go, spec_runner.go.)
SuiteEnds ==
    (cli.inv.command = "run" /\ ~cli.inv.untilItFails) =>
        <>(cli.pc = "exited") \/ <>[](cli.pc = "running" /\ (LooksAlive \/ WaitForEachOther \/ EndedEarly))

\* What the last compilation of s read is what there is now, except for
\* changes that leave only older files and directories that went away.
UpToDate(s) ==
    \/ \E p \in {s} \cup NewDependencies(s, Depth) : disk.dir[p].excused
    \/ seen[s] = Sources(s)

\* Once nobody changes a file any more, every watched suite has been compiled
\* from the files as they are.  (watch_command.go, delta_tracker.go, suite.go,
\* package_hash.go.)
WatchCatchesUp ==
    cli.inv.command = "watch" => <>[](cli.pc = "exited" \/ \A s \in findSuites : s \in DOMAIN seen /\ UpToDate(s))
=============================================================================
