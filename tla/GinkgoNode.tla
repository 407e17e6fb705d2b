------------------------------ MODULE GinkgoNode ------------------------------
(***************************************************************************)
(* The test processes of a suite.  Each has a goroutine "main", which runs *)
(* the BeforeSuite, the specs and the AfterSuite, and a goroutine          *)
(* "handler", which waits for an interrupt, runs the AfterSuite itself and *)
(* exits.  The processes meet only at the server: node 1 runs the first    *)
(* half of a SynchronizedBeforeSuite for all, and the second half of a     *)
(* SynchronizedAfterSuite after all.                                       *)
(***************************************************************************)
EXTENDS GinkgoServer

CONSTANT MaxNodes
ASSUME NodeAssumption == MaxNodes \in Nat \ {0}

VARIABLES
    node,      \* the process of each parallel node
    mayGoWrong \* how much may still go wrong: a body that fails, a lost call, a dead process, an interrupt

Nodes == 1 .. MaxNodes
Killed == -1

Off ==
    [up |-> "off",         \* then "up", then "gone"
     code |-> 0,           \* its exit status, Killed when a signal ended it
     reaped |-> FALSE,     \* cmd.Wait returned
     main |-> "begin", handler |-> "off", signalled |-> FALSE, interrupted |-> FALSE,
     specs |-> <<>>, focused |-> FALSE, i |-> 1, todo |-> {}, unwinding |-> FALSE, sample |-> 1, state |-> "passed",
     ran |-> <<>>,         \* what the last sample ran, and with which result
     suiteFailed |-> FALSE, skipRemaining |-> FALSE, passed |-> TRUE,
     before |-> "none", after |-> "none", data |-> "none", tornDown |-> FALSE,
     failer |-> "passed", strays |-> 0]

Wrong == mayGoWrong > 0 /\ mayGoWrong' = mayGoWrong - 1
Fine == UNCHANGED mayGoWrong

IsUp(n) == node[n].up = "up"
At(n, pc) == IsUp(n) /\ node[n].main = pc
AtIn(n, g, pc) == IsUp(n) /\ node[n][g] = pc

\* The functions that are registered with RegisterAlive.
Alive == [n \in Nodes |-> ~(node[n].reaped /\ node[n].code # Killed)]

-----------------------------------------------------------------------------
(* The failer keeps the first failure until a node drains it.              *)

Fail(f) == IF f = "passed" THEN "failed" ELSE f
Panic(f) == IF f = "passed" THEN "panicked" ELSE f
Timeout(f) == IF f = "passed" THEN "timedout" ELSE f

\* What a body may do to the failer before it returns, or is given up.
runSync(f) == {[failer |-> f, stray |-> 0, wrong |-> FALSE], [failer |-> Fail(f), stray |-> 0, wrong |-> TRUE],
               [failer |-> Panic(f), stray |-> 0, wrong |-> TRUE]}

\* The goroutine of an asynchronous body may still be there afterwards.
runAsync(f) == runSync(f) \cup {[failer |-> Timeout(f), stray |-> k, wrong |-> TRUE] : k \in 0 .. 1}
                          \cup {[failer |-> f, stray |-> 1, wrong |-> TRUE]}

run(body, f) == IF body = "async" THEN runAsync(f) ELSE runSync(f)

Returned(n, r) == [node[n] EXCEPT !.failer = r.failer, !.strays = @ + r.stray]

\* One run of a body: after drains the failer and goes on.
Running(n, body, after(_)) ==
    \E r \in run(body, node[n].failer) :
        /\ IF r.wrong THEN Wrong ELSE Fine
        /\ node' = [node EXCEPT ![n] = after(Returned(n, r))]

Drain(p) == [p EXCEPT !.failer = "passed"]

\* A goroutine left behind fails, or panics, while something else runs.
StrayFails(n) ==
    /\ IsUp(n) /\ node[n].strays > 0
    /\ \E f \in {Fail(node[n].failer), Panic(node[n].failer)} :
           node' = [node EXCEPT ![n].failer = f, ![n].strays = @ - 1]
    /\ UNCHANGED <<job, remote, mayGoWrong>>

-----------------------------------------------------------------------------
(* Reports.                                                                *)

\* The forwarding reporter ignores an error of the call.
post(r) ==
    \/ StreamingEndpoint(r) /\ Fine
    \/ Wrong /\ UNCHANGED remote

\* Whether the reporter is the forwarding one.
buildDefaultReporter == job.mode = "parallel"

Report(forwarded, direct) == IF buildDefaultReporter THEN post(forwarded) ELSE remote' = direct /\ Fine

countSpecsSatisfying(specs, P(_)) == Cardinality({i \in DOMAIN specs : P(specs[i])})

\* After a failed BeforeSuite all specs that would have run have failed.
summary(p, success) ==
    LET willRun == countSpecsSatisfying(p.specs, LAMBDA s : ~Skipped(s) /\ ~Pending(s))
    IN [succeeded |-> success, willRun |-> willRun, total |-> Len(p.specs),
        pending |-> countSpecsSatisfying(p.specs, Pending), skipped |-> countSpecsSatisfying(p.specs, Skipped),
        passed |-> countSpecsSatisfying(p.specs, LAMBDA s : s.state = "passed"),
        failed |-> IF job.suite.beforeSuite # "none" /\ p.before # "passed" THEN willRun
                   ELSE countSpecsSatisfying(p.specs, Failed)]

reportSuiteWillBegin(n) ==
    /\ At(n, "begin") /\ job.mode # "gotest"
    /\ Report(registerSuiteBeginning(remote, summary(node[n], TRUE)), remote)
    /\ node' = [node EXCEPT ![n].main = "before", ![n].handler = "registering"]
    /\ UNCHANGED job

-----------------------------------------------------------------------------
(* BeforeSuite.                                                            *)

SetupDone(p, outcome) == [Drain(p) EXCEPT !.before = outcome, !.main = "reportBefore"]

runBeforeSuite(n) ==
    /\ At(n, "before")
    /\ \/ /\ job.suite.beforeSuite = "none" \/ node[n].interrupted
          /\ node' = [node EXCEPT ![n].main = "specs"] /\ Fine
       \/ /\ job.suite.beforeSuite = "simple" /\ ~node[n].interrupted
          /\ Running(n, "sync", LAMBDA p : SetupDone(p, p.failer))
       \/ /\ job.suite.beforeSuite = "synchronized" /\ ~node[n].interrupted /\ n # 1
          /\ node' = [node EXCEPT ![n].main = "waitForA"] /\ Fine
    /\ UNCHANGED <<job, remote>>

\* Body A returns the data, unless it fails.
wrapA(p) == [p EXCEPT !.data = IF p.failer = "passed" THEN "A" ELSE @]

runA(n) ==
    /\ At(n, "before") /\ job.suite.beforeSuite = "synchronized" /\ ~node[n].interrupted /\ n = 1
    /\ Running(n, "sync", LAMBDA p : [Drain(wrapA(p)) EXCEPT !.before = p.failer,
                                     !.main = IF job.total > 1 THEN "postA"
                                              ELSE IF p.failer = "passed" THEN "runB" ELSE "reportBefore"])
    /\ UNCHANGED <<job, remote>>

\* The answer to this POST is not looked at.
postA(n) ==
    /\ At(n, "postA")
    /\ \/ remote' = [remote EXCEPT !.beforeSuiteData =
                        RemoteBeforeSuiteData(IF node[n].before = "passed" THEN "passed" ELSE "failed", node[n].data)] /\ Fine
       \/ UNCHANGED remote /\ Wrong
    /\ node' = [node EXCEPT ![n].main = IF node[n].before = "passed" THEN "runB" ELSE "reportBefore"]
    /\ UNCHANGED job

\* A GET; a lost one fails the setup.  The server reads the data ...
waitForA(n) ==
    /\ At(n, "waitForA")
    /\ LET read == remote.beforeSuiteData
       IN \/ read.state = "passed" /\ node' = [node EXCEPT ![n].data = read.data, ![n].main = "runB"] /\ Fine
          \/ read.state = "failed" /\ node' = [node EXCEPT ![n].before = "failed", ![n].main = "reportBefore"] /\ Fine
          \/ read.state = "pending" /\ node' = [node EXCEPT ![n].main = "askAlive"] /\ Fine
          \/ Wrong /\ node' = [node EXCEPT ![n].before = "failed", ![n].main = "reportBefore"]
    /\ UNCHANGED <<job, remote>>

\* ... and, when that was pending, asks for node 1, which may have sent its
\* data and gone in between.  A pending answer is asked for again: polls that
\* find node 1 alive and the data still pending are not steps.
askAlive(n) ==
    /\ At(n, "askAlive")
    /\ LET answer == handleBeforeSuiteState(NewServer.beforeSuiteData, Alive)
       IN \/ /\ answer.state = "pending" /\ remote.beforeSuiteData.state # "pending" /\ Fine
             /\ node' = [node EXCEPT ![n].main = "waitForA"]
          \/ /\ answer.state = "disappeared" /\ Fine
             /\ node' = [node EXCEPT ![n].before = "failed", ![n].main = "reportBefore"]
          \/ Wrong /\ node' = [node EXCEPT ![n].before = "failed", ![n].main = "reportBefore"]
    /\ UNCHANGED <<job, remote>>

runB(n) ==
    /\ At(n, "runB")
    /\ Running(n, "sync", LAMBDA p : SetupDone(p, p.failer))
    /\ UNCHANGED <<job, remote>>

reportBeforeSuite(n) ==
    /\ At(n, "reportBefore")
    /\ Report(registerBeforeSuite(remote, node[n].before), reporterBeforeSuiteDidRun(remote, node[n].before))
    /\ node' = [node EXCEPT ![n].passed = node[n].before = "passed",
                            ![n].main = IF node[n].before = "passed" THEN "specs" ELSE "blockIfInterrupted"]
    /\ UNCHANGED job

-----------------------------------------------------------------------------
(* The specs.                                                              *)

StartSample(p, spec) == [p EXCEPT !.todo = Ahead(job.suite, spec), !.unwinding = FALSE, !.state = "passed", !.ran = <<>>]

\* An interrupted node leaves the loop; what it returns then is not used,
\* since it blocks next.
runSpecs(n) ==
    /\ At(n, "specs")
    /\ LET p == node[n]
           i == p.i
       IN \/ /\ p.interrupted \/ i \notin DOMAIN p.specs
             /\ node' = [node EXCEPT ![n].main = "blockIfInterrupted",
                                     ![n].passed = IF i \in DOMAIN p.specs THEN p.suiteFailed ELSE ~p.suiteFailed]
          \/ /\ ~p.interrupted /\ i \in DOMAIN p.specs
             /\ LET spec == IF p.skipRemaining THEN Skip(p.specs[i]) ELSE p.specs[i]
                    p2 == [p EXCEPT !.specs[i] = spec]
                IN node' = [node EXCEPT ![n] =
                       IF ~Skipped(spec) /\ ~Pending(spec)
                       THEN [StartSample(p2, spec) EXCEPT !.main = "runSample", !.sample = 1]
                       ELSE [p2 EXCEPT !.main = "completed",
                                       !.suiteFailed = @ \/ (Pending(spec) /\ job.conf[n].failOnPending)]]
    /\ UNCHANGED <<job, remote, mayGoWrong>>

\* Mutant of Ran: a failure in an AfterEach takes the place of an earlier one.
LastFailureKept(p, spec, now, outcome) ==
    LET p2 == [Drain(p) EXCEPT !.ran = Append(@, [node |-> now, outcome |-> outcome])]
        last == p.todo = {now} \/ outcome # "passed"
    IN IF p.unwinding
       THEN [p2 EXCEPT !.state = IF outcome # "passed" THEN outcome ELSE @, !.todo = @ \ {now}]
       ELSE [p2 EXCEPT !.state = outcome, !.unwinding = last,
                       !.todo = IF last THEN Unwinding(job.suite, spec, now) ELSE @ \ {now}]

\* The first node that does not pass ends the way in; on the way out every
\* AfterEach of the containers entered runs, and only a spec that passed so
\* far takes on the outcome of one.
Ran(p, spec, now, outcome) ==
    LET p2 == [Drain(p) EXCEPT !.ran = Append(@, [node |-> now, outcome |-> outcome])]
        last == p.todo = {now} \/ outcome # "passed"
    IN IF p.unwinding
       THEN [p2 EXCEPT !.state = IF @ = "passed" THEN outcome ELSE @, !.todo = @ \ {now}]
       ELSE [p2 EXCEPT !.state = outcome, !.unwinding = last,
                       !.todo = IF last THEN Unwinding(job.suite, spec, now) ELSE @ \ {now}]

runSample(n) ==
    /\ At(n, "runSample")
    /\ \E now \in node[n].todo :
           /\ IsFirst(now, node[n].todo)
           /\ Running(n, now.body, LAMBDA p : Ran(p, p.specs[p.i], now, p.failer))
    /\ UNCHANGED <<job, remote>>

\* The next sample of a measurement, or the end of the spec.
sampleEnds(n) ==
    /\ At(n, "runSample") /\ node[n].todo = {}
    /\ LET p == node[n]
           spec == p.specs[p.i]
       IN node' = [node EXCEPT ![n] =
              IF p.state = "passed" /\ p.sample < job.suite.subjects[spec.subject].samples
              THEN [StartSample(p, spec) EXCEPT !.sample = @ + 1]
              ELSE [p EXCEPT !.specs[p.i].state = p.state, !.main = "completed",
                             !.suiteFailed = @ \/ p.state # "passed"]]
    /\ UNCHANGED <<job, remote, mayGoWrong>>

reportSpecDidComplete(n) ==
    /\ At(n, "completed")
    /\ LET spec == node[n].specs[node[n].i]
           report == [node |-> n, subject |-> spec.subject, state |-> spec.state]
       IN /\ Report(registerSpecCompletion(remote, report), reporterSpecDidComplete(remote, report))
          /\ node' = [node EXCEPT ![n].i = @ + 1, ![n].main = "specs",
                                  ![n].skipRemaining = @ \/ (Failed(spec) /\ job.conf[n].failFast)]
    /\ UNCHANGED job

-----------------------------------------------------------------------------
(* Interrupts, and the AfterSuite, which either goroutine runs.            *)

registerForInterrupts(n) ==
    /\ AtIn(n, "handler", "registering")
    /\ node' = [node EXCEPT ![n].handler = "listening"]
    /\ UNCHANGED <<job, remote, mayGoWrong>>

markInterrupted(n) ==
    /\ AtIn(n, "handler", "listening") /\ node[n].signalled
    /\ node' = [node EXCEPT ![n].interrupted = TRUE, ![n].handler = "after"]
    /\ UNCHANGED <<job, remote, mayGoWrong>>

\* An interrupt that reaches the process: it dies while nobody listens, and
\* the second one ends it at once.
Signalled(p, code) ==
    IF p.up # "up" THEN p
    ELSE IF p.handler = "listening" THEN [p EXCEPT !.signalled = TRUE]
    ELSE [p EXCEPT !.up = "gone", !.code = IF p.interrupted THEN code ELSE 2]

blockForeverIfInterrupted(n) ==
    /\ At(n, "blockIfInterrupted")
    /\ node' = [node EXCEPT ![n].main = IF node[n].interrupted THEN "blocked" ELSE "after"]
    /\ UNCHANGED <<job, remote, mayGoWrong>>

\* Only node 1 has the shared part of a synchronized AfterSuite, when the others are done.
AfterBodyA(n) ==
    IF job.suite.afterSuite = "simple" \/ n # 1 THEN "reportAfter"
    ELSE IF job.total > 1 THEN "waitForOthers" ELSE "runAfterB"

runAfterSuite(n, g) ==
    /\ AtIn(n, g, "after")
    /\ \/ job.suite.afterSuite = "none" /\ node' = [node EXCEPT ![n][g] = "end"] /\ Fine
       \/ /\ job.suite.afterSuite # "none"
          /\ Running(n, "sync", LAMBDA p : [Drain(p) EXCEPT !.after = p.failer, ![g] = AfterBodyA(n)])
    /\ UNCHANGED <<job, remote>>

waitUntilOtherNodesAreDone(n, g) ==
    /\ AtIn(n, g, "waitForOthers") /\ handleRemoteAfterSuiteData(Alive)
    /\ node' = [node EXCEPT ![n][g] = "runAfterB"]
    /\ UNCHANGED <<job, remote, mayGoWrong>>

runAfterB(n, g) ==
    /\ AtIn(n, g, "runAfterB")
    /\ Running(n, "sync", LAMBDA p : [Drain(p) EXCEPT !.after = IF @ = "passed" THEN p.failer ELSE @, ![g] = "reportAfter",
                                                  !.tornDown = TRUE])
    /\ UNCHANGED <<job, remote>>

reportAfterSuite(n, g) ==
    /\ AtIn(n, g, "reportAfter")
    /\ Report(registerAfterSuite(remote, node[n].after), reporterAfterSuiteDidRun(remote, node[n].after))
    /\ node' = [node EXCEPT ![n][g] = "end", ![n].passed = IF g = "main" THEN node[n].after = "passed" /\ @ ELSE @]
    /\ UNCHANGED job

reportSuiteDidEnd(n, g) ==
    /\ AtIn(n, g, "end")
    /\ Report(registerSuiteEnding(remote, summary(node[n], g = "main" /\ node[n].passed)), remote)
    /\ node' = [node EXCEPT ![n][g] = "exit"]
    /\ UNCHANGED job

FocusExitCode == 197

\* Suite.Run fails the test, or exits itself when specs are focused.
SuiteRun(p) == IF ~p.passed THEN 1 ELSE IF p.focused THEN FocusExitCode ELSE 0

\* RunSpecs returns to the test binary, or the handler calls os.Exit(1).
Exits(n, g) ==
    /\ AtIn(n, g, "exit")
    /\ node' = [node EXCEPT ![n].up = "gone", ![n].code = IF g = "handler" THEN 1 ELSE SuiteRun(node[n])]
    /\ UNCHANGED <<job, remote, mayGoWrong>>

\* A test binary without Ginkgo just ends.
GoTestEnds(n) ==
    /\ At(n, "begin") /\ job.mode = "gotest"
    /\ \E passed \in BOOLEAN :
           /\ IF passed THEN Fine ELSE Wrong
           /\ node' = [node EXCEPT ![n].up = "gone", ![n].code = IF passed THEN 0 ELSE 1]
    /\ UNCHANGED <<job, remote>>

\* A panic that nobody recovers, or a kill.
Crash(n) ==
    /\ IsUp(n) /\ Wrong
    /\ \E code \in {2, Killed} : node' = [node EXCEPT ![n].up = "gone", ![n].code = code]
    /\ UNCHANGED <<job, remote>>

-----------------------------------------------------------------------------
Main(n) ==
    \/ reportSuiteWillBegin(n) \/ runBeforeSuite(n) \/ runA(n) \/ postA(n) \/ waitForA(n) \/ askAlive(n) \/ runB(n)
    \/ reportBeforeSuite(n) \/ runSpecs(n) \/ runSample(n) \/ sampleEnds(n) \/ reportSpecDidComplete(n)
    \/ blockForeverIfInterrupted(n) \/ GoTestEnds(n)

Finish(n, g) ==
    \/ runAfterSuite(n, g) \/ waitUntilOtherNodesAreDone(n, g) \/ runAfterB(n, g)
    \/ reportAfterSuite(n, g) \/ reportSuiteDidEnd(n, g) \/ Exits(n, g)

Handler(n) == registerForInterrupts(n) \/ markInterrupted(n) \/ Finish(n, "handler")
=============================================================================
