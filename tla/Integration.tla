----------------------------- MODULE Integration -----------------------------
(***************************************************************************)
(* The integration suite: before each spec the etcd runner is started and  *)
(* then the app-manager; after it the app-manager is killed and etcd       *)
(* stopped, and after the suite both once more.  A failed assertion ends   *)
(* the block it is in (Fail panics); the blocks after it are run all the   *)
(* same, except those of a container that was not entered.                 *)
(***************************************************************************)
EXTENDS Session

CONSTANTS
    numNodes,    \* of the etcd cluster
    MaxSpecs,    \* bound
    MaxSlow      \* bound: etcd nodes that come up or go down too late

\* A process is sent two signals: by Stop, and by KillWithFire.
ASSUME IntegrationAssumption ==
    numNodes \in Nat /\ MaxSpecs \in Nat /\ MaxSlow \in Nat /\ MaxSignals >= 2

VARIABLES
    spec,     \* what the suite's goroutine is at
    specs,
    etcd      \* ETCDClusterRunner and the processes it runs

vars == <<app, session, assertion, spec, specs, etcd>>

Node == 0 .. numNodes - 1
Etcd == [running : BOOLEAN,
         sessions : SUBSET Node,    \* etcdSessions: the nodes that were started
         up : SUBSET Node,          \* the nodes whose process is there
         data : SUBSET Node,        \* the nodes with a data directory
         next : 0 .. numNodes,      \* the loop variable of start and stop
         slow : 0 .. MaxSlow,
         slowStart : BOOLEAN, slowStop : BOOLEAN]    \* history: a start or a stop failed

TypeOK ==
    /\ app \in App /\ (app.code = -1 <=> app.main # "exited") /\ SessionTypeOK
    /\ specs \in 0 .. MaxSpecs + 1 /\ etcd \in Etcd
    /\ spec \in {"BeforeEach", "etcd.start", "runner.Start", "started?", "It", "It?", "AfterEach",
                 "killed?", "etcd.stop", "AfterSuite", "done", "fatal"}

Init ==
    /\ app = NotStarted /\ session = NoSession /\ assertion = NoAssertion
    /\ spec = "BeforeEach" /\ specs = 0
    /\ etcd = [running |-> FALSE, sessions |-> {}, up |-> {}, data |-> {}, next |-> 0,
               slow |-> 0, slowStart |-> FALSE, slowStop |-> FALSE]

-----------------------------------------------------------------------------
(* ETCDClusterRunner.                                                      *)

Apart == UNCHANGED <<app, session, assertion>>

\* Start(true): nothing when the cluster is marked as running.
startEtcd ==
    /\ spec = "BeforeEach" /\ specs < MaxSpecs /\ specs' = specs + 1
    /\ spec' = IF etcd.running THEN "runner.Start" ELSE "etcd.start"
    /\ etcd' = [etcd EXCEPT !.next = 0, !.sessions = IF etcd.running THEN @ ELSE {}]
    /\ Apart

\* A client learns the cluster from the first machine that answers.
SetCluster(machines) == machines \cap etcd.up # {}
detectRunningEtcd(n) == SetCluster({n})

\* One node: its data is removed, it must not run yet, and it must answer
\* within three seconds; when it does not, the start is given up.
startNode ==
    /\ spec = "etcd.start" /\ etcd.next \in Node
    /\ LET n == etcd.next
           begun == [etcd EXCEPT !.up = @ \cup {n}, !.data = @ \cup {n}, !.sessions = @ \cup {n}]
       IN \/ detectRunningEtcd(n) /\ spec' = "fatal" /\ etcd' = [etcd EXCEPT !.data = @ \ {n}]
          \/ ~detectRunningEtcd(n) /\ spec' = spec /\ etcd' = [begun EXCEPT !.next = n + 1]
          \/ /\ ~detectRunningEtcd(n) /\ etcd.slow < MaxSlow
             /\ spec' = "etcd.stop"
             /\ \E gone \in SUBSET {n} :
                   etcd' = [begun EXCEPT !.up = @ \ gone, !.next = 0, !.slow = @ + 1, !.slowStart = TRUE]
    /\ Apart /\ UNCHANGED specs

clusterIsUp ==
    /\ spec = "etcd.start" /\ etcd.next = numNodes
    /\ spec' = "runner.Start" /\ etcd' = [etcd EXCEPT !.running = TRUE]
    /\ Apart /\ UNCHANGED specs

InAfterSuite == specs > MaxSpecs
Interrupted(n) == [etcd EXCEPT !.up = @ \ {n}, !.data = @ \ {n}, !.next = n + 1]

\* Mutant of stopNode: without Wait the node may still be there.
stopNodeUnawaited ==
    /\ spec = "etcd.stop" /\ etcd.running /\ etcd.next \in Node
    /\ \E still \in SUBSET {etcd.next} : etcd' = [Interrupted(etcd.next) EXCEPT !.up = @ \cup still]
    /\ Apart /\ UNCHANGED <<spec, specs>>

\* stop(true): Interrupt and Wait for five seconds, then the data is removed.
stopNode ==
    /\ spec = "etcd.stop" /\ etcd.running /\ etcd.next \in Node
    /\ \/ etcd' = Interrupted(etcd.next) /\ spec' = spec
       \/ /\ etcd.slow < MaxSlow /\ spec' = IF InAfterSuite THEN "done" ELSE "BeforeEach"
          /\ \E gone \in SUBSET {etcd.next} :
                etcd' = [etcd EXCEPT !.up = @ \ gone, !.slow = @ + 1, !.slowStop = TRUE]
    /\ Apart /\ UNCHANGED specs

markAsStopped ==
    /\ spec = "etcd.stop" /\ (etcd.running => etcd.next = numNodes)
    /\ etcd' = IF etcd.running THEN [etcd EXCEPT !.running = FALSE, !.sessions = {}] ELSE etcd
    /\ spec' = IF InAfterSuite THEN "AfterSuite" ELSE "BeforeEach"
    /\ Apart /\ UNCHANGED specs

AfterSuite ==
    /\ spec = "BeforeEach" /\ specs = MaxSpecs
    /\ specs' = specs + 1 /\ spec' = "etcd.stop" /\ etcd' = [etcd EXCEPT !.next = 0]
    /\ Apart

-----------------------------------------------------------------------------
(* AppManagerRunner, and the spec.                                         *)

\* Start: StartWithoutCheck, then Eventually(Session).Should(Say("started")).
\* (The goroutine of an earlier session has ended by then.)
StartWithoutCheck ==
    /\ spec = "runner.Start" /\ session.monitor \in {"off", "done"}
    /\ Start /\ Assert("Eventually", "Say", TRUE) /\ spec' = "started?"
    /\ UNCHANGED <<specs, etcd>>

\* An assertion that failed ends the spec.
Judged(step, otherwise) ==
    /\ assertion.pc \in Verdicts /\ assertion' = NoAssertion
    /\ spec' = IF assertion.pc = "passed" THEN step ELSE otherwise
    /\ UNCHANGED <<app, session, specs>>

Started == spec = "started?" /\ Judged("It", "AfterEach") /\ UNCHANGED etcd

\* It asserts that the session stays, or ends it with Stop.
Stays ==
    /\ spec = "It" /\ Assert("Consistently", "Exit", FALSE) /\ spec' = "It?"
    /\ UNCHANGED <<app, session, specs, etcd>>

Stop ==
    /\ spec = "It" /\ Signal("TERM") /\ Wait /\ spec' = "It?"
    /\ UNCHANGED <<session, specs, etcd>>

Over == spec = "It?" /\ Judged("AfterEach", "AfterEach") /\ UNCHANGED etcd

\* AfterEach and AfterSuite: KillWithFire, when there is a session.
Kill ==
    /\ spec \in {"AfterEach", "AfterSuite"} /\ session # NoSession
    /\ Signal("KILL") /\ Wait /\ spec' = "killed?"
    /\ UNCHANGED <<session, specs, etcd>>

NothingToKill ==
    /\ spec = "AfterSuite" /\ session = NoSession /\ spec' = "done"
    /\ Apart /\ UNCHANGED <<specs, etcd>>

Killed ==
    /\ spec = "killed?"
    /\ IF InAfterSuite THEN Judged("done", "done") ELSE Judged("etcd.stop", "etcd.stop")
    /\ etcd' = [etcd EXCEPT !.next = 0]

-----------------------------------------------------------------------------
SuiteStep ==
    \/ startEtcd \/ startNode \/ clusterIsUp \/ stopNode \/ markAsStopped \/ AfterSuite
    \/ StartWithoutCheck \/ Started \/ Stays \/ Stop \/ Over \/ Kill \/ NothingToKill \/ Killed

InSuite(A) == A /\ UNCHANGED <<spec, specs, etcd>>
InApp(A) == A /\ UNCHANGED <<session, assertion, spec, specs, etcd>>

Next ==
    \/ SuiteStep
    \/ InSuite(SessionStep) \/ InSuite(Poll)
    \/ InApp(MainStep) \/ InApp(MonitorStep) \/ \E m \in Members : InApp(HandlerStep(m))
    \/ \E p \in Processes, w \in Waiters : InApp(getExitStatus(p, w))
    \/ \E m \in Members : InApp(recover(m)) \/ InApp(ChangePanics(m))

\* The goroutines of both processes run on, and the time of an assertion that
\* may time out does run out.
Fairness ==
    /\ WF_vars(SuiteStep) /\ WF_vars(InSuite(SessionStep))
    /\ WF_vars(InSuite(Poll)) /\ SF_vars(InSuite(TimesOut))
    /\ WF_vars(InApp(MainStep)) /\ WF_vars(InApp(MonitorStep))
    /\ \A m \in Members : WF_vars(InApp(HandlerStep(m)))
    /\ \A p \in Processes, w \in Waiters : WF_vars(InApp(getExitStatus(p, w)))

Spec == Init /\ [][Next]_vars /\ Fairness

-----------------------------------------------------------------------------
\* main, process and sigmon: the exit code tells the truth.  0 means that the
\* handler drained and returned nil, 1 that it returned an error, and SIGTERM
\* ends the process by itself only before the monitor is notified.
ExitTellsTruth ==
    /\ TypeOK
    /\ session.exitCode = 0 => \A m \in Members : app.run[m] = "returned" /\ app.exitStatus[m] = "nil"
    /\ session.exitCode = 1 => \E m \in Members : app.run[m] = "returned" /\ app.exitStatus[m] = "error"
    /\ session.exitCode = 143 => ~app.notified

\* AsyncAssertion.match: "No future change is possible" is said only when the
\* awaited line is not in the output, however writes, close and polls race.
BailsOutOnlyInVain ==
    assertion.pc = "bailed out" /\ assertion.matcher = "Say" => ~Says("started") /\ app.pipe = <<>>

\* ETCDClusterRunner: after a Start that succeeded every node is up, and a
\* Start finds a node of an earlier spec only when an earlier start failed,
\* which leaves nodes behind that no stop ends; a stop that failed leaves the
\* cluster marked as running.
StartedMeansUp ==
    /\ spec = "fatal" => etcd.slowStart
    /\ spec \in {"runner.Start", "started?", "It", "It?"} => etcd.up = Node \/ etcd.slowStop

\* Every spec comes to its end, and by what it waits for when there is time:
\* "started" is said or the output closed, and a process that was told to
\* stop exits.
SpecsEnd == <>(spec \in {"done", "fatal"})
=============================================================================
