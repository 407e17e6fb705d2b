-------------------------- MODULE IntegrationProofs --------------------------
(***************************************************************************)
(* The integration suite for any group of members, any number of etcd      *)
(* nodes and specs, and any number of panics and slow nodes: the exit code *)
(* tells the truth, an assertion gives up only in vain, and a start of     *)
(* etcd that succeeded leaves every node up.                               *)
(*                                                                         *)
(* The invariant has three parts.  EtcdOK is about the runner's loop and   *)
(* the nodes it leaves behind.  AppOK is about the process: a status that  *)
(* was waited for is final, so the monitor's status sums up the members',  *)
(* and main's exit code the monitor's.  SessionOK says that a buffer is    *)
(* closed when everything written is in it, so that what the matcher did   *)
(* not find after the oracle said "closed" will never be there.            *)
(***************************************************************************)
EXTENDS Integration, SequenceTheorems, TLAPS

Steps == {"BeforeEach", "etcd.start", "runner.Start", "started?", "It", "It?", "AfterEach",
          "killed?", "etcd.stop", "AfterSuite", "done", "fatal"}

\* Where the suite is when no process of the app-manager may be alive.
Quiet == {"BeforeEach", "etcd.start", "runner.Start", "killed?", "etcd.stop", "AfterSuite", "done", "fatal"}

-----------------------------------------------------------------------------
(* etcd.                                                                   *)

SuiteTyped == spec \in Steps /\ specs \in 0 .. MaxSpecs + 1 /\ etcd \in Etcd

\* The loop of start has the nodes before its variable up; only a start that
\* failed leaves others.
Starting ==
    spec = "etcd.start" =>
        /\ ~etcd.running
        /\ \A n \in Node : n < etcd.next => n \in etcd.up
        /\ ~etcd.slowStart => \A n \in Node : n >= etcd.next => n \notin etcd.up

\* The loop of stop has ended the nodes before its variable.
Stopping ==
    spec = "etcd.stop" /\ etcd.running => \A n \in Node : n < etcd.next => n \notin etcd.up

\* A cluster that is marked as running is up, and one that is not is down.
Marked ==
    /\ etcd.running /\ spec # "etcd.stop" /\ ~etcd.slowStop => \A n \in Node : n \in etcd.up
    /\ ~etcd.running /\ spec \notin {"etcd.start", "fatal"} /\ ~etcd.slowStart => etcd.up = {}
    /\ spec \in {"runner.Start", "started?", "It", "It?"} => etcd.running
    /\ spec = "fatal" => etcd.slowStart

EtcdOK == SuiteTyped /\ Starting /\ Stopping /\ Marked

-----------------------------------------------------------------------------
(* The process.                                                            *)

Early == {"off", "init", "envoke", "group", "log"}

AppTyped == app \in App /\ (app.code = -1 <=> app.main # "exited")

\* Stop sends a signal to a process that had none, and KillWithFire ends it.
Signalled ==
    /\ \A p \in Processes : app.osSignals + app.sends[p] <= app.signals
    /\ app.signals <= 2
    /\ Alive => app.signals <= 1
    /\ spec \in {"started?", "It"} => app.signals = 0
    /\ spec \in Quiet => ~Alive

\* A status that was waited for is final.
Waited == \A p \in Processes : app.got[p] # {} => app.run[p] = "returned"

NotYet ==
    /\ app.main \in {"off", "init", "envoke"} => \A p \in Processes : app.run[p] = "off"
    /\ app.main \in Early => app.run["monitor"] = "off"

SumsUp ==
    app.run["monitor"] = "returned" =>
        /\ \A m \in Members : app.run[m] = "returned"
        /\ app.exitStatus["monitor"] = "nil" => \A m \in Members : app.exitStatus[m] = "nil"
        /\ app.exitStatus["monitor"] = "error" => \E m \in Members : app.exitStatus[m] = "error"

CodeOK ==
    /\ app.code = 0 => app.run["monitor"] = "returned" /\ app.exitStatus["monitor"] = "nil"
    /\ app.code = 1 => app.run["monitor"] = "returned" /\ app.exitStatus["monitor"] = "error"
    /\ app.code = 143 => ~app.notified

AppOK == AppTyped /\ Signalled /\ Waited /\ NotYet /\ SumsUp /\ CodeOK

-----------------------------------------------------------------------------
(* The session and the assertion.                                          *)

Lines == {"started", "exited"}

Codes == {-1, 0, 1, 2, 137, 143}
Sessions == [exitCode : Codes, monitor : {"off", "wait", "locked", "done"},
             contents : Seq(Lines), readCursor : Nat, closed : BOOLEAN]
AssertionSteps == {"none", "oracle", "match", "judge", "sleep"} \cup Verdicts
Assertions == [pc : AssertionSteps, kind : {"Eventually", "Consistently"}, matcher : {"Say", "Exit"},
               desired : BOOLEAN, hurried : BOOLEAN, mayChange : BOOLEAN, matches : BOOLEAN]

SessionTyped ==
    session \in Sessions /\ assertion \in Assertions /\ session.readCursor <= Len(session.contents)

\* main logs two lines, the second when it exits.
Written ==
    /\ Len(session.contents) + Len(app.pipe) <= 2
    /\ app.main # "exited" => app.pipe \in {<<>>, <<"started">>} /\ Len(session.contents) + Len(app.pipe) <= 1
    /\ app.main \in Early => app.pipe = <<>> /\ session.contents = <<>>

\* The exit is recorded once everything is written, and nothing follows.
Recorded ==
    /\ session.closed <=> session.monitor \in {"locked", "done"}
    /\ session.closed => app.main = "exited" /\ app.pipe = <<>>
    /\ session.exitCode # -1 => session.closed /\ session.exitCode = app.code

\* What the oracle said of a buffer still holds, and so does what the
\* matcher said of a closed one.
Asserted ==
    assertion.matcher = "Say" =>
        /\ assertion.desired
        /\ assertion.pc \in {"match", "judge"} /\ ~assertion.mayChange => session.closed
        /\ assertion.pc = "judge" /\ ~assertion.mayChange /\ ~assertion.matches => ~Says("started")
        /\ assertion.pc = "bailed out" => session.closed /\ ~Says("started")

SessionOK == SessionTyped /\ Written /\ Recorded /\ Asserted

IInv == EtcdOK /\ AppOK /\ SessionOK

-----------------------------------------------------------------------------
(* EtcdOK.                                                                 *)

LEMMA InitEtcd == Init => EtcdOK
  BY IntegrationAssumption, LifecycleAssumption
  DEF Init, EtcdOK, SuiteTyped, Starting, Stopping, Marked, Steps, Etcd, Node

LEMMA StartEtcd == EtcdOK /\ startEtcd => EtcdOK'
  <1> SUFFICES ASSUME EtcdOK, startEtcd PROVE EtcdOK'
    OBVIOUS
  <1>1. SuiteTyped'
    <2>1. specs' \in 0 .. MaxSpecs + 1 /\ 0 \in 0 .. numNodes /\ spec' \in Steps
      BY IntegrationAssumption DEF EtcdOK, SuiteTyped, Steps, startEtcd
    <2>2. etcd' \in Etcd
      BY <2>1 DEF EtcdOK, SuiteTyped, Etcd, startEtcd
    <2> QED BY <2>1, <2>2 DEF SuiteTyped
  <1>2. Starting' /\ Stopping' /\ Marked'
    BY IntegrationAssumption DEF EtcdOK, SuiteTyped, Starting, Stopping, Marked, Steps, Etcd, Node, startEtcd
  <1> QED BY <1>1, <1>2 DEF EtcdOK

LEMMA StartNode == EtcdOK /\ startNode => EtcdOK'
  <1> SUFFICES ASSUME EtcdOK, startNode PROVE EtcdOK'
    OBVIOUS
  <1> DEFINE n == etcd.next
             begun == [etcd EXCEPT !.up = @ \cup {n}, !.data = @ \cup {n}, !.sessions = @ \cup {n}]
  <1>0. etcd \in Etcd /\ n \in Node /\ n \in Nat /\ begun \in Etcd /\ n + 1 \in 0 .. numNodes /\ 0 \in 0 .. numNodes
        /\ spec = "etcd.start" /\ specs \in 0 .. MaxSpecs + 1 /\ specs' = specs /\ Starting /\ Marked /\ ~etcd.running
    <2>1. etcd \in Etcd /\ n \in Node /\ specs \in 0 .. MaxSpecs + 1
      BY DEF EtcdOK, SuiteTyped, startNode
    <2>2. n \in Nat /\ n + 1 \in 0 .. numNodes /\ 0 \in 0 .. numNodes
      BY <2>1, IntegrationAssumption DEF Node
    <2>3. begun \in Etcd
      BY <2>1 DEF Etcd
    <2> QED BY <2>1, <2>2, <2>3 DEF EtcdOK, Starting, startNode
  <1>1. CASE detectRunningEtcd(n) /\ spec' = "fatal" /\ etcd' = [etcd EXCEPT !.data = @ \ {n}]
    <2>1. SuiteTyped' /\ etcd'.slowStart = etcd.slowStart /\ etcd'.running = etcd.running
      BY <1>0, <1>1 DEF SuiteTyped, Etcd, Steps
    <2>2. n \in etcd.up /\ n >= etcd.next
      BY <1>0, <1>1 DEF detectRunningEtcd, SetCluster
    <2> HIDE DEF n
    <2>3. etcd.slowStart
      BY <1>0, <2>2 DEF Starting
    <2> QED BY <1>0, <1>1, <2>1, <2>3 DEF EtcdOK, Starting, Stopping, Marked
  <1>2. CASE ~detectRunningEtcd(n) /\ spec' = spec /\ etcd' = [begun EXCEPT !.next = n + 1]
    <2>1. SuiteTyped'
      BY <1>0, <1>2 DEF SuiteTyped, Etcd, Steps
    <2>2. /\ etcd'.up = etcd.up \cup {n} /\ etcd'.next = n + 1 /\ etcd'.running = etcd.running
          /\ etcd'.slowStart = etcd.slowStart
      BY <1>0, <1>2 DEF Etcd
    <2>3. Starting'
      BY <1>0, <1>2, <2>2, IntegrationAssumption DEF Starting, Node
    <2> QED BY <1>0, <1>2, <2>1, <2>2, <2>3 DEF EtcdOK, Stopping, Marked
  <1>3. CASE /\ ~detectRunningEtcd(n) /\ etcd.slow < MaxSlow
             /\ spec' = "etcd.stop"
             /\ \E gone \in SUBSET {n} :
                   etcd' = [begun EXCEPT !.up = @ \ gone, !.next = 0, !.slow = @ + 1, !.slowStart = TRUE]
    <2>1. etcd.slow + 1 \in 0 .. MaxSlow
      BY <1>0, <1>3, IntegrationAssumption DEF Etcd
    <2>2. PICK gone \in SUBSET {n} :
             etcd' = [begun EXCEPT !.up = @ \ gone, !.next = 0, !.slow = @ + 1, !.slowStart = TRUE]
      BY <1>3
    <2>3. begun.slow = etcd.slow /\ begun.running = etcd.running
      BY <1>0 DEF Etcd
    <2>4. etcd' \in Etcd /\ etcd'.running = etcd.running /\ etcd'.slowStart = TRUE
      <3> HIDE DEF begun, n
      <3> QED BY <1>0, <2>1, <2>2, <2>3 DEF Etcd
    <2>5. SuiteTyped'
      BY <1>0, <1>3, <2>4 DEF SuiteTyped, Steps
    <2> QED BY <1>0, <1>3, <2>4, <2>5 DEF EtcdOK, Starting, Stopping, Marked
  <1> QED BY <1>1, <1>2, <1>3 DEF startNode

LEMMA ClusterIsUp == EtcdOK /\ clusterIsUp => EtcdOK'
  <1> SUFFICES ASSUME EtcdOK, clusterIsUp PROVE EtcdOK'
    OBVIOUS
  <1>1. SuiteTyped'
    BY DEF EtcdOK, SuiteTyped, Steps, Etcd, clusterIsUp
  <1>2. \A n \in Node : n \in etcd.up
    BY IntegrationAssumption DEF EtcdOK, SuiteTyped, Starting, Node, clusterIsUp
  <1>3. Starting' /\ Stopping' /\ Marked'
    BY <1>2 DEF EtcdOK, SuiteTyped, Starting, Stopping, Marked, Etcd, clusterIsUp
  <1> QED BY <1>1, <1>3 DEF EtcdOK

LEMMA StopNode == EtcdOK /\ stopNode => EtcdOK'
  <1> SUFFICES ASSUME EtcdOK, stopNode PROVE EtcdOK'
    OBVIOUS
  <1>0. etcd \in Etcd /\ etcd.next \in Node /\ etcd.next + 1 \in 0 .. numNodes /\ etcd.running
        /\ spec = "etcd.stop" /\ specs \in 0 .. MaxSpecs + 1 /\ specs' = specs /\ Stopping
    <2>1. etcd \in Etcd /\ etcd.next \in Node /\ specs \in 0 .. MaxSpecs + 1
      BY DEF EtcdOK, SuiteTyped, stopNode
    <2>2. etcd.next + 1 \in 0 .. numNodes
      BY <2>1, IntegrationAssumption DEF Node
    <2> QED BY <2>1, <2>2 DEF EtcdOK, stopNode
  <1>1. CASE etcd' = Interrupted(etcd.next) /\ spec' = spec
    <2>1. SuiteTyped'
      BY <1>0, <1>1 DEF SuiteTyped, Etcd, Steps, Interrupted
    <2>2. etcd'.up = etcd.up \ {etcd.next} /\ etcd'.next = etcd.next + 1 /\ etcd'.running
      BY <1>0, <1>1 DEF Etcd, Interrupted
    <2>3. Stopping'
      BY <1>0, <1>1, <2>2, IntegrationAssumption DEF Stopping, Node
    <2> QED BY <1>0, <1>1, <2>1, <2>2, <2>3 DEF EtcdOK, Starting, Marked
  <1>2. CASE /\ etcd.slow < MaxSlow /\ spec' = IF InAfterSuite THEN "done" ELSE "BeforeEach"
             /\ \E gone \in SUBSET {etcd.next} :
                   etcd' = [etcd EXCEPT !.up = @ \ gone, !.slow = @ + 1, !.slowStop = TRUE]
    <2>1. etcd.slow + 1 \in 0 .. MaxSlow
      BY <1>0, <1>2, IntegrationAssumption DEF Etcd
    <2>2. SuiteTyped' /\ etcd'.running /\ etcd'.slowStop
      BY <1>0, <1>2, <2>1 DEF SuiteTyped, Etcd, Steps
    <2> QED BY <1>0, <1>2, <2>2 DEF EtcdOK, Starting, Stopping, Marked
  <1> QED BY <1>1, <1>2 DEF stopNode

LEMMA MarkAsStopped == EtcdOK /\ markAsStopped => EtcdOK'
  <1> SUFFICES ASSUME EtcdOK, markAsStopped PROVE EtcdOK'
    OBVIOUS
  <1>1. SuiteTyped'
    BY DEF EtcdOK, SuiteTyped, Steps, Etcd, markAsStopped
  <1>2. etcd.running => etcd.up = {}
    <2> SUFFICES ASSUME etcd.running PROVE etcd.up = {}
      OBVIOUS
    <2>1. \A n \in Node : n \notin etcd.up
      BY IntegrationAssumption DEF EtcdOK, SuiteTyped, Stopping, Node, markAsStopped
    <2> QED BY <2>1 DEF EtcdOK, SuiteTyped, Etcd
  <1>3. Starting' /\ Stopping' /\ Marked'
    BY <1>2 DEF EtcdOK, SuiteTyped, Starting, Stopping, Marked, Etcd, markAsStopped
  <1> QED BY <1>1, <1>3 DEF EtcdOK

LEMMA OtherSuite ==
  EtcdOK /\ (AfterSuite \/ StartWithoutCheck \/ Started \/ Stays \/ Stop \/ Over \/ Kill \/ NothingToKill \/ Killed)
    => EtcdOK'
  <1> SUFFICES ASSUME EtcdOK PROVE
        AfterSuite \/ StartWithoutCheck \/ Started \/ Stays \/ Stop \/ Over \/ Kill \/ NothingToKill \/ Killed
          => EtcdOK'
    OBVIOUS
  <1> USE DEF EtcdOK, SuiteTyped, Starting, Stopping, Marked, Steps
  <1>1. AfterSuite => EtcdOK'
    BY IntegrationAssumption DEF AfterSuite, Etcd, Node
  <1>2. StartWithoutCheck \/ Stays \/ Stop \/ NothingToKill => EtcdOK'
    BY DEF StartWithoutCheck, Stays, Stop, NothingToKill
  <1>3. Started \/ Over => EtcdOK'
    BY DEF Started, Over, Judged
  <1>4. Kill => EtcdOK'
    BY DEF Kill
  <1>5. Killed => EtcdOK'
    BY IntegrationAssumption DEF Killed, Judged, Etcd, Node
  <1> QED BY <1>1, <1>2, <1>3, <1>4, <1>5

\* The app-manager and the assertions leave the suite and etcd alone.
LEMMA NextEtcd == EtcdOK /\ [Next]_vars => EtcdOK'
  <1> SUFFICES ASSUME EtcdOK, [Next]_vars PROVE EtcdOK'
    OBVIOUS
  <1>1. CASE SuiteStep
    BY <1>1, StartEtcd, StartNode, ClusterIsUp, StopNode, MarkAsStopped, OtherSuite DEF SuiteStep
  <1>2. CASE UNCHANGED <<spec, specs, etcd>>
    BY <1>2 DEF EtcdOK, SuiteTyped, Starting, Stopping, Marked
  <1> QED BY <1>1, <1>2 DEF Next, InSuite, InApp, vars

\* ETCDClusterRunner.Start and stop, whatever the number of nodes and however
\* often they are slow: a start that succeeded leaves every node up unless a
\* stop failed before, and a start finds a node running only when an earlier
\* one failed.
THEOREM EtcdIsUp == Spec => []StartedMeansUp
  <1>1. EtcdOK => StartedMeansUp
    BY DEF EtcdOK, SuiteTyped, Marked, StartedMeansUp, Etcd
  <1> QED BY <1>1, InitEtcd, NextEtcd, PTL DEF Spec

-----------------------------------------------------------------------------
(* AppOK: the steps of the process.  What main has written so far is       *)
(* needed for the type of the pipe.                                        *)

LEMMA NotStartedType == NotStarted \in App /\ NotStarted.code = -1
  BY LifecycleAssumption, IntegrationAssumption DEF App, NotStarted, Processes, Waiters

LEMMA InitApp == Init => AppOK
  <1> SUFFICES ASSUME Init PROVE AppOK
    OBVIOUS
  <1>1. app = NotStarted
    BY DEF Init
  <1>2. AppTyped
    BY <1>1, NotStartedType DEF AppTyped, NotStarted
  <1>3. Signalled /\ Waited /\ NotYet /\ SumsUp /\ CodeOK
    BY <1>1 DEF Init, Signalled, Waited, NotYet, SumsUp, CodeOK, NotStarted, Alive, Processes, Quiet
  <1> QED BY <1>2, <1>3 DEF AppOK

\* A step of main that only moves on.
LEMMA MovesOn ==
  ASSUME AppOK, NEW next \in {"envoke", "log", "wait"}, app' = [app EXCEPT !.main = next], spec' = spec,
         app.main \notin {"off", "exited"}, next = "envoke" => app.main = "init", next = "log" => app.main = "group",
         next = "wait" => app.main = "monitor"
  PROVE  AppOK'
  <1>0. app \in App /\ Alive
    BY DEF AppOK, AppTyped, Alive
  <1>1. app' \in App /\ app'.main = next
    BY <1>0 DEF App
  <1>2. /\ app'.sends = app.sends /\ app'.osSignals = app.osSignals /\ app'.signals = app.signals
        /\ app'.got = app.got /\ app'.run = app.run /\ app'.exitStatus = app.exitStatus
        /\ app'.code = app.code /\ app'.notified = app.notified
    BY <1>0 DEF App
  <1> QED BY <1>0, <1>1, <1>2 DEF AppOK, AppTyped, Signalled, Waited, NotYet, SumsUp, CodeOK, Alive, Early

LEMMA EnvokesGroup == AppOK /\ EnvokeGroup /\ spec' = spec => AppOK'
  <1> SUFFICES ASSUME AppOK, EnvokeGroup, spec' = spec PROVE AppOK'
    OBVIOUS
  <1>0. app \in App /\ app.main = "envoke" /\ app.code = -1 /\ Members \subseteq Processes /\ "monitor" \in Processes
        /\ "monitor" \notin Members /\ Alive
    BY LifecycleAssumption DEF AppOK, AppTyped, EnvokeGroup, Processes, Alive
  <1>1. app' \in App /\ app'.main = "group" /\ app'.code = -1
    BY ZenonT(60), <1>0 DEF App, EnvokeGroup
  <1>2. /\ app'.sends = app.sends /\ app'.osSignals = app.osSignals /\ app'.signals = app.signals
        /\ app'.got = app.got /\ app'.run["monitor"] = app.run["monitor"]
    BY <1>0 DEF App, EnvokeGroup
  <1>3. Signalled'
    BY <1>0, <1>1, <1>2 DEF AppOK, Signalled, Alive
  <1>4. app.run["monitor"] = "off" /\ \A p \in Processes : app.got[p] = {}
    BY <1>0 DEF AppOK, NotYet, Waited
  <1> QED BY <1>0, <1>1, <1>2, <1>3, <1>4 DEF AppOK, AppTyped, Waited, NotYet, SumsUp, CodeOK, Early

\* What main writes.
LEMMA Appended ==
  /\ Append(<<>>, "started") = <<"started">>
  /\ Append(<<>>, "exited") = <<"exited">>
  /\ Append(<<"started">>, "exited") = <<"started", "exited">>
  <1>1. \A a \in Lines : Append(<<>>, a) = <<a>>
    <2> TAKE a \in Lines
    <2>1. <<>> \in Seq(Lines) /\ <<a>> \in Seq(Lines) /\ Len(<<a>>) = 1 /\ <<a>>[1] = a
      OBVIOUS
    <2>2. /\ Append(<<>>, a) \in Seq(Lines) /\ Len(Append(<<>>, a)) = 1
          /\ Append(<<>>, a)[1] = a
      BY <2>1
    <2> QED BY <2>1, <2>2, SeqEqual
  <1>2. \A a, b \in Lines : Append(<<a>>, b) = <<a, b>>
    <2> TAKE a, b \in Lines
    <2>1. <<a>> \in Seq(Lines) /\ <<a, b>> \in Seq(Lines) /\ Len(<<a>>) = 1 /\ Len(<<a, b>>) = 2
          /\ <<a>>[1] = a /\ <<a, b>>[1] = a /\ <<a, b>>[2] = b
      OBVIOUS
    <2>2. /\ Append(<<a>>, b) \in Seq(Lines) /\ Len(Append(<<a>>, b)) = 2
          /\ Append(<<a>>, b)[1] = a /\ Append(<<a>>, b)[2] = b
      BY <2>1
    <2>3. \A i \in 1 .. 2 : Append(<<a>>, b)[i] = <<a, b>>[i]
      BY <2>1, <2>2
    <2> QED BY <2>1, <2>2, <2>3, SeqEqual
  <1> QED BY <1>1, <1>2 DEF Lines

LEMMA LogsStarted == AppOK /\ Written /\ LogStarted /\ spec' = spec => AppOK'
  <1> SUFFICES ASSUME AppOK, Written, LogStarted, spec' = spec PROVE AppOK'
    OBVIOUS
  <1>0. app \in App /\ app.main = "log" /\ app.code = -1 /\ Members \subseteq Processes /\ "monitor" \in Processes
        /\ "monitor" \notin Members /\ Alive /\ app.pipe = <<>> /\ Append(app.pipe, "started") = <<"started">>
    BY LifecycleAssumption, Appended DEF AppOK, AppTyped, LogStarted, Processes, Alive, Written, Early
  <1>1. app' \in App /\ app'.main = "monitor" /\ app'.code = -1
    BY <1>0 DEF App, LogStarted
  <1>2. /\ app'.sends = app.sends /\ app'.osSignals = app.osSignals /\ app'.signals = app.signals
        /\ app'.got = app.got /\ app'.run = [app.run EXCEPT !["monitor"] = "running"]
        /\ app'.run["monitor"] = "running"
    BY <1>0 DEF App, LogStarted
  <1>3. Signalled'
    BY <1>0, <1>1, <1>2 DEF AppOK, Signalled, Alive
  <1>4. app.run["monitor"] = "off" /\ app.got["monitor"] = {}
    BY <1>0 DEF AppOK, NotYet, Waited, Early
  <1>5. Waited'
    BY <1>0, <1>2, <1>4 DEF AppOK, Waited, App
  <1> QED BY <1>0, <1>1, <1>2, <1>3, <1>5 DEF AppOK, AppTyped, NotYet, SumsUp, CodeOK, Early

\* main exits with the status of the monitor, which it got.
LEMMA MainExit == AppOK /\ Written /\ MainExits /\ spec' = spec => AppOK'
  <1> SUFFICES ASSUME AppOK, Written, MainExits, spec' = spec PROVE AppOK'
    OBVIOUS
  <1>0. app \in App /\ app.main = "wait" /\ "monitor" \in Processes /\ app.pipe \in {<<>>, <<"started">>}
        /\ "parent" \in app.got["monitor"]
    BY DEF AppOK, AppTyped, MainExits, Processes, Written
  <1>1. app.run["monitor"] = "returned"
    BY <1>0 DEF AppOK, Waited
  <1> DEFINE Outputs == {<<>>, <<"started">>, <<"exited">>, <<"started", "exited">>}
  <1>2. app.pipe \in Outputs /\ Append(app.pipe, "exited") \in Outputs
    BY <1>0, Appended
  <1>5. App = [main : {"off", "init", "envoke", "group", "log", "monitor", "wait", "exited"},
                run : [Processes -> {"off", "running", "ready", "draining", "returned"}],
                exitStatus : [Processes -> {"nil", "error"}], got : [Processes -> SUBSET Waiters],
                sends : [Processes -> 0 .. MaxSignals], notified : BOOLEAN, osSignals : 0 .. MaxSignals,
                signals : 0 .. MaxSignals, panics : 0 .. MaxPanics, code : {-1, 0, 1, 2, 137, 143}, pipe : Outputs]
    BY DEF App
  <1> HIDE DEF Outputs
  <1>3. app' \in App /\ app'.main = "exited" /\ app'.code \in {0, 1}
        /\ (app'.code = 0 => app.exitStatus["monitor"] = "nil") /\ (app'.code = 1 => app.exitStatus["monitor"] = "error")
    <2>1. app.exitStatus["monitor"] \in {"nil", "error"}
      BY <1>0 DEF App
    <2>2. CASE app.exitStatus["monitor"] = "nil"
      <3>1. app' = [app EXCEPT !.main = "exited", !.code = 0, !.pipe = Append(app.pipe, "exited")]
        BY <2>2 DEF MainExits
      <3>2. app' \in App
        BY <1>0, <1>2, <1>5, <3>1
      <3>3. app'.main = "exited" /\ app'.code = 0
        BY <1>0, <1>5, <3>1
      <3> QED BY <2>2, <3>2, <3>3
    <2>3. CASE app.exitStatus["monitor"] = "error"
      <3>1. app' = [app EXCEPT !.main = "exited", !.code = 1, !.pipe = app.pipe]
        BY <2>3 DEF MainExits
      <3>2. app' \in App
        BY <1>0, <1>2, <1>5, <3>1
      <3>3. app'.main = "exited" /\ app'.code = 1
        BY <1>0, <1>5, <3>1
      <3> QED BY <2>3, <3>2, <3>3
    <2> QED BY <2>1, <2>2, <2>3
  <1>4. /\ app'.sends = app.sends /\ app'.osSignals = app.osSignals /\ app'.signals = app.signals
        /\ app'.got = app.got /\ app'.run = app.run /\ app'.exitStatus = app.exitStatus
    BY <1>0 DEF App, MainExits
  <1> QED BY <1>0, <1>1, <1>3, <1>4 DEF AppOK, AppTyped, Signalled, Waited, NotYet, SumsUp, CodeOK, Alive, Early

LEMMA MainApp == AppOK /\ Written /\ MainStep /\ spec' = spec => AppOK'
  <1> SUFFICES ASSUME AppOK, Written, MainStep, spec' = spec PROVE AppOK'
    OBVIOUS
  <1>1. CASE initializeBbs
    BY <1>1, MovesOn DEF initializeBbs
  <1>2. CASE GroupIsUp
    BY <1>2, MovesOn DEF GroupIsUp
  <1>3. CASE MonitorIsUp
    BY <1>3, MovesOn DEF MonitorIsUp
  <1> QED BY <1>1, <1>2, <1>3, EnvokesGroup, LogsStarted, MainExit DEF MainStep

-----------------------------------------------------------------------------
(* The members and the monitor.  While a member runs the monitor does not  *)
(* return, so nothing it summed up changes.                                *)

LEMMA Living ==
  ASSUME AppOK, Alive
  PROVE  /\ app \in App /\ app.code = -1 /\ "monitor" \in Processes /\ Members \subseteq Processes
         /\ \A m \in Members : m # "monitor"
         /\ \A m \in Members : app.run[m] # "returned" => app.run["monitor"] # "returned"
         /\ \A p \in Processes : app.run[p] # "returned" => app.got[p] = {}
         /\ \A p \in Processes : app.run[p] # "off" => app.main \notin {"off", "init", "envoke"}
         /\ app.run["monitor"] # "off" => app.main \notin Early
  <1>1. app \in App /\ app.code = -1
    BY DEF AppOK, AppTyped, Alive
  <1>2. "monitor" \in Processes /\ Members \subseteq Processes /\ \A m \in Members : m # "monitor"
    BY LifecycleAssumption DEF Processes
  <1> QED BY <1>1, <1>2 DEF AppOK, SumsUp, Waited, NotYet

\* A step that moves one process that had not returned, and takes one of the
\* signals that wait for it or none.
LEMMA OneMoves ==
  ASSUME AppOK, Alive, spec' = spec, NEW p \in Processes, app.run[p] \notin {"off", "returned"},
         NEW next \in {"ready", "draining", "returned"}, NEW status \in {"nil", "error"},
         app' \in App, app'.main = app.main, app'.code = app.code, app'.got = app.got,
         app'.run = [app.run EXCEPT ![p] = next],
         next # "returned" => app'.exitStatus = app.exitStatus,
         next = "returned" => app'.exitStatus = [app.exitStatus EXCEPT ![p] = status],
         app'.osSignals = app.osSignals, app'.signals = app.signals,
         \A q \in Processes : app'.sends[q] <= app.sends[q],
         p = "monitor" /\ next = "returned" =>
            /\ \A m \in Members : app.run[m] = "returned"
            /\ status = "nil" <=> \A m \in Members : app.exitStatus[m] = "nil"
  PROVE  AppOK'
  <1>1. AppTyped'
    BY DEF AppOK, AppTyped
  <1>2. Signalled'
    <2>1. \A q \in Processes : app.osSignals \in Nat /\ app.sends[q] \in Nat /\ app'.sends[q] \in Nat /\ app.signals \in Nat
      BY LifecycleAssumption DEF AppOK, AppTyped, App
    <2> QED BY <2>1 DEF AppOK, Signalled, Alive
  <1>3. app.run \in [Processes -> {"off", "running", "ready", "draining", "returned"}]
        /\ app.exitStatus \in [Processes -> {"nil", "error"}]
    BY DEF AppOK, AppTyped, App
  <1>4. \A q \in Processes : app'.run[q] = IF q = p THEN next ELSE app.run[q]
    BY <1>3
  <1>5. \A q \in Processes : app'.exitStatus[q] = IF q = p /\ next = "returned" THEN status ELSE app.exitStatus[q]
    BY <1>3
  <1>6. Waited' /\ NotYet' /\ CodeOK'
    BY <1>4, Living DEF AppOK, Waited, NotYet, CodeOK, Early
  <1>7. SumsUp'
    BY <1>3, <1>4, <1>5, Living DEF AppOK, SumsUp
  <1> QED BY <1>1, <1>2, <1>6, <1>7 DEF AppOK

LEMMA HandlerApp ==
  ASSUME AppOK, NEW m \in Members, HandlerStep(m), spec' = spec
  PROVE  AppOK'
  <1>0. Alive
    BY DEF HandlerStep, HandlerIsReady, HandlerIsSignalled, HandlerReturns
  <1>1. app \in App /\ m \in Processes /\ m # "monitor"
    BY <1>0, Living
  <1>2. CASE HandlerIsReady(m)
    <2>1. app' \in App
      BY ZenonT(60), <1>1, <1>2 DEF App, HandlerIsReady
    <2>2. /\ app'.main = app.main /\ app'.code = app.code /\ app'.got = app.got
          /\ app'.run = [app.run EXCEPT ![m] = "ready"] /\ app'.exitStatus = app.exitStatus
          /\ app'.osSignals = app.osSignals /\ app'.signals = app.signals /\ app'.sends = app.sends
          /\ app.run[m] = "running"
      BY <1>1, <1>2 DEF App, HandlerIsReady
    <2>3. \A q \in Processes : app'.sends[q] <= app.sends[q]
      BY <1>1, <2>2, LifecycleAssumption DEF App
    <2> QED BY <1>0, <1>1, <2>1, <2>2, <2>3, OneMoves
  <1>3. CASE HandlerIsSignalled(m)
    <2>1. app.sends \in [Processes -> 0 .. MaxSignals] /\ app.sends[m] - 1 \in 0 .. MaxSignals
          /\ \A q \in Processes : [app.sends EXCEPT ![m] = app.sends[m] - 1][q] <= app.sends[q]
      BY <1>1, <1>3, LifecycleAssumption DEF App, HandlerIsSignalled
    <2>2. app' \in App
      BY <1>1, <1>3, <2>1 DEF App, HandlerIsSignalled
    <2>3. /\ app'.main = app.main /\ app'.code = app.code /\ app'.got = app.got
          /\ app'.run = [app.run EXCEPT ![m] = "draining"] /\ app'.exitStatus = app.exitStatus
          /\ app'.osSignals = app.osSignals /\ app'.signals = app.signals
          /\ app'.sends = [app.sends EXCEPT ![m] = app.sends[m] - 1] /\ app.run[m] = "ready"
      BY <1>1, <1>3 DEF App, HandlerIsSignalled
    <2> QED BY <1>0, <1>1, <2>1, <2>2, <2>3, OneMoves
  <1>4. CASE HandlerReturns(m)
    <2>1. app' \in App
      BY ZenonT(60), <1>1, <1>4 DEF App, HandlerReturns, Returned
    <2>2. /\ app'.main = app.main /\ app'.code = app.code /\ app'.got = app.got
          /\ app'.run = [app.run EXCEPT ![m] = "returned"]
          /\ app'.exitStatus = [app.exitStatus EXCEPT ![m] = "nil"]
          /\ app'.osSignals = app.osSignals /\ app'.signals = app.signals /\ app'.sends = app.sends
          /\ app.run[m] = "draining"
      BY <1>1, <1>4 DEF App, HandlerReturns, Returned
    <2>3. \A q \in Processes : app'.sends[q] <= app.sends[q]
      BY <1>1, <2>2, LifecycleAssumption DEF App
    <2> QED BY <1>0, <1>1, <2>1, <2>2, <2>3, OneMoves
  <1> QED BY <1>2, <1>3, <1>4 DEF HandlerStep

LEMMA RecoverApp ==
  ASSUME AppOK, NEW m \in Members, recover(m), spec' = spec
  PROVE  AppOK'
  <1>1. app \in App /\ m \in Processes /\ m # "monitor" /\ Alive
    BY Living DEF recover
  <1>2. app.panics + 1 \in 0 .. MaxPanics
    BY <1>1, LifecycleAssumption DEF App, recover
  <1>3. app' \in App
    BY <1>1, <1>2 DEF App, recover, Returned
  <1>4. /\ app'.main = app.main /\ app'.code = app.code /\ app'.got = app.got
        /\ app'.run = [app.run EXCEPT ![m] = "returned"]
        /\ app'.exitStatus = [app.exitStatus EXCEPT ![m] = "error"]
        /\ app'.osSignals = app.osSignals /\ app'.signals = app.signals /\ app'.sends = app.sends
        /\ app.run[m] \in {"running", "ready", "draining"}
    BY <1>1 DEF App, recover, Returned
  <1>5. \A q \in Processes : app'.sends[q] <= app.sends[q]
    BY <1>1, <1>4, LifecycleAssumption DEF App
  <1> QED BY <1>1, <1>3, <1>4, <1>5, OneMoves

LEMMA PanicApp ==
  ASSUME AppOK, NEW m \in Members, ChangePanics(m), spec' = spec
  PROVE  AppOK'
  <1>1. app \in App /\ Alive
    BY Living DEF ChangePanics
  <1>2. app.panics + 1 \in 0 .. MaxPanics
    BY <1>1, LifecycleAssumption DEF App, ChangePanics
  <1>3. app' \in App
    BY ZenonT(60), <1>1, <1>2 DEF App, ChangePanics
  <1>4. /\ app'.main = "exited" /\ app'.code = 2 /\ app'.got = app.got /\ app'.run = app.run
        /\ app'.exitStatus = app.exitStatus
        /\ app'.osSignals = app.osSignals /\ app'.signals = app.signals /\ app'.sends = app.sends
    BY <1>1 DEF App, ChangePanics
  <1> QED BY <1>1, <1>3, <1>4 DEF AppOK, AppTyped, Signalled, Waited, NotYet, SumsUp, CodeOK, Alive, Early

LEMMA StatusApp ==
  ASSUME AppOK, NEW p \in Processes, NEW w \in Waiters, getExitStatus(p, w), spec' = spec
  PROVE  AppOK'
  <1>1. app \in App /\ Alive
    BY Living DEF getExitStatus
  <1>2. app' \in App
    <2> DEFINE got == [app.got EXCEPT ![p] = app.got[p] \cup {w}]
    <2>1. app' = [app EXCEPT !.got = got]
      BY <1>1 DEF App, getExitStatus
    <2>2. got \in [Processes -> SUBSET Waiters]
      BY <1>1 DEF App
    <2> HIDE DEF got
    <2> QED BY ZenonT(60), <1>1, <2>1, <2>2 DEF App
  <1>3. /\ app'.main = app.main /\ app'.code = app.code /\ app'.run = app.run /\ app.run[p] = "returned"
        /\ app'.exitStatus = app.exitStatus /\ app'.notified = app.notified
        /\ app'.osSignals = app.osSignals /\ app'.signals = app.signals /\ app'.sends = app.sends
        /\ app'.got = [app.got EXCEPT ![p] = app.got[p] \cup {w}]
    BY <1>1 DEF App, getExitStatus
  <1>4. \A q \in Processes : q # p => app'.got[q] = app.got[q]
    BY <1>1, <1>3 DEF App
  <1> QED BY <1>1, <1>2, <1>3, <1>4 DEF AppOK, AppTyped, Signalled, Waited, NotYet, SumsUp, CodeOK, Alive, Early

LEMMA MonitorApp == AppOK /\ MonitorStep /\ spec' = spec => AppOK'
  <1> SUFFICES ASSUME AppOK, MonitorStep, spec' = spec PROVE AppOK'
    OBVIOUS
  <1>0. Alive
    BY DEF MonitorStep, Notify, ForwardSignal, waitForGroup
  <1>1. app \in App /\ "monitor" \in Processes /\ Members \subseteq Processes /\ app.code = -1
    BY <1>0, Living
  <1>2. CASE Notify
    <2>1. app' \in App
      BY <1>1, <1>2 DEF App, Notify
    <2>2. /\ app'.main = app.main /\ app'.code = app.code /\ app'.got = app.got
          /\ app'.run = [app.run EXCEPT !["monitor"] = "ready"] /\ app'.exitStatus = app.exitStatus
          /\ app'.osSignals = app.osSignals /\ app'.signals = app.signals /\ app'.sends = app.sends
          /\ app.run["monitor"] = "running"
      BY <1>1, <1>2 DEF App, Notify
    <2>3. \A q \in Processes : app'.sends[q] <= app.sends[q]
      BY <1>1, <2>2, LifecycleAssumption DEF App
    <2> QED BY <1>0, <1>1, <2>1, <2>2, <2>3, OneMoves
  <1>3. CASE ForwardSignal
    <2> DEFINE sends == [p \in Processes |-> app.sends[p] + IF p \in Members THEN 1 ELSE 0]
    <2>1. \A p \in Processes : /\ app.sends[p] \in Nat /\ app.osSignals \in Nat /\ app.osSignals > 0 /\ app.signals \in 0 .. MaxSignals
                               /\ app.osSignals + app.sends[p] <= app.signals
      BY <1>1, <1>3, LifecycleAssumption DEF App, ForwardSignal, AppOK, Signalled
    <2>2. /\ \A p \in Processes : sends[p] \in 0 .. MaxSignals /\ app.osSignals - 1 + sends[p] <= app.signals
          /\ app.osSignals - 1 \in 0 .. MaxSignals
      BY <1>1, <2>1, LifecycleAssumption
    <2>3. sends \in [Processes -> 0 .. MaxSignals]
      BY <2>2
    <2>4. app' = [app EXCEPT !.osSignals = app.osSignals - 1, !.sends = sends]
      BY <1>1, <1>3 DEF ForwardSignal, Forwarded, App
    <2> HIDE DEF sends
    <2>5. app' \in App
      BY ZenonT(60), <1>1, <2>2, <2>3, <2>4 DEF App
    <2>6. /\ app'.main = app.main /\ app'.code = app.code /\ app'.run = app.run /\ app'.got = app.got
          /\ app'.exitStatus = app.exitStatus /\ app'.signals = app.signals
          /\ app'.osSignals = app.osSignals - 1 /\ app'.sends = sends
      BY <1>1, <2>4 DEF App
    <2>7. Signalled'
      BY <1>0, <2>2, <2>6 DEF AppOK, Signalled, Alive
    <2> QED BY <1>1, <2>5, <2>6, <2>7 DEF AppOK, AppTyped, Waited, NotYet, SumsUp, CodeOK, Early
  <1>4. CASE waitForGroup
    <2> DEFINE status == IF \E m \in Members : app.exitStatus[m] # "nil" THEN "error" ELSE "nil"
    <2>1. app' = Returned("monitor", status) /\ app.run["monitor"] = "ready"
          /\ \A m \in Members : "parent" \in app.got[m]
      BY <1>4 DEF waitForGroup
    <2>2. status \in {"nil", "error"} /\ (status = "nil" <=> \A m \in Members : app.exitStatus[m] = "nil")
      OBVIOUS
    <2>3. \A m \in Members : app.run[m] = "returned"
      BY <1>1, <2>1 DEF AppOK, Waited
    <2> HIDE DEF status
    <2>4. app' \in App
      BY ZenonT(60), <1>1, <2>1, <2>2 DEF App, Returned
    <2>5. /\ app'.main = app.main /\ app'.code = app.code /\ app'.got = app.got
          /\ app'.run = [app.run EXCEPT !["monitor"] = "returned"]
          /\ app'.exitStatus = [app.exitStatus EXCEPT !["monitor"] = status]
          /\ app'.osSignals = app.osSignals /\ app'.signals = app.signals /\ app'.sends = app.sends
      BY <1>1, <2>1 DEF App, Returned
    <2>6. \A q \in Processes : app'.sends[q] <= app.sends[q]
      BY <1>1, <2>5, LifecycleAssumption DEF App
    <2>7. "monitor" \in Processes /\ app.run["monitor"] \notin {"off", "returned"}
      BY <2>1 DEF Processes
    <2> QED BY ZenonT(60), <1>0, <2>2, <2>3, <2>4, <2>5, <2>6, <2>7, OneMoves
  <1> QED BY <1>2, <1>3, <1>4 DEF MonitorStep

-----------------------------------------------------------------------------
(* The steps of the suite, of the session and of the assertions on AppOK.  *)

\* Nothing that AppOK speaks of but the pipe changes.
LEMMA SameApp ==
  ASSUME AppOK, app' \in App, app'.main = app.main, app'.run = app.run, app'.exitStatus = app.exitStatus,
         app'.got = app.got, app'.sends = app.sends, app'.notified = app.notified,
         app'.osSignals = app.osSignals, app'.signals = app.signals, app'.code = app.code,
         spec' \in {"started?", "It"} => spec \in {"started?", "It"}, spec' \in Quiet => spec \in Quiet
  PROVE  AppOK'
  BY DEF AppOK, AppTyped, Signalled, Waited, NotYet, SumsUp, CodeOK, Alive

LEMMA ApartApp ==
  ASSUME AppOK, app' = app,
         startEtcd \/ startNode \/ clusterIsUp \/ stopNode \/ markAsStopped \/ AfterSuite
           \/ Started \/ Stays \/ Over \/ NothingToKill \/ Killed
  PROVE  AppOK'
  <1>1. app' \in App
    BY DEF AppOK, AppTyped
  <1>2. CASE startEtcd \/ startNode \/ clusterIsUp \/ stopNode \/ markAsStopped \/ AfterSuite
    <2>1. spec \in Quiet /\ spec' \in Quiet \ {"started?", "It"}
      BY <1>2 DEF startEtcd, startNode, clusterIsUp, stopNode, markAsStopped, AfterSuite, Quiet
    <2> QED BY <1>1, <2>1, SameApp
  <1>3. CASE Started \/ Stays \/ Over
    <2>1. spec' \notin Quiet /\ (spec' \in {"started?", "It"} => spec \in {"started?", "It"})
      BY <1>3 DEF Started, Stays, Over, Judged, Quiet
    <2> QED BY <1>1, <2>1, SameApp
  <1>4. CASE NothingToKill \/ Killed
    <2>1. spec \in Quiet /\ spec' \in Quiet \ {"started?", "It"}
      BY <1>4 DEF NothingToKill, Killed, Judged, Quiet
    <2> QED BY <1>1, <2>1, SameApp
  <1> QED BY <1>2, <1>3, <1>4

LEMMA StartApp == AppOK /\ StartWithoutCheck => AppOK'
  <1> SUFFICES ASSUME AppOK, StartWithoutCheck PROVE AppOK'
    OBVIOUS
  <1>1. app' = [NotStarted EXCEPT !.main = "init"] /\ spec' = "started?"
    BY DEF StartWithoutCheck, Start
  <1>2. AppTyped'
    <2>1. app' \in App /\ app'.main = "init" /\ app'.code = -1
      BY <1>1, NotStartedType DEF App
    <2> QED BY <2>1 DEF AppTyped
  <1>3. Signalled' /\ Waited' /\ NotYet' /\ SumsUp' /\ CodeOK'
    BY <1>1 DEF Signalled, Waited, NotYet, SumsUp, CodeOK, NotStarted, Alive, Processes, Quiet
  <1> QED BY <1>2, <1>3 DEF AppOK

\* A signal the process was waiting for, or one that ends it.
LEMMA DeliveredApp ==
  ASSUME AppOK, Alive, NEW signal \in {"TERM", "KILL"}, app' = Delivered(signal),
         signal = "TERM" => app.signals = 0,
         spec' \notin {"started?", "It"}, spec' \in Quiet => signal = "KILL"
  PROVE  AppOK'
  <1>1. app \in App /\ app.signals <= 1 /\ app.code = -1
    BY DEF AppOK, AppTyped, Signalled, Alive
  <1>2. /\ app.osSignals \in 0 .. MaxSignals /\ app.signals + 1 \in 0 .. MaxSignals /\ app.signals + 1 <= 2
        /\ app.signals \in Nat /\ app.osSignals \in Nat
        /\ \A p \in Processes : app.sends[p] \in Nat /\ app.osSignals + app.sends[p] <= app.signals
    BY <1>1, LifecycleAssumption, IntegrationAssumption DEF App, AppOK, Signalled
  <1>3. CASE signal = "TERM" /\ app.notified
    <2> DEFINE os == IF app.osSignals < SIGNAL_BUFFER_SIZE THEN app.osSignals + 1 ELSE app.osSignals
    <2>1. app' = [app EXCEPT !.signals = app.signals + 1, !.osSignals = os]
      BY <1>3 DEF Delivered
    <2>2. Processes # {}
      BY DEF Processes
    <2>3. os \in 0 .. MaxSignals /\ \A p \in Processes : os + app.sends[p] <= app.signals + 1
      BY <1>2, <2>2, LifecycleAssumption
    <2> HIDE DEF os
    <2>4. app' \in App
      BY ZenonT(60), <1>1, <1>2, <2>1, <2>3 DEF App
    <2>5. /\ app'.main = app.main /\ app'.code = app.code /\ app'.run = app.run /\ app'.got = app.got
          /\ app'.exitStatus = app.exitStatus /\ app'.signals = app.signals + 1
          /\ app'.osSignals = os /\ app'.sends = app.sends /\ app'.notified = app.notified
      BY <1>1, <2>1 DEF App
    <2>6. Signalled'
      BY <1>1, <1>2, <1>3, <2>3, <2>5 DEF Signalled
    <2> QED BY <1>1, <2>4, <2>5, <2>6 DEF AppOK, AppTyped, Waited, NotYet, SumsUp, CodeOK
  <1>4. CASE ~(signal = "TERM" /\ app.notified)
    <2> DEFINE code == IF signal = "TERM" THEN 143 ELSE 137
    <2>1. app' = [app EXCEPT !.signals = app.signals + 1, !.main = "exited", !.code = code]
      BY <1>4 DEF Delivered
    <2>2. code \in {137, 143} /\ (code = 143 => ~app.notified)
      BY <1>4
    <2>3. app' \in App
      <3>1. CASE signal = "TERM"
        <4>1. app' = [app EXCEPT !.signals = app.signals + 1, !.main = "exited", !.code = 143]
          BY <2>1, <3>1
        <4> QED BY ZenonT(60), <1>1, <1>2, <4>1 DEF App
      <3>2. CASE signal = "KILL"
        <4>1. app' = [app EXCEPT !.signals = app.signals + 1, !.main = "exited", !.code = 137]
          BY <2>1, <3>2
        <4> QED BY ZenonT(60), <1>1, <1>2, <4>1 DEF App
      <3> QED BY <3>1, <3>2
    <2> HIDE DEF code
    <2>4. /\ app'.main = "exited" /\ app'.code = code /\ app'.run = app.run /\ app'.got = app.got
          /\ app'.exitStatus = app.exitStatus /\ app'.signals = app.signals + 1
          /\ app'.osSignals = app.osSignals /\ app'.sends = app.sends /\ app'.notified = app.notified
      BY <1>1, <2>1 DEF App
    <2>5. Signalled'
      BY <1>2, <2>4 DEF Signalled, Alive
    <2> QED BY <2>2, <2>3, <2>4, <2>5 DEF AppOK, AppTyped, Waited, NotYet, SumsUp, CodeOK, Early
  <1> QED BY <1>3, <1>4

LEMMA SignalApp == AppOK /\ Recorded /\ (Stop \/ Kill) => AppOK'
  <1> SUFFICES ASSUME AppOK, Recorded, Stop \/ Kill PROVE AppOK'
    OBVIOUS
  <1>1. app \in App /\ (HasExited => ~Alive)
    BY DEF AppOK, AppTyped, Recorded, HasExited, Alive
  <1>2. CASE Stop
    <2>1. /\ spec = "It" /\ spec' = "It?"
          /\ app' = IF HasExited \/ ~Alive THEN app ELSE Delivered("TERM")
      BY <1>2 DEF Stop, Signal
    <2>2. app.signals = 0
      BY <2>1 DEF AppOK, Signalled
    <2>3. CASE HasExited \/ ~Alive
      BY <1>1, <2>1, <2>3, SameApp DEF Quiet
    <2>4. CASE ~(HasExited \/ ~Alive)
      BY <2>1, <2>2, <2>4, DeliveredApp DEF Quiet
    <2> QED BY <2>3, <2>4
  <1>3. CASE Kill
    <2>1. /\ spec' = "killed?"
          /\ app' = IF HasExited \/ ~Alive THEN app ELSE Delivered("KILL")
      BY <1>3 DEF Kill, Signal
    <2>2. CASE HasExited \/ ~Alive
      <3>1. app' = app /\ ~Alive
        BY <1>1, <2>1, <2>2
      <3> QED BY <2>1, <3>1 DEF AppOK, AppTyped, Signalled, Waited, NotYet, SumsUp, CodeOK, Alive
    <2>3. CASE ~(HasExited \/ ~Alive)
      BY <2>1, <2>3, DeliveredApp
    <2> QED BY <2>2, <2>3
  <1> QED BY <1>2, <1>3

\* The pipe after a line was copied out of it.
LEMMA Drained ==
  ASSUME app \in App, app.pipe # <<>>
  PROVE  /\ Head(app.pipe) \in Lines /\ Len(Tail(app.pipe)) = Len(app.pipe) - 1
         /\ Len(app.pipe) \in Nat
         /\ Tail(app.pipe) \in {<<>>, <<"exited">>}
         /\ app.pipe = <<"started">> => Tail(app.pipe) = <<>>
  <1>1. app.pipe \in {<<"started">>, <<"exited">>, <<"started", "exited">>}
    BY DEF App
  <1>2. \A a \in Lines : Head(<<a>>) = a /\ Tail(<<a>>) = <<>> /\ Len(<<a>>) = 1
    BY DEF Lines
  <1>3. \A a, b \in Lines : Head(<<a, b>>) = a /\ Tail(<<a, b>>) = <<b>> /\ Len(<<a, b>>) = 2
    <2> TAKE a, b \in Lines
    <2>1. /\ <<a, b>> \in Seq(Lines) /\ <<b>> \in Seq(Lines) /\ Len(<<a, b>>) = 2 /\ Len(<<b>>) = 1
          /\ Head(<<a, b>>) = a /\ <<a, b>>[2] = b /\ <<b>>[1] = b
      OBVIOUS
    <2>2. Tail(<<a, b>>) \in Seq(Lines) /\ Len(Tail(<<a, b>>)) = 1 /\ Tail(<<a, b>>)[1] = b
      BY <2>1
    <2>3. \A i \in 1 .. 1 : Tail(<<a, b>>)[i] = <<b>>[i]
      BY <2>1, <2>2
    <2> QED BY <2>1, <2>2, <2>3, SeqEqual
  <1>4. Len(<<>>) = 0
    OBVIOUS
  <1>5. CASE app.pipe = <<"started">>
    BY <1>2, <1>4, <1>5 DEF Lines
  <1>6. CASE app.pipe = <<"exited">>
    BY <1>2, <1>4, <1>6 DEF Lines
  <1>7. CASE app.pipe = <<"started", "exited">>
    BY <1>2, <1>3, <1>7 DEF Lines
  <1> QED BY <1>1, <1>5, <1>6, <1>7

LEMMA WriteApp == AppOK /\ Write /\ spec' = spec => AppOK'
  <1> SUFFICES ASSUME AppOK, Write, spec' = spec PROVE AppOK'
    OBVIOUS
  <1>1. app \in App /\ app' = [app EXCEPT !.pipe = Tail(app.pipe)] /\ Tail(app.pipe) \in {<<>>, <<"exited">>}
    BY Drained DEF AppOK, AppTyped, Write
  <1>2. app' \in App
    BY ZenonT(60), <1>1 DEF App
  <1>3. /\ app'.main = app.main /\ app'.code = app.code /\ app'.run = app.run /\ app'.got = app.got
        /\ app'.exitStatus = app.exitStatus /\ app'.signals = app.signals
        /\ app'.osSignals = app.osSignals /\ app'.sends = app.sends /\ app'.notified = app.notified
    BY <1>1 DEF App
  <1> QED BY <1>2, <1>3, SameApp

\* A step of the process.
AppStep ==
    \/ MainStep \/ MonitorStep \/ \E m \in Members : HandlerStep(m)
    \/ \E p \in Processes, w \in Waiters : getExitStatus(p, w)
    \/ \E m \in Members : recover(m) \/ ChangePanics(m)

LEMMA NextApp == IInv /\ [Next]_vars => AppOK'
  <1> SUFFICES ASSUME IInv, [Next]_vars PROVE AppOK'
    OBVIOUS
  <1>0. AppOK /\ Written /\ Recorded
    BY DEF IInv, SessionOK
  <1>1. CASE SuiteStep
    BY <1>0, <1>1, ApartApp, StartApp, SignalApp
    DEF SuiteStep, startEtcd, startNode, clusterIsUp, stopNode, markAsStopped, AfterSuite, Apart,
        Started, Stays, Over, NothingToKill, Killed, Judged
  <1>2. CASE InSuite(SessionStep) \/ InSuite(Poll)
    <2>1. Write \/ app' = app
      BY <1>2 DEF InSuite, SessionStep, Poll, monitorForExit, ExitRecorded, matcherMayChange, SayMatch,
                  ExitMatch, judge, pollActual, TimesOut
    <2>2. spec' = spec
      BY <1>2 DEF InSuite
    <2>3. CASE app' = app
      BY <1>0, <2>2, <2>3, SameApp DEF AppOK, AppTyped
    <2> QED BY <1>0, <2>1, <2>2, <2>3, WriteApp
  <1>3. CASE AppStep /\ spec' = spec
    BY <1>0, <1>3, MainApp, MonitorApp, HandlerApp, StatusApp, RecoverApp, PanicApp DEF AppStep
  <1>4. CASE UNCHANGED vars
    BY <1>0, <1>4, SameApp DEF vars, AppOK, AppTyped
  <1> QED BY <1>1, <1>2, <1>3, <1>4 DEF Next, InApp, AppStep

-----------------------------------------------------------------------------
(* SessionOK.                                                              *)

LEMMA InitSession == Init => SessionOK
  <1> SUFFICES ASSUME Init PROVE SessionOK
    OBVIOUS
  <1>1. session = NoSession /\ assertion = NoAssertion /\ app.main = "off" /\ app.pipe = <<>> /\ app.code = -1
    BY DEF Init, NotStarted
  <1>2. <<>> \in Seq(Lines) /\ Len(<<>>) = 0
    OBVIOUS
  <1>3. SessionTyped
    BY <1>1, <1>2 DEF SessionTyped, Sessions, Codes, Assertions, AssertionSteps, NoSession, NoAssertion
  <1>4. Written /\ Recorded /\ Asserted
    BY <1>1, <1>2 DEF Written, Recorded, Asserted, NoSession, NoAssertion
  <1> QED BY <1>3, <1>4 DEF SessionOK

\* What a step of the process does to what it has written.
LEMMA AppWrites ==
  ASSUME AppOK, AppStep
  PROVE  /\ Alive
         /\ \/ LogStarted
            \/ MainExits
            \/ app'.pipe = app.pipe /\ (app'.main \in Early => app.main \in Early)
  <1>0. app \in App
    BY DEF AppOK, AppTyped
  <1>1. CASE MainStep
    <2>1. Alive
      BY <1>1 DEF MainStep, initializeBbs, EnvokeGroup, GroupIsUp, LogStarted, MonitorIsUp, MainExits, Alive
    <2>2. ASSUME NEW next, app' = [app EXCEPT !.main = next], next \in Early => app.main \in Early
          PROVE  app'.pipe = app.pipe /\ (app'.main \in Early => app.main \in Early)
      BY <1>0, <2>2 DEF App
    <2>3. initializeBbs \/ GroupIsUp \/ MonitorIsUp =>
             app'.pipe = app.pipe /\ (app'.main \in Early => app.main \in Early)
      BY <2>2 DEF initializeBbs, GroupIsUp, MonitorIsUp, Early
    <2>4. EnvokeGroup => app'.pipe = app.pipe /\ app.main \in Early
      BY <1>0 DEF App, EnvokeGroup, Early
    <2> QED BY <1>1, <2>1, <2>3, <2>4 DEF MainStep
  <1>2. CASE MonitorStep
    <2>1. Notify => Alive /\ app'.pipe = app.pipe /\ app'.main = app.main
      BY <1>0 DEF Notify, App
    <2>2. ForwardSignal => Alive /\ app'.pipe = app.pipe /\ app'.main = app.main
      BY <1>0 DEF ForwardSignal, Forwarded, App
    <2>3. waitForGroup => Alive /\ app'.pipe = app.pipe /\ app'.main = app.main
      BY <1>0 DEF waitForGroup, Returned, App
    <2> QED BY <1>2, <2>1, <2>2, <2>3 DEF MonitorStep
  <1>3. ASSUME NEW m \in Members, HandlerStep(m) \/ recover(m) \/ ChangePanics(m)
        PROVE  Alive /\ app'.pipe = app.pipe /\ (app'.main \in Early => app.main \in Early)
    <2>1. HandlerIsReady(m) => Alive /\ app'.pipe = app.pipe /\ app'.main = app.main
      BY <1>0 DEF HandlerIsReady, App
    <2>2. HandlerIsSignalled(m) => Alive /\ app'.pipe = app.pipe /\ app'.main = app.main
      BY <1>0 DEF HandlerIsSignalled, App
    <2>3. HandlerReturns(m) => Alive /\ app'.pipe = app.pipe /\ app'.main = app.main
      BY <1>0 DEF HandlerReturns, Returned, App
    <2>4. recover(m) => Alive /\ app'.pipe = app.pipe /\ app'.main = app.main
      BY <1>0 DEF recover, Returned, App
    <2>5. ChangePanics(m) => Alive /\ app'.pipe = app.pipe /\ app'.main = "exited"
      BY <1>0 DEF ChangePanics, App
    <2> QED BY <1>3, <2>1, <2>2, <2>3, <2>4, <2>5 DEF HandlerStep, Early
  <1>4. ASSUME NEW p \in Processes, NEW w \in Waiters, getExitStatus(p, w)
        PROVE  Alive /\ app'.pipe = app.pipe /\ (app'.main \in Early => app.main \in Early)
    BY <1>0, <1>4 DEF getExitStatus, App, Early
  <1> QED BY <1>1, <1>2, <1>3, <1>4 DEF AppStep

LEMMA AppSession ==
  ASSUME AppOK, SessionOK, AppStep, UNCHANGED <<session, assertion>>
  PROVE  SessionOK'
  <1>0. app \in App /\ Alive /\ ~session.closed /\ session.exitCode = -1
    BY AppWrites DEF AppOK, AppTyped, SessionOK, Recorded, Alive
  <1>1. SessionTyped' /\ Recorded' /\ Asserted'
    BY <1>0 DEF SessionOK, SessionTyped, Sessions, Assertions, Recorded, Asserted, Says, Unread
  <1>2. session.contents \in Seq(Lines) /\ Len(session.contents) \in Nat
    BY DEF SessionOK, SessionTyped, Sessions, Assertions
  <1>3. Len(<<>>) = 0 /\ Len(<<"started">>) = 1 /\ Len(<<"exited">>) = 1 /\ Len(<<"started", "exited">>) = 2
    OBVIOUS
  <1>4. CASE LogStarted
    <2>1. app.pipe = <<>> /\ session.contents = <<>>
      BY <1>4 DEF SessionOK, Written, LogStarted, Early
    <2>2. app'.main = "monitor" /\ app'.pipe = <<"started">>
      BY <1>0, <1>4, <2>1, Appended DEF LogStarted, App
    <2> QED BY <1>1, <1>3, <2>1, <2>2 DEF SessionOK, Written, Early
  <1>5. CASE MainExits
    <2>1. app.main = "wait" /\ app.pipe \in {<<>>, <<"started">>}
      BY <1>5 DEF SessionOK, Written, MainExits
    <2>5. Len(session.contents) + Len(app.pipe) <= 1
      BY <2>1 DEF SessionOK, Written
    <2>2. app'.main = "exited" /\ app'.pipe \in {app.pipe, Append(app.pipe, "exited")}
      BY <1>0, <1>5 DEF MainExits, App
    <2>3. Len(app'.pipe) <= Len(app.pipe) + 1 /\ Len(app'.pipe) \in Nat /\ Len(app.pipe) \in Nat
      BY <1>3, <2>1, <2>2, Appended
    <2>4. Len(session.contents) + Len(app'.pipe) <= 2
      <3>1. \A c, l, k \in Nat : k <= l + 1 /\ c + l <= 1 => c + k <= 2
        OBVIOUS
      <3> QED BY <1>2, <2>3, <2>5, <3>1, Zenon
    <2> QED BY <1>1, <2>2, <2>4 DEF SessionOK, Written, Early
  <1>6. CASE app'.pipe = app.pipe /\ (app'.main \in Early => app.main \in Early)
    <2>1. Written'
      BY <1>0, <1>6 DEF SessionOK, Written, Alive
    <2> QED BY <1>1, <2>1 DEF SessionOK
  <1> QED BY <1>4, <1>5, <1>6, AppWrites

\* A new assertion of Exit, while the process is signalled or not.
LEMMA ExitAsserted ==
  ASSUME NEW kind \in {"Eventually", "Consistently"}, NEW desired \in BOOLEAN, Assert(kind, "Exit", desired),
         SessionOK, session' = session, app'.pipe = app.pipe,
         app' = app \/ (Alive /\ app'.main \in {app.main, "exited"})
  PROVE  SessionOK'
  <1>1. assertion'.matcher = "Exit" /\ SessionTyped'
    <2>1. assertion' \in Assertions /\ assertion'.matcher = "Exit"
      BY DEF Assert, NoAssertion, Assertions, AssertionSteps
    <2> QED BY <2>1 DEF SessionOK, SessionTyped
  <1>2. Written'
    BY DEF SessionOK, Written, Early
  <1>3. Recorded'
    BY DEF SessionOK, Recorded, Alive
  <1> QED BY <1>1, <1>2, <1>3 DEF SessionOK, Asserted

LEMMA SuiteSession == AppOK /\ SessionOK /\ SuiteStep => SessionOK'
  <1> SUFFICES ASSUME AppOK, SessionOK, SuiteStep PROVE SessionOK'
    OBVIOUS
  <1>0. app \in App
    BY DEF AppOK, AppTyped
  <1>1. CASE Apart
    <2>1. app' = app /\ session' = session /\ assertion' = assertion
      BY <1>1 DEF Apart
    <2>2. SessionTyped'
      BY <2>1 DEF SessionOK, SessionTyped, Sessions, Assertions
    <2>3. Written' /\ Recorded'
      BY <2>1 DEF SessionOK, Written, Recorded
    <2>4. Asserted'
      BY <2>1 DEF SessionOK, Asserted, Says, Unread
    <2> QED BY <2>2, <2>3, <2>4 DEF SessionOK
  <1>2. CASE StartWithoutCheck
    <2>1. /\ session' = [NoSession EXCEPT !.monitor = "wait"] /\ app' = [NotStarted EXCEPT !.main = "init"]
          /\ Assert("Eventually", "Say", TRUE)
      BY <1>2 DEF StartWithoutCheck, Start
    <2>2. <<>> \in Seq(Lines) /\ Len(<<>>) = 0
      OBVIOUS
    <2>3. SessionTyped'
      <3>1. session' = [exitCode |-> -1, monitor |-> "wait", contents |-> <<>>, readCursor |-> 0, closed |-> FALSE]
        BY <2>1 DEF NoSession
      <3>2. PICK hurried \in BOOLEAN :
               assertion' = [pc |-> "oracle", kind |-> "Eventually", matcher |-> "Say", desired |-> TRUE,
                             hurried |-> hurried, mayChange |-> TRUE, matches |-> FALSE]
        BY <2>1 DEF Assert, NoAssertion
      <3>3. session' \in Sessions /\ session'.readCursor = 0 /\ session'.contents = <<>>
        BY <2>2, <3>1 DEF Sessions, Codes
      <3>4. assertion' \in Assertions
        BY <3>2 DEF Assertions, AssertionSteps
      <3> QED BY <2>2, <3>3, <3>4 DEF SessionTyped
    <2>4. Written' /\ Recorded'
      BY <2>1, <2>2 DEF Written, Recorded, NoSession, NotStarted
    <2>5. Asserted'
      BY <2>1 DEF Asserted, Assert, NoAssertion
    <2> QED BY <2>3, <2>4, <2>5 DEF SessionOK
  <1>3. CASE Started \/ Over \/ Killed
    <2>1. assertion' = NoAssertion /\ UNCHANGED <<app, session>>
      BY <1>3 DEF Started, Over, Killed, Judged
    <2>2. assertion' \in Assertions
      BY <2>1 DEF Assertions, AssertionSteps, NoAssertion
    <2> QED BY <2>1, <2>2 DEF SessionOK, SessionTyped, Written, Recorded, Asserted, NoAssertion
  <1>4. CASE Stays
    BY <1>4, ExitAsserted DEF Stays
  <1>5. CASE Stop \/ Kill
    <2>1. /\ Assert("Eventually", "Exit", TRUE) /\ session' = session
          /\ app' = app \/ (Alive /\ (app' = Delivered("TERM") \/ app' = Delivered("KILL")))
      BY <1>5 DEF Stop, Kill, Wait, Signal
    <2>2. app'.pipe = app.pipe /\ (app' = app \/ (Alive /\ app'.main \in {app.main, "exited"}))
      <3>1. \A signal \in {"TERM", "KILL"} :
               app' = Delivered(signal) => app'.pipe = app.pipe /\ app'.main \in {app.main, "exited"}
        BY <1>0 DEF Delivered, App
      <3> QED BY <2>1, <3>1
    <2> QED BY <2>1, <2>2, ExitAsserted
  <1> QED BY <1>1, <1>2, <1>3, <1>4, <1>5
      DEF SuiteStep, startEtcd, startNode, clusterIsUp, stopNode, markAsStopped, AfterSuite, NothingToKill

\* The unread part of the buffer.
LEMMA UnreadPart ==
  ASSUME SessionTyped
  PROVE  /\ session.readCursor \in Nat /\ Len(session.contents) \in Nat
         /\ DOMAIN Unread = 1 .. Len(session.contents) - session.readCursor
         /\ Unread \in Seq(Lines)
  <1> DEFINE c == session.contents
             r == session.readCursor
  <1>1. c \in Seq(Lines) /\ r \in Nat /\ Len(c) \in Nat /\ r <= Len(c)
    BY DEF SessionTyped, Sessions, Assertions
  <1>2. \A i \in r + 1 .. Len(c) : c[i] \in Lines
    BY <1>1
  <1>3. SubSeq(c, r + 1, Len(c)) \in Seq(Lines)
        /\ Len(SubSeq(c, r + 1, Len(c))) = IF r + 1 <= Len(c) THEN Len(c) - (r + 1) + 1 ELSE 0
    BY <1>1, <1>2, SubSeqProperties
  <1>4. Len(SubSeq(c, r + 1, Len(c))) = Len(c) - r
    BY <1>1, <1>3
  <1> QED BY <1>1, <1>3, <1>4 DEF Unread

\* The first line that matches exists, so the cursor stays in the buffer.
LEMMA CursorMoves ==
  ASSUME SessionTyped, Len(session.contents) <= 2, Says("started")
  PROVE  \E i \in 1 .. Len(session.contents) - session.readCursor :
             didSay("started") = [session EXCEPT !.readCursor = session.readCursor + i]
  <1> DEFINE u == Unread
             P(i) == u[i] = "started" /\ \A j \in 1 .. i - 1 : u[j] # "started"
             n == Len(session.contents) - session.readCursor
  <1>1. DOMAIN u = 1 .. n /\ n \in Int /\ n <= 2
    BY UnreadPart
  <1>2. \E i \in DOMAIN u : P(i)
    <2>1. PICK i \in DOMAIN u : u[i] = "started"
      BY DEF Says
    <2>2. i \in {1, 2} /\ 1 \in DOMAIN u
      BY <1>1, <2>1
    <2>3. CASE u[1] = "started"
      BY <2>2, <2>3
    <2>4. CASE u[1] # "started"
      BY <2>1, <2>2, <2>4
    <2> QED BY <2>3, <2>4
  <1>3. (CHOOSE i \in DOMAIN u : P(i)) \in DOMAIN u
    BY <1>2
  <1>4. didSay("started") = [session EXCEPT !.readCursor = session.readCursor + (CHOOSE i \in DOMAIN u : P(i))]
    BY DEF didSay
  <1> HIDE DEF P
  <1> QED BY <1>1, <1>3, <1>4

LEMMA WriteSession == AppOK /\ SessionOK /\ Write => SessionOK'
  <1> SUFFICES ASSUME AppOK, SessionOK, Write PROVE SessionOK'
    OBVIOUS
  <1> DEFINE c == session.contents
             line == Head(app.pipe)
  <1>0. /\ app \in App /\ app.pipe # <<>> /\ ~session.closed /\ assertion' = assertion
        /\ session' = [session EXCEPT !.contents = Append(c, line)] /\ app' = [app EXCEPT !.pipe = Tail(app.pipe)]
    BY DEF AppOK, AppTyped, Write, Closed
  <1>1. line \in Lines /\ Len(Tail(app.pipe)) = Len(app.pipe) - 1 /\ Len(app.pipe) \in Nat
        /\ (app.pipe = <<"started">> => Tail(app.pipe) = <<>>)
    BY <1>0, Drained
  <1>2. c \in Seq(Lines) /\ Len(c) \in Nat /\ session.readCursor \in Nat /\ session.readCursor <= Len(c)
    BY DEF SessionOK, SessionTyped, Sessions, Assertions
  <1>3. Append(c, line) \in Seq(Lines) /\ Len(Append(c, line)) = Len(c) + 1
    <2> HIDE DEF line, c
    <2> QED BY <1>1, <1>2
  <1> HIDE DEF line
  <1>4. /\ session'.contents = Append(c, line) /\ session'.readCursor = session.readCursor
        /\ session'.exitCode = session.exitCode /\ session'.monitor = session.monitor /\ session'.closed = session.closed
    BY <1>0 DEF SessionOK, SessionTyped, Sessions, Assertions
  <1>5. app'.pipe = Tail(app.pipe) /\ app'.main = app.main /\ app'.code = app.code
    BY <1>0 DEF App
  <1>6. SessionTyped'
    <2>1. session.readCursor <= Len(c) + 1
      BY <1>2
    <2>2. session' \in Sessions
      BY <1>0, <1>3 DEF SessionOK, SessionTyped, Sessions
    <2>3. session'.readCursor <= Len(session'.contents)
      BY <1>3, <1>4, <2>1
    <2> QED BY <1>0, <2>2, <2>3 DEF SessionOK, SessionTyped
  <1>7. Written'
    <2>1. Len(session'.contents) + Len(app'.pipe) = Len(c) + Len(app.pipe)
      <3>1. \A k, l \in Nat : (k + 1) + (l - 1) = k + l
        OBVIOUS
      <3>2. Len(session'.contents) = Len(c) + 1 /\ Len(app'.pipe) = Len(app.pipe) - 1
        BY <1>1, <1>3, <1>4, <1>5
      <3> QED BY <1>1, <1>2, <3>1, <3>2, Zenon
    <2>2. app.main \notin Early
      BY <1>0 DEF SessionOK, Written
    <2>3. app.main # "exited" => Tail(app.pipe) = <<>>
      BY <1>0, <1>1 DEF SessionOK, Written
    <2> QED BY <1>5, <2>1, <2>2, <2>3 DEF SessionOK, Written
  <1>8. Recorded'
    BY <1>0, <1>4 DEF SessionOK, Recorded
  <1>9. Asserted'
    BY <1>0 DEF SessionOK, Asserted
  <1> QED BY <1>6, <1>7, <1>8, <1>9 DEF SessionOK

LEMMA ExitSession == AppOK /\ SessionOK /\ (monitorForExit \/ ExitRecorded) => SessionOK'
  <1> SUFFICES ASSUME AppOK, SessionOK, monitorForExit \/ ExitRecorded PROVE SessionOK'
    OBVIOUS
  <1>0. app \in App /\ app' = app /\ assertion' = assertion /\ app.code \in {-1, 0, 1, 2, 137, 143}
    BY DEF AppOK, AppTyped, monitorForExit, ExitRecorded, App
  <1>1. session'.contents = session.contents /\ session'.readCursor = session.readCursor /\ session'.closed
        /\ session'.monitor \in {"locked", "done"}
    BY DEF monitorForExit, ExitRecorded, SessionOK, SessionTyped, Sessions, Assertions, Recorded
  <1>2. session' \in Sessions
    <2>1. session \in Sessions /\ app.code \in Codes
      BY <1>0 DEF SessionOK, SessionTyped, Codes
    <2> QED BY <2>1 DEF Sessions, monitorForExit, ExitRecorded
  <1>3. SessionTyped' /\ Written'
    BY <1>0, <1>1, <1>2 DEF SessionOK, SessionTyped, Sessions, Assertions, Written
  <1>4. Recorded'
    BY ZenonT(60), <1>0, <1>1 DEF SessionOK, SessionTyped, Sessions, Assertions, Recorded, monitorForExit, ExitRecorded
  <1>5. Unread' = Unread
    BY <1>1 DEF Unread
  <1>6. Asserted'
    BY <1>0, <1>1, <1>5 DEF SessionOK, Asserted, Says
  <1> QED BY <1>3, <1>4, <1>6 DEF SessionOK

\* A poll: the oracle is asked, then the matcher, and then they are judged.
LEMMA PollSession == AppOK /\ SessionOK /\ Poll => SessionOK'
  <1> SUFFICES ASSUME AppOK, SessionOK, Poll PROVE SessionOK'
    OBVIOUS
  <1>1. CASE SayMatch /\ Says("started")
    <2>1. /\ app' = app /\ session' = didSay("started") /\ assertion.matcher = "Say"
          /\ assertion' = [assertion EXCEPT !.pc = "judge", !.matches = TRUE]
      BY <1>1 DEF SayMatch
    <2>2. SessionTyped /\ Len(session.contents) <= 2 /\ Len(session.contents) \in Nat /\ session.readCursor \in Nat
      <3>1. SessionTyped /\ Len(session.contents) \in Nat /\ session.readCursor \in Nat
        BY UnreadPart DEF SessionOK
      <3>2. Len(app.pipe) \in Nat
        BY DEF AppOK, AppTyped, App
      <3>3. Len(session.contents) + Len(app.pipe) <= 2
        BY DEF SessionOK, Written
      <3>4. \A k, l \in Nat : k + l <= 2 => k <= 2
        OBVIOUS
      <3> QED BY <3>1, <3>2, <3>3, <3>4
    <2>3. PICK i \in 1 .. Len(session.contents) - session.readCursor :
             session' = [session EXCEPT !.readCursor = session.readCursor + i]
      BY <1>1, <2>1, <2>2, CursorMoves
    <2>4. session.readCursor + i \in Nat /\ session.readCursor + i <= Len(session.contents)
      BY <2>2, <2>3
    <2>5. SessionTyped'
      <3>1. session' \in Sessions /\ session'.readCursor = session.readCursor + i
            /\ session'.contents = session.contents
        BY <2>2, <2>3, <2>4 DEF SessionTyped, Sessions
      <3>2. assertion' \in Assertions
        BY <2>1, <2>2 DEF SessionTyped, Assertions, AssertionSteps
      <3> QED BY <2>4, <3>1, <3>2 DEF SessionTyped
    <2>6. /\ session'.contents = session.contents /\ session'.closed = session.closed
          /\ session'.exitCode = session.exitCode /\ session'.monitor = session.monitor
      BY <2>2, <2>3 DEF SessionTyped, Sessions, Assertions
    <2>7. Written' /\ Recorded'
      BY <2>1, <2>6 DEF SessionOK, Written, Recorded
    <2>8. Asserted'
      BY <1>1, <2>1, <2>2, <2>6 DEF SessionOK, SessionTyped, Sessions, Assertions, Asserted, SayMatch
    <2> QED BY <2>5, <2>7, <2>8 DEF SessionOK
  <1>2. CASE ~(SayMatch /\ Says("started"))
    <2>1. app' = app /\ session' = session
      BY <1>2 DEF Poll, matcherMayChange, SayMatch, ExitMatch, judge, pollActual, TimesOut, didSay
    <2>2. Written' /\ Recorded' /\ Unread' = Unread
      BY <2>1 DEF SessionOK, Written, Recorded, Unread
    <2>3. SessionTyped
      BY DEF SessionOK
    <2>4. SessionTyped'
      <3> SUFFICES assertion' \in Assertions
        BY <2>1, <2>3 DEF SessionTyped
      <3>0. assertion \in Assertions /\ session.closed \in BOOLEAN
        BY <2>3 DEF SessionTyped, Sessions
      <3>1. CASE matcherMayChange
        BY <3>0, <3>1 DEF Assertions, AssertionSteps, matcherMayChange, MatchMayChangeInTheFuture, Closed, HasExited
      <3>2. CASE SayMatch
        BY <3>0, <3>2 DEF Assertions, AssertionSteps, SayMatch, Says
      <3>3. CASE ExitMatch
        BY <3>0, <3>3 DEF Assertions, AssertionSteps, ExitMatch, HasExited
      <3>4. CASE judge
        BY <3>0, <3>4 DEF Assertions, AssertionSteps, judge, Verdict, Verdicts
      <3>5. CASE pollActual \/ TimesOut
        BY <3>0, <3>5 DEF Assertions, AssertionSteps, pollActual, TimesOut, Verdicts
      <3> QED BY <3>1, <3>2, <3>3, <3>4, <3>5 DEF Poll
    <2>5. Asserted'
      <3>1. CASE matcherMayChange
        BY <2>1, <2>3, <3>1 DEF SessionOK, SessionTyped, Sessions, Assertions, Asserted, matcherMayChange, MatchMayChangeInTheFuture, Closed
      <3>2. CASE SayMatch
        BY <1>2, <2>1, <2>2, <2>3, <3>2 DEF SessionOK, SessionTyped, Sessions, Assertions, Asserted, SayMatch, Says
      <3>3. CASE ExitMatch
        BY <2>3, <3>3 DEF SessionTyped, Sessions, Assertions, Asserted, ExitMatch
      <3>4. CASE judge
        BY <2>1, <2>2, <2>3, <3>4 DEF SessionOK, SessionTyped, Sessions, Assertions, Asserted, judge, Verdict, Hopeless, Says
      <3>5. CASE pollActual \/ TimesOut
        BY <2>1, <2>2, <2>3, <3>5 DEF SessionOK, SessionTyped, Sessions, Assertions, Asserted, pollActual, TimesOut
      <3> QED BY <3>1, <3>2, <3>3, <3>4, <3>5 DEF Poll
    <2> QED BY <2>2, <2>4, <2>5 DEF SessionOK
  <1> QED BY <1>1, <1>2

-----------------------------------------------------------------------------
LEMMA NextSession == IInv /\ [Next]_vars => SessionOK'
  <1> SUFFICES ASSUME IInv, [Next]_vars PROVE SessionOK'
    OBVIOUS
  <1>0. AppOK /\ SessionOK
    BY DEF IInv
  <1>1. CASE SuiteStep
    BY <1>0, <1>1, SuiteSession
  <1>2. CASE SessionStep \/ Poll
    BY <1>0, <1>2, WriteSession, ExitSession, PollSession DEF SessionStep
  <1>3. CASE AppStep /\ UNCHANGED <<session, assertion>>
    BY <1>0, <1>3, AppSession
  <1>4. CASE UNCHANGED vars
    <2>1. app' = app /\ session' = session /\ assertion' = assertion
      BY <1>4 DEF vars
    <2>2. Unread' = Unread
      BY <2>1 DEF Unread
    <2> QED BY <1>0, <2>1, <2>2 DEF SessionOK, SessionTyped, Written, Recorded, Asserted, Says
  <1> QED BY <1>1, <1>2, <1>3, <1>4 DEF Next, InApp, InSuite, AppStep

\* The suite, the process and the session keep the invariant together.
THEOREM SpecIInv == Spec => []IInv
  <1>1. Init => IInv
    BY InitEtcd, InitApp, InitSession DEF IInv
  <1>2. IInv /\ [Next]_vars => IInv'
    BY NextEtcd, NextApp, NextSession DEF IInv
  <1> QED BY <1>1, <1>2, PTL DEF Spec

\* main, ifrit.Process, sigmon and gexec's monitorForExit, for any group of
\* members, any panics and any interleaving: an exit code 0 is seen only after
\* every member drained and returned nil, 1 only after one returned an error,
\* and 143 only when the signal came before the monitor was notified.
THEOREM ExitCodeTrue == Spec => []ExitTellsTruth
  <1>1. IInv => ExitTellsTruth
    <2> SUFFICES ASSUME IInv PROVE ExitTellsTruth
      OBVIOUS
    <2>1. TypeOK
      <3>1. app \in App /\ (app.code = -1 <=> app.main # "exited")
        BY DEF IInv, AppOK, AppTyped
      <3>2. specs \in 0 .. MaxSpecs + 1 /\ etcd \in Etcd /\ spec \in Steps
        BY DEF IInv, EtcdOK, SuiteTyped
      <3>3. session.exitCode \in {-1, app.code}
        BY DEF IInv, SessionOK, Recorded
      <3>4. /\ session.monitor \in {"off", "wait", "locked", "done"}
            /\ session.readCursor \in 0 .. Len(session.contents) /\ session.closed \in BOOLEAN
        BY DEF IInv, SessionOK, SessionTyped, Sessions
      <3>5. assertion.pc \in {"none", "oracle", "match", "judge", "sleep"} \cup Verdicts
        BY DEF IInv, SessionOK, SessionTyped, Assertions, AssertionSteps
      <3> QED BY <3>1, <3>2, <3>3, <3>4, <3>5 DEF TypeOK, SessionTypeOK, Steps
    <2>2. session.exitCode \in {0, 1, 143} => session.exitCode = app.code
      BY DEF IInv, SessionOK, Recorded
    <2> QED BY <2>1, <2>2 DEF IInv, AppOK, SumsUp, CodeOK, ExitTellsTruth
  <1> QED BY <1>1, SpecIInv, PTL

\* AsyncAssertion.match and MatchMayChangeInTheFuture of Say, however the
\* writes, the close and the polls race: an assertion is given up only when
\* the awaited line is not in the buffer and nothing is left to be copied.
THEOREM GivesUpInVain == Spec => []BailsOutOnlyInVain
  <1>1. IInv => BailsOutOnlyInVain
    BY DEF IInv, SessionOK, Asserted, Recorded, BailsOutOnlyInVain
  <1> QED BY <1>1, SpecIInv, PTL
=============================================================================
