------------------------------- MODULE MCGinkgo -------------------------------
(* Small invocations of the ginkgo command for TLC.                        *)
EXTENDS Ginkgo

Conf == [Unset EXCEPT !.seed = 1]

\* A spec for each of two nodes, with shared setup and teardown.
Shared == Suite(<<SynchronizedBeforeSuite, SynchronizedAfterSuite,
                  Describe("none"), It("none", "sync"), It("none", "sync"), End>>)

\* Shared setup only: node 1 need not wait for the others.
SharedBefore == Suite(<<SynchronizedBeforeSuite, It("none", "sync"), It("none", "sync")>>)

\* A nested container with setup, teardown, an asynchronous spec and a measurement.
Nested == Suite(<<BeforeSuite, Each("AfterEach", "sync"),
                                        Describe("none"), Each("BeforeEach", "sync"), Each("JustBeforeEach", "sync"),
                                        Each("AfterEach", "sync"), It("none", "async"), Measure("none", 2), End,
                                        AfterSuite>>)

\* A focused container next to specs that are left out, for nodes with
\* different shares.
Focused == Suite(<<Describe("focused"), It("none", "sync"), It("pending", "sync"), End,
                   Describe("none"), It("none", "sync"), End>>)

\* Two AfterSuites: the process panics.
Twice == Suite(<<AfterSuite, SynchronizedAfterSuite, It("none", "sync")>>)

Bad == Suite(<<It("none", "other")>>)

Run1 == [command |-> "run", suites |-> <<Shared>>, conf |-> Conf, numCPU |-> 1, stream |-> FALSE, keepGoing |-> FALSE,
         untilItFails |-> FALSE, randomizeSuites |-> FALSE, args |-> {}, mayGoWrong |-> 1]

MCInvocations ==
    {[Run1 EXCEPT !.suites = <<SharedBefore>>, !.numCPU = 2, !.mayGoWrong = 0],
     [Run1 EXCEPT !.numCPU = computeNodes(0, TRUE, 2)],
     [Run1 EXCEPT !.suites = <<Focused>>, !.numCPU = 2, !.conf = Unset, !.mayGoWrong = 0],
     [Run1 EXCEPT !.suites = <<Nested>>, !.mayGoWrong = 2],
     [Run1 EXCEPT !.suites = <<Focused, Twice>>, !.numCPU = 2, !.stream = TRUE, !.keepGoing = TRUE,
                  !.conf.randomizeAllSpecs = TRUE, !.mayGoWrong = 0],
     [Run1 EXCEPT !.suites = <<Nested, Bad>>, !.randomizeSuites = TRUE, !.untilItFails = TRUE,
                  !.conf = [Conf EXCEPT !.focus = {{1, 2}}, !.skip = {{2}}, !.skipMeasurements = TRUE,
                                        !.failOnPending = TRUE, !.failFast = TRUE]],
     [Run1 EXCEPT !.suites = <<>>, !.command = "watch", !.args = {"app", "lib"}, !.mayGoWrong = 0],
     [Run1 EXCEPT !.suites = <<>>, !.command = "watch", !.args = {"app"}]}

MCPackages == {"app", "lib"}
MCImports == [p \in MCPackages |-> IF p = "app" THEN {"lib"} ELSE {}]
=============================================================================
