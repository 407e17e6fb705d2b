----------------------------- MODULE GinkgoServer -----------------------------
(***************************************************************************)
(* What the ginkgo command keeps while the processes of a suite run: the   *)
(* aggregator, which gathers the reports of all nodes and announces them   *)
(* once every node has begun, and the synchronization data of the server.  *)
(* A report is a rendezvous with the aggregator's mux goroutine: nobody    *)
(* takes it any more once that loop has ended.                             *)
(***************************************************************************)
EXTENDS GinkgoSpecs

VARIABLES
    job,       \* the suite being run: its tree, the flags, how many nodes, the specs of each
    remote     \* the aggregator and the server of this run

-----------------------------------------------------------------------------
(* The aggregator.                                                         *)

NewAggregator ==
    [mux |-> "loop",    \* or "result" (blocked sending it), or "done"
     begun |-> <<>>, befores |-> <<>>, completed |-> <<>>, afters |-> <<>>, ended |-> <<>>,
     willRun |-> -1,    \* AnnounceNumberOfSpecs, -1 before it
     setups |-> <<>>, announced |-> <<>>]    \* what announceBeforeSuite, announceAfterSuite and announceSpec were given

RemoteBeforeSuiteData(state, data) == [state |-> state, data |-> data]

NewServer == [beforeSuiteData |-> RemoteBeforeSuiteData("pending", "none")]

NewRemote == [f \in DOMAIN NewAggregator \cup DOMAIN NewServer |->
                 IF f \in DOMAIN NewServer THEN NewServer[f] ELSE NewAggregator[f]]

Total(summaries, field) ==
    LET total[i \in 0 .. Len(summaries)] == IF i = 0 THEN 0 ELSE total[i - 1] + summaries[i][field]
    IN total[Len(summaries)]

\* Mutant of flushCompletedSpecs: what has been announced is kept.
AnnouncedAgain(r) ==
    IF Len(r.begun) # job.total THEN r
    ELSE [r EXCEPT !.setups = @ \o r.befores \o r.afters, !.announced = @ \o r.completed]

flushCompletedSpecs(r) ==
    IF Len(r.begun) # job.total THEN r
    ELSE [r EXCEPT !.setups = @ \o r.befores \o r.afters, !.announced = @ \o r.completed,
                   !.befores = <<>>, !.completed = <<>>, !.afters = <<>>]

registerSuiteBeginning(r, summary) ==
    LET begun == Append(r.begun, summary)
        r2 == [r EXCEPT !.begun = begun]
    IN IF Len(begun) # job.total THEN r2
       ELSE flushCompletedSpecs([r2 EXCEPT !.willRun = Total(begun, "willRun")])

registerBeforeSuite(r, state) == flushCompletedSpecs([r EXCEPT !.befores = Append(@, state)])

registerAfterSuite(r, state) == flushCompletedSpecs([r EXCEPT !.afters = Append(@, state)])

registerSpecCompletion(r, spec) == flushCompletedSpecs([r EXCEPT !.completed = Append(@, spec)])

\* The last of the endings finishes the loop: the aggregator sends the result.
registerSuiteEnding(r, summary) ==
    LET ended == Append(r.ended, summary)
    IN [r EXCEPT !.ended = ended, !.mux = IF Len(ended) < job.total THEN "loop" ELSE "result"]

\* The summary that AnnounceSpecRunCompletion is given.
AggregatedSummary(r) ==
    [succeeded |-> \A i \in DOMAIN r.ended : r.ended[i].succeeded,
     passed |-> Total(r.ended, "passed"), failed |-> Total(r.ended, "failed"),
     pending |-> Total(r.ended, "pending"), skipped |-> Total(r.ended, "skipped")]

\* The loop of the aggregator takes a report: it goes on with r.
mux(r) == remote.mux = "loop" /\ remote' = r

\* The streaming endpoints of the server hand a report to the aggregator, and
\* answer when it has been taken.
StreamingEndpoint(r) == mux(r)

-----------------------------------------------------------------------------
(* A single process, or one that streams, has a DefaultReporter instead,   *)
(* which announces at once.                                                *)

reporterBeforeSuiteDidRun(r, state) == [r EXCEPT !.setups = Append(@, state)]
reporterAfterSuiteDidRun(r, state) == [r EXCEPT !.setups = Append(@, state)]
reporterSpecDidComplete(r, spec) == [r EXCEPT !.announced = Append(@, spec)]

-----------------------------------------------------------------------------
(* The synchronization endpoints.  alive is what the function that was     *)
(* registered for a node answers.                                          *)

\* Mutant of handleBeforeSuiteState: nobody asks whether node 1 is there.
StateWithoutDisappearance(read, alive) == read

\* The answer to a GET.  read is the data when the server looked at it; only
\* then, and without a lock, it asks for node 1.
handleBeforeSuiteState(read, alive) ==
    IF read.state = "pending" /\ ~alive[1] THEN [read EXCEPT !.state = "disappeared"] ELSE read

\* Mutant of handleRemoteAfterSuiteData: the last node is left out.
CanRunBeforeTheLast(alive) == \A n \in 2 .. job.total - 1 : ~alive[n]

handleRemoteAfterSuiteData(alive) == \A n \in 2 .. job.total : ~alive[n]
=============================================================================
