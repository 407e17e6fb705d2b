------------------------------ MODULE Handler ------------------------------
(***************************************************************************)
(* handler.Handler: Run receives changes of desired LRPs and handles each  *)
(* in a goroutine of its own, counted by a wait group; a signal stops the  *)
(* watch, waits for the goroutines and returns.  A goroutine fetches the   *)
(* actual LRPs of the process, reconciles, and requests auctions and stops *)
(* one at a time.  Between two requests anything else may happen.          *)
(*                                                                         *)
(* Go starts a goroutine for every change; the model has the slots Workers *)
(* and receives nothing while all are taken, as a slow Run loop would.     *)
(***************************************************************************)
EXTENDS BBS, ChangeFeed, DeltaForce

CONSTANTS
    Workers,       \* slots for goroutines of processDesiredChange
    NoGuid,        \* no instance guid drawn yet
    Deletes,       \* how clients delete a desired LRP: a subset of
                   \* {"remove", "change"}
    MaxWrites,     \* writes of desired LRPs
    MaxTimeouts,   \* requests that end in ErrorTimeout
    MaxRestarts    \* times the process is started again

ASSUME HandlerAssumption ==
    /\ Processes # {}
    /\ NoGuid \notin Guids
    /\ IsFiniteSet(Workers)
    /\ MaxWrites \in Nat /\ MaxTimeouts \in Nat /\ MaxRestarts \in Nat

VARIABLES
    phase,      \* of Run: "running", "draining" (wg.Wait), "exited",
                \* "killed", or "panicked"
    wg,         \* the wait group's counter
    pc,         \* of each goroutine: "idle", "fetch", "act", "auction"
    change,     \* its DesiredLRPChange
    snapshot,   \* instanceGuidToActual, and the slice actualInstances
    toStart,    \* what is left of delta.IndicesToStart
    toStop,     \* what is left of delta.GuidsToStop
    toStopAllButOne,  \* what is left of delta.IndicesToStopAllButOne
    guid,       \* instanceGuid of the start auction being requested
    late,       \* history: an attempt of that request was applied, the
                \* answer lost
    used,       \* the guids uuid.NewV4 has returned
    timeouts,   \* requests that timed out so far
    restarts,   \* restarts so far
    clean       \* history, for each process: see Clean below

jobVars == <<pc, change, snapshot, toStart, toStop, toStopAllButOne, guid, late>>
boundVars == <<timeouts, restarts>>
vars == <<bbsVars, feedVars, phase, wg, jobVars, used, boundVars, clean>>

\* A DesiredLRPChange: "set" has an After, "delete" only a Before, "nil"
\* neither.  instances are those of After, or of Before in a "delete"; index is
\* the ModifiedIndex of the event.
Change == [kind : {"none", "set", "delete", "nil"}, process : Processes,
           instances : Counts, index : Nat]

NoChange == [kind |-> "none", process |-> CHOOSE p \in Processes : TRUE,
             instances |-> 0, index |-> 0]

\* Mutant of desiredInstances: a deletion is handled like its Before.
desiredInstancesOfBefore(c) == c.instances

\* desiredInstances of processDesiredChange: none when After is nil.
desiredInstances(c) == IF c.kind = "set" THEN c.instances ELSE 0

\* The state is well typed; wg.Done panics when the counter goes below zero.
\* (handler.go:55-57.)
TypeOK ==
    /\ BBSTypeOK
    /\ feed \in Seq(Change) /\ up \in BOOLEAN
    /\ phase \in {"running", "draining", "exited", "killed", "panicked"}
    /\ wg \in Nat
    /\ pc \in [Workers -> {"idle", "fetch", "act", "auction"}]
    /\ change \in [Workers -> Change]
    /\ snapshot \in [Workers -> SUBSET ActualLRP]
    /\ toStart \in [Workers -> SUBSET Indices]
    /\ toStop \in [Workers -> SUBSET Guids]
    /\ toStopAllButOne \in [Workers -> SUBSET Indices]
    /\ guid \in [Workers -> Guids \cup {NoGuid}]
    /\ late \in [Workers -> BOOLEAN]
    /\ used \subseteq Guids
    /\ timeouts \in Nat /\ restarts \in Nat
    /\ clean \in [Processes -> BOOLEAN]

JobsInit ==
    /\ pc = [w \in Workers |-> "idle"]
    /\ change = [w \in Workers |-> NoChange]
    /\ snapshot = [w \in Workers |-> {}]
    /\ toStart = [w \in Workers |-> {}]
    /\ toStop = [w \in Workers |-> {}]
    /\ toStopAllButOne = [w \in Workers |-> {}]
    /\ guid = [w \in Workers |-> NoGuid]
    /\ late = [w \in Workers |-> FALSE]

Init ==
    /\ BBSInit /\ FeedInit /\ JobsInit
    /\ phase = "running"
    /\ wg = 0
    /\ used = {a.instance : a \in actual}
    /\ timeouts = 0
    /\ restarts = 0
    /\ clean = [p \in Processes |-> TRUE]

Busy(w) == pc[w] # "idle"
On(w, p) == Busy(w) /\ change[w].process = p
InFeed(p) == \E k \in DOMAIN feed : feed[k].process = p

(***************************************************************************)
(* The history variable clean.  clean[p] says that the last fetch for p    *)
(* worked on the newest change, alone, with no stop under way, and that    *)
(* nothing it relies on went wrong since.  Spoil marks processes for which *)
(* something did.                                                          *)
(***************************************************************************)
Spoil(S) == clean' = [p \in Processes |-> clean[p] /\ p \notin S]

StopsUnderWay(p) ==
    \/ \E a \in stopInstances : a.process = p
    \/ \E s \in stopAuctions : s.process = p

CleanFetch(w) ==
    LET p == change[w].process
    IN  /\ change[w].index = desired[p].index
        /\ \A v \in Workers \ {w} : ~ On(v, p)
        /\ ~ StopsUnderWay(p)

-----------------------------------------------------------------------------
(* Handler.Run.                                                            *)

\* Mutant of Receive: the goroutine starts without wg.Add(1).
ReceiveWithoutAdd(w) ==
    /\ phase = "running"
    /\ ~ Busy(w)
    /\ Take
    /\ pc' = [pc EXCEPT ![w] = "fetch"]
    /\ change' = [change EXCEPT ![w] = Head(feed)]
    /\ UNCHANGED <<bbsVars, phase, wg, snapshot, toStart, toStop, toStopAllButOne,
                   guid, late, used, boundVars, clean>>

\* wg.Add(1), and a goroutine that handles the change.
Receive(w) ==
    /\ phase = "running"
    /\ ~ Busy(w)
    /\ Take
    /\ wg' = wg + 1
    /\ pc' = [pc EXCEPT ![w] = "fetch"]
    /\ change' = [change EXCEPT ![w] = Head(feed)]
    /\ UNCHANGED <<bbsVars, phase, snapshot, toStart, toStop, toStopAllButOne,
                   guid, late, used, boundVars, clean>>

\* The first watch, and a new one when the channel is closed or had an error.
Watch ==
    /\ phase = "running"
    /\ Connect
    /\ UNCHANGED <<bbsVars, phase, wg, jobVars, used, boundVars, clean>>

WatchLoses ==
    /\ phase = "running"
    /\ \E kept \in 0 .. Len(feed) :
         /\ Lose(kept)
         /\ Spoil({feed[k].process : k \in kept + 1 .. Len(feed)})
    /\ UNCHANGED <<bbsVars, phase, wg, jobVars, used, boundVars>>

\* close(stopChan), then wg.Wait().  What the watch still holds is dropped.
ShutDown ==
    /\ phase = "running"
    /\ phase' = "draining"
    /\ Abandon
    /\ Spoil({p \in Processes : InFeed(p)})
    /\ UNCHANGED <<bbsVars, wg, jobVars, used, boundVars>>

\* Mutant of Return: no wg.Wait().
ReturnAtOnce ==
    /\ phase = "draining"
    /\ phase' = "exited"
    /\ UNCHANGED <<bbsVars, feedVars, wg, jobVars, used, boundVars, clean>>

Return ==
    /\ phase = "draining"
    /\ wg = 0
    /\ phase' = "exited"
    /\ UNCHANGED <<bbsVars, feedVars, wg, jobVars, used, boundVars, clean>>

-----------------------------------------------------------------------------
(* processDesiredChange.                                                   *)

\* The goroutine returns: the deferred wg.Done().
End(w) ==
    /\ wg' = wg - 1
    /\ pc' = [pc EXCEPT ![w] = "idle"]
    /\ change' = [change EXCEPT ![w] = NoChange]
    /\ snapshot' = [snapshot EXCEPT ![w] = {}]
    /\ toStart' = [toStart EXCEPT ![w] = {}]
    /\ toStop' = [toStop EXCEPT ![w] = {}]
    /\ toStopAllButOne' = [toStopAllButOne EXCEPT ![w] = {}]
    /\ guid' = [guid EXCEPT ![w] = NoGuid]
    /\ late' = [late EXCEPT ![w] = FALSE]

\* The process is gone, its goroutines with it.
Gone(how) ==
    /\ phase' = how
    /\ wg' = 0
    /\ pc' = [w \in Workers |-> "idle"]
    /\ change' = [w \in Workers |-> NoChange]
    /\ snapshot' = [w \in Workers |-> {}]
    /\ toStart' = [w \in Workers |-> {}]
    /\ toStop' = [w \in Workers |-> {}]
    /\ toStopAllButOne' = [w \in Workers |-> {}]
    /\ guid' = [w \in Workers |-> NoGuid]
    /\ late' = [w \in Workers |-> FALSE]
    /\ Abandon
    /\ Spoil({p \in Processes : InFeed(p) \/ \E w \in Workers : On(w, p)})

\* desiredLRP = *desiredChange.Before dereferences nil: no goroutine recovers.
DereferenceNil(w) ==
    /\ pc[w] = "fetch"
    /\ change[w].kind = "nil"
    /\ Gone("panicked")
    /\ UNCHANGED <<bbsVars, used, boundVars>>

\* The slice for Reconcile and the map from guids to LRPs hold the same LRPs.
actualsForProcessGuid(p) == GetActualLRPsByProcessGuid(p)

\* One listing of the store, and delta_force.Reconcile on what it returned.
FetchActuals(w) ==
    /\ pc[w] = "fetch"
    /\ change[w].kind # "nil"
    /\ LET p == change[w].process
           actuals == actualsForProcessGuid(p)
           delta == Reconcile(desiredInstances(change[w]), actuals)
       IN  /\ snapshot' = [snapshot EXCEPT ![w] = actuals]
           /\ toStart' = [toStart EXCEPT ![w] = delta.IndicesToStart]
           /\ toStop' = [toStop EXCEPT ![w] = delta.GuidsToStop]
           /\ toStopAllButOne' =
                [toStopAllButOne EXCEPT ![w] = delta.IndicesToStopAllButOne]
           /\ clean' = [clean EXCEPT ![p] = CleanFetch(w)]
    /\ pc' = [pc EXCEPT ![w] = "act"]
    /\ UNCHANGED <<bbsVars, feedVars, phase, wg, change, guid, late, used, boundVars>>

\* Mutant of FetchFails: the early return skips wg.Done().
FetchFailsNotDone(w) ==
    /\ pc[w] = "fetch"
    /\ change[w].kind # "nil"
    /\ pc' = [pc EXCEPT ![w] = "idle"]
    /\ change' = [change EXCEPT ![w] = NoChange]
    /\ Spoil({change[w].process})
    /\ UNCHANGED <<bbsVars, feedVars, phase, wg, snapshot, toStart, toStop,
                   toStopAllButOne, guid, late, used, boundVars>>

\* fetch-actuals-failed: a timeout here is not retried.
FetchFails(w) ==
    /\ pc[w] = "fetch"
    /\ change[w].kind # "nil"
    /\ End(w)
    /\ Spoil({change[w].process})
    /\ UNCHANGED <<bbsVars, feedVars, phase, used, boundVars>>

\* Mutant of PrepareStart: a guid may be drawn again.
PrepareStartAnyGuid(w, g) ==
    /\ pc[w] = "act"
    /\ toStart[w] # {}
    /\ used' = used \cup {g}
    /\ guid' = [guid EXCEPT ![w] = g]
    /\ pc' = [pc EXCEPT ![w] = "auction"]
    /\ UNCHANGED <<bbsVars, feedVars, phase, wg, change, snapshot, toStart, toStop,
                   toStopAllButOne, late, boundVars, clean>>

\* The next index to start: uuid.NewV4 and PreProcess succeed.
PrepareStart(w, g) ==
    /\ pc[w] = "act"
    /\ toStart[w] # {}
    /\ g \notin used
    /\ used' = used \cup {g}
    /\ guid' = [guid EXCEPT ![w] = g]
    /\ pc' = [pc EXCEPT ![w] = "auction"]
    /\ UNCHANGED <<bbsVars, feedVars, phase, wg, change, snapshot, toStart, toStop,
                   toStopAllButOne, late, boundVars, clean>>

\* generating-instance-guid-failed or failed-to-preprocess-lrp: the indices
\* that are left are not started.
StartAborted(w) ==
    /\ pc[w] = "act"
    /\ toStart[w] # {}
    /\ End(w)
    /\ Spoil({change[w].process})
    /\ UNCHANGED <<bbsVars, feedVars, phase, used, boundVars>>

\* range over a slice of indices in increasing order.
First(S) == CHOOSE i \in S : \A j \in S : i <= j

\* One attempt of a request ended with outcome o: count a timeout.
CountTimeout(o) ==
    /\ IsTimeout(o) => timeouts < MaxTimeouts
    /\ timeouts' = IF IsTimeout(o) THEN timeouts + 1 ELSE timeouts

\* Mutant of RequestStart: a request that succeeded is sent again.
RequestStartRepeated(w, o) ==
    /\ pc[w] = "auction"
    /\ RequestLRPStartAuction([process |-> change[w].process, index |-> First(toStart[w]),
                               instance |-> guid[w], of |-> change[w].index], o)
    /\ CountTimeout(o)
    /\ late' = [late EXCEPT ![w] = @ \/ o = "late"]
    /\ UNCHANGED <<feedVars, phase, wg, pc, change, snapshot, toStart, toStop, guid,
                   toStopAllButOne, used, restarts, clean>>

RequestStart(w, o) ==
    LET i == First(toStart[w])
        startMessage == [process |-> change[w].process, index |-> i,
                         instance |-> guid[w], of |-> change[w].index]
    IN  /\ pc[w] = "auction"
        /\ RequestLRPStartAuction(startMessage, o)
        /\ CountTimeout(o)
        /\ IF IsTimeout(o)
           THEN /\ late' = [late EXCEPT ![w] = @ \/ o = "late"]
                /\ UNCHANGED <<pc, toStart, guid>>
           ELSE /\ late' = [late EXCEPT ![w] = FALSE]
                /\ pc' = [pc EXCEPT ![w] = "act"]
                /\ toStart' = [toStart EXCEPT ![w] = @ \ {i}]
                /\ guid' = [guid EXCEPT ![w] = NoGuid]
        /\ Spoil(IF o = "error" THEN {change[w].process} ELSE {})
        /\ UNCHANGED <<feedVars, phase, wg, change, snapshot, toStop,
                       toStopAllButOne, used, restarts>>

\* request-stop-instance, with the actual LRP that the fetch saw.
RequestStop(w, g, o) ==
    /\ pc[w] = "act"
    /\ toStart[w] = {}
    /\ g \in toStop[w]
    /\ LET actualToStop == CHOOSE a \in snapshot[w] : a.instance = g
       IN  RequestStopLRPInstance(actualToStop, o)
    /\ CountTimeout(o)
    /\ toStop' = IF IsTimeout(o) THEN toStop ELSE [toStop EXCEPT ![w] = @ \ {g}]
    /\ UNCHANGED <<feedVars, phase, wg, pc, change, snapshot, toStart,
                   toStopAllButOne, guid, late, used, restarts, clean>>

RequestStopAuction(w, o) ==
    LET i == First(toStopAllButOne[w])
    IN  /\ pc[w] = "act"
        /\ toStart[w] = {} /\ toStop[w] = {} /\ toStopAllButOne[w] # {}
        /\ RequestLRPStopAuction([process |-> change[w].process, index |-> i], o)
        /\ CountTimeout(o)
        /\ toStopAllButOne' = IF IsTimeout(o) THEN toStopAllButOne
                              ELSE [toStopAllButOne EXCEPT ![w] = @ \ {i}]
        /\ UNCHANGED <<feedVars, phase, wg, pc, change, snapshot, toStart, toStop,
                       guid, late, used, restarts, clean>>

Finish(w) ==
    /\ pc[w] = "act"
    /\ toStart[w] = {} /\ toStop[w] = {} /\ toStopAllButOne[w] = {}
    /\ End(w)
    /\ UNCHANGED <<bbsVars, feedVars, phase, used, boundVars, clean>>

-----------------------------------------------------------------------------
(* The other processes: clients, auctioneers, cells, the machine.          *)

handlerVars == <<phase, wg, jobVars, used, boundVars>>

\* A desired LRP is written and etcd tells the watcher, if there is one.
Announce(kind, p, n) ==
    /\ modifiedIndex < MaxWrites
    /\ Publish([kind |-> kind, process |-> p, instances |-> n,
                index |-> modifiedIndex + 1])
    /\ Spoil(IF up THEN {} ELSE {p})
    /\ UNCHANGED handlerVars

ClientDesires(p, n) == DesireLRP(p, n) /\ Announce("set", p, n)

ClientRemoves(p) ==
    /\ "remove" \in Deletes
    /\ RemoveDesiredLRPByProcessGuid(p)
    /\ Announce("delete", p, desired[p].instances)

\* makeWatchEvent knows no "compareAndDelete": the event has no nodes.
ClientDeletes(p) ==
    /\ "change" \in Deletes
    /\ ChangeDesiredLRP(p)
    /\ Announce("nil", p, 0)

InstanceOf(a) == [process |-> a.process, index |-> a.index, instance |-> a.instance]

CellReports(a) ==
    /\ ReportActualLRPAsStarting(a)
    /\ UNCHANGED <<feedVars, handlerVars, clean>>

\* An auction that nobody won leaves its index without an instance.
AuctionEnds(a) ==
    /\ ResolveLRPStartAuction(a)
    /\ Spoil(IF InstanceOf(a) \in actual THEN {} ELSE {a.process})
    /\ UNCHANGED <<feedVars, handlerVars>>

\* An instance nobody asked to stop is gone: a crash.
InstanceEnds(a) ==
    /\ RemoveActualLRP(a)
    /\ Spoil(IF a \in stopInstances THEN {} ELSE {a.process})
    /\ UNCHANGED <<feedVars, handlerVars>>

StopRequestEnds(a) ==
    /\ ResolveStopLRPInstance(a)
    /\ UNCHANGED <<feedVars, handlerVars, clean>>

StopAuctionEnds(s) ==
    /\ LET there == {a \in actual : a.process = s.process /\ a.index = s.index}
       IN  \E keep \in IF there = {} THEN {s} ELSE there :
             ResolveLRPStopAuction(s, keep)
    /\ UNCHANGED <<feedVars, handlerVars, clean>>

Kill ==
    /\ phase \in {"running", "draining"}
    /\ restarts < MaxRestarts
    /\ Gone("killed")
    /\ UNCHANGED <<bbsVars, used, boundVars>>

\* The supervisor starts the program again: nothing of it is persistent.
Restart ==
    /\ phase \in {"exited", "killed", "panicked"}
    /\ restarts < MaxRestarts
    /\ phase' = "running"
    /\ restarts' = restarts + 1
    /\ UNCHANGED <<bbsVars, feedVars, wg, jobVars, used, timeouts, clean>>

-----------------------------------------------------------------------------
Run == Watch \/ ShutDown \/ Return \/ \E w \in Workers : Receive(w)

processDesiredChange(w) ==
    \/ DereferenceNil(w)
    \/ FetchActuals(w) \/ FetchFails(w)
    \/ \E g \in Guids : PrepareStart(w, g)
    \/ StartAborted(w)
    \/ \E o \in Outcomes : RequestStart(w, o)
    \/ \E o \in Outcomes, g \in Guids : RequestStop(w, g, o)
    \/ \E o \in Outcomes : RequestStopAuction(w, o)
    \/ Finish(w)

Environment ==
    \/ \E p \in Processes, n \in Counts : ClientDesires(p, n)
    \/ \E p \in Processes : ClientRemoves(p) \/ ClientDeletes(p)
    \/ \E a \in startAuctions : CellReports(a) \/ AuctionEnds(a)
    \/ \E a \in actual : InstanceEnds(a)
    \/ \E a \in stopInstances : StopRequestEnds(a)
    \/ \E s \in stopAuctions : StopAuctionEnds(s)
    \/ WatchLoses \/ Kill \/ Restart

Next == Run \/ (\E w \in Workers : processDesiredChange(w)) \/ Environment

(***************************************************************************)
(* The Go scheduler runs every goroutine that can run, and select takes a  *)
(* ready case.  Nothing is assumed of the environment, except that the     *)
(* store is unreachable at most MaxTimeouts times.                         *)
(***************************************************************************)
Fairness ==
    /\ WF_vars(Return)
    /\ WF_vars(\E w \in Workers : Receive(w))
    /\ \A w \in Workers : WF_vars(processDesiredChange(w))

Spec == Init /\ [][Next]_vars /\ Fairness

-----------------------------------------------------------------------------
(***************************************************************************)
(* Properties.                                                             *)
(***************************************************************************)

\* Run returns only when no goroutine of processDesiredChange is left: every
\* path out of it calls wg.Done exactly once (handler.go:54-57, 73).
DrainedOnExit == phase = "exited" => \A w \in Workers : ~ Busy(w)

\* A goroutine that stops instances or requests stop auctions has seen an
\* instance at every index its change desires (delta_force.go:50): a change
\* that both lacks and has surplus instances stops nothing.
StopsOnlyWhenCovered ==
    \A w \in Workers :
        toStop[w] \cup toStopAllButOne[w] # {} =>
            \A i \in 0 .. desiredInstances(change[w]) - 1 :
                hasIndex(snapshot[w], i)

\* What carries an instance guid: auctions, instances, requests to stop one,
\* and goroutines about to request an auction.
Carriers ==
    startAuctions \cup actual \cup stopInstances
    \cup {[process |-> change[w].process, index |-> First(toStart[w]),
           instance |-> guid[w]] : w \in {v \in Workers : pc[v] = "auction"}}

\* A guid stands for one index of one process, whatever goroutines, retries
\* and restarts do: stop requests are keyed by the guid alone
\* (schema.go:37), and instanceGuidToActual is too (handler.go:184).
GuidNamesOneIndex ==
    \A a, b \in Carriers :
        a.instance = b.instance => a.process = b.process /\ a.index = b.index

Wanted(p) == 0 .. desired[p].instances - 1

Covered(p, i) ==
    \E a \in actual \cup startAuctions : a.process = p /\ a.index = i

Quiet(p) == ~ InFeed(p) /\ \A w \in Workers : ~ On(w, p)

\* What app-manager guarantees without a converger: when the newest change of
\* a process was handled alone, saw no stop under way, and no error, crash or
\* failed auction came after, every desired index has an instance or an
\* auction once the goroutine is done, even if other changes were lost,
\* overtaken or aborted before (handler.go:102-138).
CleanMeansCovered ==
    \A p \in Processes :
        clean[p] /\ Quiet(p) => \A i \in Wanted(p) : Covered(p, i)

Overtaken(w) == change[w].index # desired[change[w].process].index

\* Requests contradict the desired LRP in the store only when a goroutine
\* acts on a change that a newer write has overtaken: otherwise only desired
\* indices are started or thinned out, and only surplus instances stopped.
OnlyOvertakenContradict ==
    [][\A p \in Processes :
         (\A w \in Workers : On(w, p) => ~ Overtaken(w)) =>
            /\ \A a \in startAuctions' \ startAuctions :
                    a.process = p => a.index \in Wanted(p)
            /\ \A s \in stopAuctions' \ stopAuctions :
                    s.process = p => s.index \in Wanted(p)
            /\ \A a \in stopInstances' \ stopInstances :
                    a.process = p => a.index \notin Wanted(p)]_vars

\* The guid of an instance that already runs is auctioned again only when the
\* answer to the first request was lost and RetryIndefinitelyOnStoreTimeout
\* repeats a Create whose auction has been held meanwhile
\* (bbs_helpers.go:14, start_auction.go:16).
ReauctionOnlyAfterLostAnswer ==
    [][\A a \in startAuctions' \ startAuctions :
         InstanceOf(a) \in actual =>
            \E w \in Workers : guid[w] = a.instance /\ late[w]]_vars

\* A shutdown completes once the store answers: every goroutine ends, or the
\* process does.  A change that reached the feed is handled, or lost with the
\* watch or the process.  So the handler is at rest again and again.
Drains == []<>(phase # "draining" /\ (phase = "running" => feed = <<>>))

\* The process never dies of a change it receives.
NeverPanics == phase # "panicked"
=============================================================================
