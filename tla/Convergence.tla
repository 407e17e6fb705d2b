---------------------------- MODULE Convergence ----------------------------
(***************************************************************************)
(* The whole system around one process: clients desire it, app-manager     *)
(* turns changes into auctions and stop requests, auctioneers and cells    *)
(* act on them, and ConvergeLRPs repairs what all of them lose.  The       *)
(* handler is abstracted to a fetch and a step that sends its requests;    *)
(* Handler has them one by one.                                            *)
(*                                                                         *)
(* Guids are fresh: one that nobody remembers may be drawn again.          *)
(***************************************************************************)
EXTENDS Integers, FiniteSets, DeltaForce

CONSTANTS
    Executors, Guids, MaxInstances,
    Workers,     \* the goroutines that handle changes
    MaxChanges,  \* bounds: writes by clients,
    MaxFaults    \*         everything that is lost, fails, expires or dies

ASSUME ConvergenceAssumption ==
    /\ MaxInstances \in Nat /\ MaxChanges \in Nat /\ MaxFaults \in Nat
    /\ Guids \subseteq Nat

VARIABLES
    desired,      \* the node: Absent, Invalid (JSON) or a number of instances
    actual,       \* nodes of actual LRPs
    present,      \* nodes of executors
    changes,      \* changes the watch has for app-manager
    work,         \* what each goroutine of the handler knows
    starts,       \* start auctions: one per index
    stops,        \* stop requests: guids
    stopAuctions, \* indices
    conv,         \* ConvergeLRPs
    budget, faults

board == <<actual, present, starts, stops, stopAuctions>>
convergeVars == <<desired, changes, work, board, conv, budget, faults>>

Absent  == -1
Invalid == -2
Counts  == 0 .. MaxInstances
Indices == 0 .. MaxInstances - 1
Idle == [on |-> FALSE, n |-> 0, seen |-> {}]
NoPass == [pc |-> "idle", alive |-> {}, actuals |-> {}, prune |-> {},
           desired |-> Absent, fresh |-> FALSE]

ConvergeInit ==
    /\ desired = Absent /\ actual = {} /\ present = {} /\ changes = {}
    /\ work = [w \in Workers |-> Idle]
    /\ starts = {} /\ stops = {} /\ stopAuctions = {}
    /\ conv = NoPass /\ budget = 0 /\ faults = 0

Fault == faults < MaxFaults /\ faults' = faults + 1

-----------------------------------------------------------------------------
(* Desired LRPs and the watch on them.                                     *)

\* The filter of WatchForDesiredLRPChanges: a change with a value that does
\* not parse, before or after, is dropped.
Filtered(new) ==
    IF Invalid \in {desired, new} THEN {} ELSE {IF new = Absent THEN 0 ELSE new}

\* A write of the desired LRP, by DesireLRP, ChangeDesiredLRP or
\* RemoveDesiredLRPByProcessGuid; its event may be lost with a watch.
Desire(new) ==
    /\ budget < MaxChanges /\ budget' = budget + 1
    /\ ~(new = Absent /\ desired = Absent)
    /\ desired' = new
    /\ conv' = [conv EXCEPT !.fresh = FALSE]
    /\ \/ changes' = changes \cup Filtered(new) /\ faults' = faults
       \/ Fault /\ UNCHANGED changes
    /\ UNCHANGED <<work, board>>

-----------------------------------------------------------------------------
(* app-manager.                                                            *)

HandlerFetch(w, n) ==
    /\ ~work[w].on /\ n \in changes
    /\ changes' = changes \ {n}
    /\ work' = [work EXCEPT ![w] = [on |-> TRUE, n |-> n, seen |-> actual]]
    /\ UNCHANGED <<desired, board, conv, budget, faults>>

Remembered ==
    {a.instance : a \in actual \cup starts \cup conv.actuals \cup UNION {work[w].seen : w \in Workers}}
        \cup stops
NewGuid(i) == CHOOSE g \in Guids \ Remembered :
                  Cardinality({h \in Guids \ Remembered : h < g}) = i

\* The requests for the result of Reconcile; a start auction whose key is
\* taken is not made.
HandlerAct(w) ==
    LET r == Reconcile(work[w].n, work[w].seen)
        new == {i \in r.IndicesToStart : ~ hasIndex(starts, i)}
    IN /\ work[w].on
       /\ starts' = starts \cup {[index |-> i, instance |-> NewGuid(i)] : i \in new}
       /\ stops' = stops \cup r.GuidsToStop
       /\ stopAuctions' = stopAuctions \cup r.IndicesToStopAllButOne
       /\ work' = [work EXCEPT ![w] = Idle]
       /\ UNCHANGED <<desired, changes, actual, present, conv, budget, faults>>

\* A goroutine ends early, or the process dies with it.
HandlerFails(w) ==
    /\ Fault /\ work[w].on
    /\ work' = [work EXCEPT ![w] = Idle]
    /\ UNCHANGED <<desired, changes, board, conv, budget>>

-----------------------------------------------------------------------------
(* Auctioneers and cells.                                                  *)

\* The cell that wins reports the instance and the auction is resolved.
HoldStart(s, e) ==
    /\ s \in starts /\ e \in present
    /\ actual' = actual \cup {[index |-> s.index, instance |-> s.instance, executor |-> e]}
    /\ starts' = starts \ {s}
    /\ UNCHANGED <<desired, changes, work, present, stops, stopAuctions, conv, budget, faults>>

\* All instances at the index but keep are stopped.
HoldStop(i, keep) ==
    /\ i \in stopAuctions /\ stopAuctions' = stopAuctions \ {i}
    /\ hasIndex(actual, i) => \E a \in actual : a.index = i /\ a.instance = keep
    /\ actual' = {a \in actual : a.index = i => a.instance = keep}
    /\ UNCHANGED <<desired, changes, work, present, starts, stops, conv, budget, faults>>

\* The cell stops the instance, removes its node and resolves the request.
StopInstance(g) ==
    /\ g \in stops /\ stops' = stops \ {g}
    /\ actual' = {a \in actual : a.instance # g}
    /\ UNCHANGED <<desired, changes, work, present, starts, stopAuctions, conv, budget, faults>>

\* An auction fails, a stop request expires (TTL 60) or misses its cell, an
\* instance crashes, an executor's presence lapses.
Misfortune ==
    /\ Fault
    /\ \/ \E s \in starts : starts' = starts \ {s} /\ UNCHANGED <<actual, present, stops, stopAuctions>>
       \/ \E g \in stops : stops' = stops \ {g} /\ UNCHANGED <<actual, present, starts, stopAuctions>>
       \/ \E a \in actual : actual' = actual \ {a} /\ UNCHANGED <<present, starts, stops, stopAuctions>>
       \/ \E e \in present : present' = present \ {e} /\ UNCHANGED <<actual, starts, stops, stopAuctions>>
    /\ UNCHANGED <<desired, changes, work, conv, budget>>

Appear(e) ==
    /\ e \notin present /\ present' = present \cup {e}
    /\ UNCHANGED <<desired, changes, work, actual, starts, stops, stopAuctions, conv, budget, faults>>

-----------------------------------------------------------------------------
(* ConvergeLRPs.                                                           *)

Pass(next) == conv' = next /\ UNCHANGED <<work, budget>>

\* Any list that fails ends the pass.
ConvergeFails ==
    /\ Fault /\ conv.pc \in {"actuals", "desired"} /\ Pass(NoPass)
    /\ UNCHANGED <<desired, changes, board>>

\* pruneActualsWithMissingExecutors lists the executors first.
ListExecutors ==
    /\ conv.pc = "idle"
    /\ Pass([NoPass EXCEPT !.pc = "actuals", !.alive = present])
    /\ UNCHANGED <<desired, changes, board, faults>>

\* A missing directory is an empty list; cells write actual LRPs that parse.
GetAllActualLRPs == actual

ListActuals ==
    LET executorIsAlive(a) == a.executor \in conv.alive
    IN /\ conv.pc = "actuals"
       /\ Pass([conv EXCEPT !.pc = "prune", !.alive = {},
                            !.actuals = {a \in GetAllActualLRPs : executorIsAlive(a)},
                            !.prune = {a \in GetAllActualLRPs : ~executorIsAlive(a)}])
       /\ UNCHANGED <<desired, changes, board, faults>>

\* Delete: the keys go one by one, an error leaves some of them.
Prune ==
    /\ conv.pc = "prune"
    /\ Pass([conv EXCEPT !.pc = "desired", !.prune = {}])
    /\ \/ actual' = actual \ conv.prune /\ faults' = faults
       \/ Fault /\ \E some \in SUBSET conv.prune : actual' = actual \ some
    /\ UNCHANGED <<desired, changes, present, starts, stops, stopAuctions>>

\* Mutant of needsReconciliation: duplicates do not matter.
needsReconciliationOfStarts(n, actuals) ==
    LET r == Reconcile(n, actuals) IN r.IndicesToStart \cup r.GuidsToStop # {}

needsReconciliation(n, actuals) ==
    Reconcile(n, actuals) # Result({}, {}, {})

ListDesired ==
    /\ conv.pc = "desired"
    /\ Pass([conv EXCEPT !.desired = desired, !.fresh = TRUE,
             !.pc = IF desired = Invalid \/ (desired \in Counts /\ needsReconciliation(desired, conv.actuals))
                    THEN "write" ELSE "stop"])
    /\ UNCHANGED <<desired, changes, board, faults>>

\* Mutant of Kick: the desired LRP is set without its index.
KickAnyway ==
    /\ conv.pc = "write" /\ conv.desired # Invalid
    /\ Pass([conv EXCEPT !.pc = "stop"])
    /\ changes' = changes \cup Filtered(conv.desired) /\ desired' = conv.desired
    /\ UNCHANGED <<board, faults>>

\* batchCompareAndSwapDesiredLRPs writes what was listed, if the node still has
\* the index it was listed with.  The event or the request may be lost.
Kick ==
    /\ conv.pc = "write" /\ conv.desired # Invalid
    /\ Pass([conv EXCEPT !.pc = "stop"])
    /\ \/ /\ conv.fresh /\ desired' = conv.desired
          /\ \/ changes' = changes \cup Filtered(conv.desired) /\ faults' = faults
             \/ Fault /\ UNCHANGED changes
       \/ ~conv.fresh /\ UNCHANGED <<desired, changes, faults>>
       \/ Fault /\ UNCHANGED <<desired, changes>>
    /\ UNCHANGED board

\* Delete of a key that was listed with invalid JSON.
DeleteInvalid ==
    /\ conv.pc = "write" /\ conv.desired = Invalid
    /\ Pass([conv EXCEPT !.pc = "stop"])
    /\ \/ desired' = Absent /\ changes' = changes \cup Filtered(Absent) /\ faults' = faults
       \/ Fault /\ UNCHANGED <<desired, changes>>
    /\ UNCHANGED board

\* Mutant of instancesToStop: only invalid desired LRPs are unknown.
instancesToStopInvalid == IF conv.desired = Invalid THEN {a.instance : a \in conv.actuals} ELSE {}

instancesToStop == IF conv.desired \in Counts THEN {} ELSE {a.instance : a \in conv.actuals}

\* RequestStopLRPInstances: SetMulti; an error leaves some of them.
RequestStops ==
    /\ conv.pc = "stop" /\ Pass(NoPass)
    /\ \/ stops' = stops \cup instancesToStop /\ faults' = faults
       \/ Fault /\ \E some \in SUBSET instancesToStop : stops' = stops \cup some
    /\ UNCHANGED <<desired, changes, actual, present, starts, stopAuctions>>

ConvergeLRPs == \/ ListExecutors \/ ListActuals \/ Prune \/ ListDesired
                \/ Kick \/ DeleteInvalid \/ RequestStops

ConvergeNext ==
    \/ \E new \in {Absent, Invalid} \cup Counts : Desire(new)
    \/ \E w \in Workers : (\E n \in Counts : HandlerFetch(w, n)) \/ HandlerAct(w) \/ HandlerFails(w)
    \/ \E s \in starts, e \in present : HoldStart(s, e)
    \/ \E i \in stopAuctions, keep \in Guids : HoldStop(i, keep)
    \/ \E g \in stops : StopInstance(g)
    \/ \E e \in Executors : Appear(e)
    \/ Misfortune \/ ConvergeLRPs \/ ConvergeFails

ConvergeSpec == ConvergeInit /\ [][ConvergeNext]_convergeVars

-----------------------------------------------------------------------------
(* Every part keeps running: the converger, the handler, auctioneers and   *)
(* cells; executors come back.  Each wait is for something that stays.     *)
ConvergeFairness ==
    /\ WF_convergeVars(ConvergeLRPs)
    /\ \A w \in Workers : /\ WF_convergeVars(HandlerAct(w))
                          /\ \A n \in Counts : SF_convergeVars(HandlerFetch(w, n))
    /\ \A i \in Indices :
         /\ WF_convergeVars(\E s \in starts, e \in present : s.index = i /\ HoldStart(s, e))
         /\ WF_convergeVars(\E keep \in Guids : HoldStop(i, keep))
    /\ \A g \in Guids : WF_convergeVars(StopInstance(g))
    /\ WF_convergeVars(\E e \in Executors : Appear(e))

FairConvergeSpec == ConvergeSpec /\ ConvergeFairness

-----------------------------------------------------------------------------
Wanted == IF desired \in Counts THEN 0 .. desired - 1 ELSE {}

\* ConvergeLRPs with the handler: whatever was lost (a change, a start auction
\* of a process that is deleted, a stop request that expired, an event the
\* filter dropped, an instance, an executor), when clients and faults rest the
\* board ends with exactly one instance of each desired index, for good.
EventuallyConverged ==
    <>[](/\ {a.index : a \in actual} = Wanted
         /\ \A i \in Wanted : numAtIndex(actual, i) = 1)

\* batchCompareAndSwapDesiredLRPs: a kick never undoes what a client wrote
\* after the converger listed the desired LRP.
KicksChangeNothing ==
    [][conv.pc = "write" /\ conv'.pc = "stop" /\ conv.desired # Invalid
         => desired' = desired]_convergeVars
=============================================================================
