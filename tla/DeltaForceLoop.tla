--------------------------- MODULE DeltaForceLoop ---------------------------
(***************************************************************************)
(* delta_force.Reconcile as the code runs it: a loop over the desired      *)
(* indices that appends to IndicesToStart, an early return, a loop over    *)
(* the slice of actual instances that appends to GuidsToStop, and a second *)
(* loop over the desired indices that appends to IndicesToStopAllButOne.   *)
(* One action is one iteration, or the test that leaves a loop.            *)
(*                                                                         *)
(* numDesired is any integer: the caller passes DesiredLRP.Instances,      *)
(* which NewDesiredLRPFromJSON accepts whatever its sign.                  *)
(***************************************************************************)
EXTENDS DeltaForce, Sequences, Functions

CONSTANTS
    Guids,        \* instance guids
    NumDesireds,  \* the values numDesired is called with
    Inputs        \* the slices of actual instances it is called with

ActualInstance == [index : Int, instance : Guids]

ASSUME NumDesiredsAssumption == NumDesireds \subseteq Int

\* The slice comes from a directory of the store with one node for each
\* instance, so no instance is listed twice.
ASSUME InputsAssumption ==
    \A s \in Inputs : /\ s \in Seq(ActualInstance)
                      /\ \A j, k \in DOMAIN s : s[j] = s[k] => j = k

VARIABLES
    numDesired,   \* the first parameter
    actuals,      \* the second parameter, a slice
    pc,           \* the loop that runs: "start", "stop", "dup", or "done"
    i,            \* its loop variable (an offset into actuals in "stop")
    toStart,      \* result.IndicesToStart
    toStop,       \* result.GuidsToStop
    toStopAllButOne  \* result.IndicesToStopAllButOne

vars == <<numDesired, actuals, pc, i, toStart, toStop, toStopAllButOne>>

\* The positions that ActualInstances.hasIndex and numAtIndex scan.
At(index) == {k \in DOMAIN actuals : actuals[k].index = index}

Init ==
    /\ numDesired \in NumDesireds
    /\ actuals \in Inputs
    /\ pc = "start"
    /\ i = 0
    /\ toStart = <<>>
    /\ toStop = <<>>
    /\ toStopAllButOne = <<>>

StartIteration ==
    /\ pc = "start"
    /\ i < numDesired
    /\ toStart' = IF At(i) = {} THEN Append(toStart, i) ELSE toStart
    /\ i' = i + 1
    /\ UNCHANGED <<numDesired, actuals, pc, toStop, toStopAllButOne>>

\* Mutant of StartsDone: no early return (delta_force.go:50-52 dropped).
StartsDoneNoReturn ==
    /\ pc = "start"
    /\ i >= numDesired
    /\ pc' = "stop"
    /\ i' = 0
    /\ UNCHANGED <<numDesired, actuals, toStart, toStop, toStopAllButOne>>

\* The end of the first loop: return early when something must be started.
StartsDone ==
    /\ pc = "start"
    /\ i >= numDesired
    /\ pc' = IF Len(toStart) > 0 THEN "done" ELSE "stop"
    /\ i' = 0
    /\ UNCHANGED <<numDesired, actuals, toStart, toStop, toStopAllButOne>>

StopIteration ==
    /\ pc = "stop"
    /\ i < Len(actuals)
    /\ toStop' = IF actuals[i + 1].index >= numDesired
                 THEN Append(toStop, actuals[i + 1].instance)
                 ELSE toStop
    /\ i' = i + 1
    /\ UNCHANGED <<numDesired, actuals, pc, toStart, toStopAllButOne>>

StopsDone ==
    /\ pc = "stop"
    /\ i >= Len(actuals)
    /\ pc' = "dup"
    /\ i' = 0
    /\ UNCHANGED <<numDesired, actuals, toStart, toStop, toStopAllButOne>>

\* Mutant of DupIteration: an entry for every instance after the first.
DupIterationPerInstance ==
    /\ pc = "dup"
    /\ i < numDesired
    /\ toStopAllButOne' =
            toStopAllButOne \o [k \in 1 .. Cardinality(At(i)) - 1 |-> i]
    /\ i' = i + 1
    /\ UNCHANGED <<numDesired, actuals, pc, toStart, toStop>>

DupIteration ==
    /\ pc = "dup"
    /\ i < numDesired
    /\ toStopAllButOne' = IF Cardinality(At(i)) > 1
                          THEN Append(toStopAllButOne, i)
                          ELSE toStopAllButOne
    /\ i' = i + 1
    /\ UNCHANGED <<numDesired, actuals, pc, toStart, toStop>>

DupsDone ==
    /\ pc = "dup"
    /\ i >= numDesired
    /\ pc' = "done"
    /\ UNCHANGED <<numDesired, actuals, i, toStart, toStop, toStopAllButOne>>

Next ==
    \/ StartIteration \/ StartsDone
    \/ StopIteration  \/ StopsDone
    \/ DupIteration   \/ DupsDone

Spec == Init /\ [][Next]_vars

-----------------------------------------------------------------------------
\* What the loops carry: the slices hold indices and guids.
TypeOK ==
    /\ numDesired \in NumDesireds
    /\ actuals \in Inputs
    /\ pc \in {"start", "stop", "dup", "done"}
    /\ i \in Nat
    /\ toStart \in Seq(Nat)
    /\ toStop \in Seq(Guids)
    /\ toStopAllButOne \in Seq(Nat)

\* What Reconcile returns is, as sets, what the operator of DeltaForce says:
\* the early return (delta_force.go:50) loses no index that must be started
\* and the two later loops look at every instance and at every index.
ComputesReconcile ==
    pc = "done" =>
        Result(Range(toStart), Range(toStop), Range(toStopAllButOne))
            = Reconcile(numDesired, Range(actuals))

Increasing(s) == \A j, k \in DOMAIN s : j < k => s[j] < s[k]

\* The two lists of indices are increasing, so processDesiredChange requests
\* one auction for each index and never two for the same one.
IndicesIncreasing == Increasing(toStart) /\ Increasing(toStopAllButOne)
=============================================================================
