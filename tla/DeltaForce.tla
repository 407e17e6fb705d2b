----------------------------- MODULE DeltaForce -----------------------------
(***************************************************************************)
(* What delta_force.Reconcile decides: which indices of a process must be  *)
(* started, which instances must be stopped, and which indices hold more   *)
(* than one instance.  The instances are a set of records with (at least)  *)
(* the fields index and instance; the loops that build the slices of the   *)
(* result are in DeltaForceLoop, which is proved to compute this operator. *)
(***************************************************************************)
EXTENDS Integers, FiniteSets

hasIndex(actuals, index) == \E a \in actuals : a.index = index

numAtIndex(actuals, index) == Cardinality({a \in actuals : a.index = index})

Result(toStart, toStop, toStopAllButOne) ==
    [IndicesToStart         |-> toStart,
     GuidsToStop            |-> toStop,
     IndicesToStopAllButOne |-> toStopAllButOne]

\* Mutant of Missing: the last desired index is forgotten.
MissingButLast(numDesired, actuals) ==
    {i \in 0 .. numDesired - 2 : ~ hasIndex(actuals, i)}

\* An index is missing when it is desired and no instance reports it.
Missing(numDesired, actuals) ==
    {i \in 0 .. numDesired - 1 : ~ hasIndex(actuals, i)}

Extra(numDesired, actuals) ==
    {a.instance : a \in {b \in actuals : b.index >= numDesired}}

Duplicated(numDesired, actuals) ==
    {i \in 0 .. numDesired - 1 : numAtIndex(actuals, i) > 1}

\* Mutant of Reconcile: no early return.
ReconcileAll(numDesired, actuals) ==
    Result(Missing(numDesired, actuals),
           Extra(numDesired, actuals),
           Duplicated(numDesired, actuals))

\* While an index is missing nothing is stopped: the early return.
Reconcile(numDesired, actuals) ==
    IF Missing(numDesired, actuals) # {}
    THEN Result(Missing(numDesired, actuals), {}, {})
    ELSE Result({}, Extra(numDesired, actuals), Duplicated(numDesired, actuals))
=============================================================================
