-------------------------- MODULE DeltaForceProofs --------------------------
(***************************************************************************)
(* The loops of delta_force.Reconcile compute the operator Reconcile, for  *)
(* every slice of distinct instances and every integer numDesired.         *)
(***************************************************************************)
EXTENDS DeltaForceLoop, FiniteSetTheorems, TLAPS

(***************************************************************************)
(* The indices below n that satisfy the test of a loop over the indices.   *)
(***************************************************************************)
MissingBelow(n) == {j \in 0 .. n - 1 : ~ hasIndex(Range(actuals), j)}
DupBelow(n)     == {j \in 0 .. n - 1 : numAtIndex(Range(actuals), j) > 1}
ExtraUpTo(n)    == {a.instance : a \in {actuals[k] : k \in
                       {k \in 1 .. n : actuals[k].index >= numDesired}}}

\* The loop variable of a loop over the indices never passes numDesired.
Within == i = 0 \/ i <= numDesired

StartInv ==
    pc = "start" => /\ Within
                    /\ Range(toStart) = MissingBelow(i)
                    /\ toStop = <<>>
                    /\ toStopAllButOne = <<>>

StopInv ==
    pc = "stop" => /\ i <= Len(actuals)
                   /\ toStart = <<>>
                   /\ MissingBelow(numDesired) = {}
                   /\ Range(toStop) = ExtraUpTo(i)
                   /\ toStopAllButOne = <<>>

DupInv ==
    pc = "dup" => /\ Within
                  /\ toStart = <<>>
                  /\ MissingBelow(numDesired) = {}
                  /\ Range(toStop) = ExtraUpTo(Len(actuals))
                  /\ Range(toStopAllButOne) = DupBelow(i)

IInv == TypeOK /\ StartInv /\ StopInv /\ DupInv /\ ComputesReconcile

-----------------------------------------------------------------------------
\* append adds exactly the new element to the elements of a slice.
LEMMA RangeAppend ==
    ASSUME NEW S, NEW s \in Seq(S), NEW e \in S
    PROVE  /\ Append(s, e) \in Seq(S)
           /\ Range(Append(s, e)) = Range(s) \cup {e}
  <1> DEFINE t == Append(s, e)
  <1>1. /\ t \in Seq(S)
        /\ DOMAIN t = DOMAIN s \cup {Len(s) + 1}
    OBVIOUS
  <1>2. /\ \A k \in DOMAIN s : t[k] = s[k]
        /\ t[Len(s) + 1] = e
    OBVIOUS
  <1> HIDE DEF t
  <1>3. Range(t) = {t[k] : k \in DOMAIN s} \cup {t[Len(s) + 1]}
    BY <1>1 DEF Range
  <1>4. {t[k] : k \in DOMAIN s} = Range(s)
    BY <1>2 DEF Range
  <1> QED BY <1>1, <1>2, <1>3, <1>4 DEF t

LEMMA RangeEmpty == Range(<<>>) = {}
  BY DEF Range

\* The positions counted by numAtIndex are as many as the instances there.
LEMMA CountPositions ==
    ASSUME TypeOK, NEW j \in Int
    PROVE  /\ At(j) = {} <=> ~ hasIndex(Range(actuals), j)
           /\ Cardinality(At(j)) = numAtIndex(Range(actuals), j)
  <1> DEFINE T == {a \in Range(actuals) : a.index = j}
             f == [k \in At(j) |-> actuals[k]]
  <1>1. /\ actuals \in Seq(ActualInstance)
        /\ \A p, q \in DOMAIN actuals : actuals[p] = actuals[q] => p = q
    BY InputsAssumption DEF TypeOK
  <1>2. At(j) = {} <=> ~ hasIndex(Range(actuals), j)
    BY DEF At, hasIndex, Range
  <1>3. IsFiniteSet(At(j))
    <2>1. Len(actuals) \in Nat /\ DOMAIN actuals = 1 .. Len(actuals)
      BY <1>1
    <2>2. IsFiniteSet(1 .. Len(actuals))
      BY <2>1, FS_Interval
    <2>3. At(j) \in SUBSET (1 .. Len(actuals))
      BY <2>1 DEF At
    <2> QED BY <2>2, <2>3, FS_Subset
  <1>4. f \in Bijection(At(j), T)
    <2>1. f \in [At(j) -> T]
      BY DEF At, Range
    <2>2. \A p, q \in At(j) : f[p] = f[q] => p = q
      BY <1>1 DEF At
    <2>3. \A t \in T : \E k \in At(j) : f[k] = t
      BY DEF At, Range
    <2> QED BY <2>1, <2>2, <2>3 DEF Bijection, Injection, Surjection, IsInjective
  <1>5. Cardinality(T) = Cardinality(At(j))
    BY <1>3, <1>4, FS_Bijection DEF ExistsBijection
  <1> QED BY <1>2, <1>5 DEF numAtIndex

-----------------------------------------------------------------------------
LEMMA InitIInv == Init => IInv
  <1> SUFFICES ASSUME Init PROVE IInv
    OBVIOUS
  <1>1. TypeOK
    BY DEF Init, TypeOK
  <1>2. MissingBelow(0) = {}
    BY DEF MissingBelow
  <1> QED
    BY <1>1, <1>2, RangeEmpty
    DEF Init, IInv, StartInv, StopInv, DupInv, ComputesReconcile, Within

\* One more index: the loop over the indices has looked at 0 .. n - 1.
LEMMA NextIndex ==
    ASSUME NEW n \in Nat
    PROVE  /\ MissingBelow(n + 1) = IF hasIndex(Range(actuals), n)
                                    THEN MissingBelow(n)
                                    ELSE MissingBelow(n) \cup {n}
           /\ DupBelow(n + 1) = IF numAtIndex(Range(actuals), n) > 1
                                THEN DupBelow(n) \cup {n}
                                ELSE DupBelow(n)
  <1>1. 0 .. (n + 1) - 1 = (0 .. n - 1) \cup {n}
    OBVIOUS
  <1> QED BY <1>1 DEF MissingBelow, DupBelow

\* One more instance: the loop over the slice has looked at positions 1 .. n.
LEMMA NextInstance ==
    ASSUME NEW n \in Nat
    PROVE  ExtraUpTo(n + 1) = IF actuals[n + 1].index >= numDesired
                              THEN ExtraUpTo(n) \cup {actuals[n + 1].instance}
                              ELSE ExtraUpTo(n)
  <1>1. 1 .. n + 1 = (1 .. n) \cup {n + 1}
    OBVIOUS
  <1> QED BY <1>1 DEF ExtraUpTo

\* What the loops leave behind when they have looked at everything.
LEMMA Finished ==
    ASSUME TypeOK
    PROVE  /\ MissingBelow(numDesired) = Missing(numDesired, Range(actuals))
           /\ DupBelow(numDesired) = Duplicated(numDesired, Range(actuals))
           /\ ExtraUpTo(Len(actuals)) = Extra(numDesired, Range(actuals))
  <1>1. DOMAIN actuals = 1 .. Len(actuals)
    BY InputsAssumption DEF TypeOK
  <1>2. {actuals[k] : k \in {k \in 1 .. Len(actuals) : actuals[k].index >= numDesired}}
          = {b \in Range(actuals) : b.index >= numDesired}
    BY <1>1 DEF Range
  <1> QED BY <1>2 DEF MissingBelow, DupBelow, ExtraUpTo, Missing, Duplicated, Extra

LEMMA TypeOKStep == TypeOK /\ [Next]_vars => TypeOK'
  <1> SUFFICES ASSUME TypeOK, [Next]_vars PROVE TypeOK'
    OBVIOUS
  <1> USE DEF TypeOK
  <1>0. actuals \in Seq(ActualInstance)
    BY InputsAssumption
  <1>1. CASE StartIteration
    BY <1>1 DEF StartIteration
  <1>2. CASE StartsDone
    BY <1>2 DEF StartsDone
  <1>3. CASE StopIteration
    <2>1. i + 1 \in DOMAIN actuals
      BY <1>0, <1>3 DEF StopIteration
    <2>2. actuals[i + 1] \in ActualInstance
      BY <1>0, <2>1
    <2>3. actuals[i + 1].instance \in Guids
      BY <2>2 DEF ActualInstance
    <2> QED BY <1>3, <2>3 DEF StopIteration
  <1>4. CASE StopsDone
    BY <1>4 DEF StopsDone
  <1>5. CASE DupIteration
    BY <1>5 DEF DupIteration
  <1>6. CASE DupsDone
    BY <1>6 DEF DupsDone
  <1>7. CASE UNCHANGED vars
    BY <1>7 DEF vars
  <1> QED BY <1>1, <1>2, <1>3, <1>4, <1>5, <1>6, <1>7 DEF Next

LEMMA IInvStep == IInv /\ [Next]_vars => IInv'
  <1> SUFFICES ASSUME IInv, [Next]_vars PROVE IInv'
    OBVIOUS
  <1>0. TypeOK /\ TypeOK'
    BY TypeOKStep DEF IInv
  <1>t. /\ i \in Nat /\ numDesired \in Int /\ Len(actuals) \in Nat
        /\ toStart \in Seq(Nat) /\ toStop \in Seq(Guids)
        /\ toStopAllButOne \in Seq(Nat)
    BY <1>0, InputsAssumption, NumDesiredsAssumption DEF TypeOK
  <1>1. CASE StartIteration
    <2>1. Range(toStart') = MissingBelow(i + 1)
      <3>1. Range(toStart) = MissingBelow(i)
        BY <1>1 DEF IInv, StartInv, StartIteration
      <3>2. Range(Append(toStart, i)) = Range(toStart) \cup {i}
        BY <1>t, RangeAppend, SMTT(30)
      <3>3. toStart' = IF hasIndex(Range(actuals), i) THEN toStart ELSE Append(toStart, i)
        BY <1>0, <1>1, <1>t, CountPositions DEF StartIteration
      <3> QED BY <1>t, <3>1, <3>2, <3>3, NextIndex
    <2>2. MissingBelow(i + 1) = MissingBelow(i)'
      BY <1>1 DEF StartIteration, MissingBelow
    <2> QED
      BY <1>0, <1>1, <1>t, <2>1, <2>2
      DEF StartIteration, IInv, StartInv, StopInv, DupInv, ComputesReconcile, Within
  <1>2. CASE StartsDone
    <2>1. Range(toStart) = MissingBelow(numDesired) /\ toStop = <<>> /\ toStopAllButOne = <<>>
      <3>1. i = numDesired \/ (i = 0 /\ numDesired < 0)
        BY <1>2, <1>t DEF IInv, StartInv, StartsDone, Within
      <3>2. 0 .. i - 1 = 0 .. numDesired - 1
        BY <3>1, <1>t
      <3> QED BY <1>2, <3>2 DEF IInv, StartInv, StartsDone, MissingBelow
    <2>2. /\ MissingBelow(numDesired)' = MissingBelow(numDesired)
          /\ ExtraUpTo(i)' = {}
      BY <1>2 DEF StartsDone, MissingBelow, ExtraUpTo
    <2>3. CASE Len(toStart) > 0
      <3>1. Range(toStart) # {}
        <4>1. 1 \in DOMAIN toStart
          BY <1>t, <2>3
        <4> QED BY <4>1 DEF Range
      <3>2. ComputesReconcile'
        BY <1>0, <1>2, <2>1, <3>1, Finished, RangeEmpty
        DEF StartsDone, ComputesReconcile, Reconcile
      <3> QED BY <1>0, <1>2, <2>3, <3>2 DEF StartsDone, IInv, StartInv, StopInv, DupInv
    <2>4. CASE ~ (Len(toStart) > 0)
      <3>1. toStart = <<>>
        BY <1>t, <2>4
      <3>2. MissingBelow(numDesired) = {}
        BY <3>1, <2>1, RangeEmpty
      <3>3. Range(toStop)' = {}
        BY <1>2, <2>1, RangeEmpty DEF StartsDone
      <3>4. StopInv'
        <4>1. (i <= Len(actuals))'
          BY <1>2, <1>t DEF StartsDone
        <4>2. (toStart = <<>> /\ toStopAllButOne = <<>>)'
          BY <1>2, <2>1, <3>1 DEF StartsDone
        <4>3. (MissingBelow(numDesired) = {})'
          BY <2>2, <3>2
        <4>4. (Range(toStop) = ExtraUpTo(i))'
          BY <2>2, <3>3
        <4> QED BY <4>1, <4>2, <4>3, <4>4 DEF StopInv
      <3> QED
        BY <1>0, <1>2, <2>4, <3>4
        DEF StartsDone, IInv, StartInv, DupInv, ComputesReconcile
    <2> QED BY <2>3, <2>4
  <1>3. CASE StopIteration
    <2>1. Range(toStop') = ExtraUpTo(i + 1)
      <3>0. i + 1 \in DOMAIN actuals /\ actuals \in Seq(ActualInstance)
        BY <1>0, <1>3, <1>t, InputsAssumption DEF StopIteration, TypeOK
      <3>a. actuals[i + 1] \in ActualInstance
        BY <3>0
      <3>1. actuals[i + 1].instance \in Guids
        BY <3>a DEF ActualInstance
      <3>2. Range(Append(toStop, actuals[i + 1].instance))
              = Range(toStop) \cup {actuals[i + 1].instance}
        BY <1>t, <3>1, RangeAppend
      <3> QED BY <1>3, <1>t, <3>2, NextInstance DEF StopIteration, IInv, StopInv
    <2>2. /\ ExtraUpTo(i + 1) = ExtraUpTo(i)'
          /\ MissingBelow(numDesired)' = MissingBelow(numDesired)
      BY <1>3 DEF StopIteration, ExtraUpTo, MissingBelow
    <2> QED
      BY <1>0, <1>3, <1>t, <2>1, <2>2
      DEF StopIteration, IInv, StartInv, StopInv, DupInv, ComputesReconcile
  <1>4. CASE StopsDone
    <2>1. i = Len(actuals)
      BY <1>4, <1>t DEF StopsDone, IInv, StopInv
    <2>2. /\ ExtraUpTo(Len(actuals))' = ExtraUpTo(Len(actuals))
          /\ MissingBelow(numDesired)' = MissingBelow(numDesired)
          /\ DupBelow(0)' = {}
      BY <1>4 DEF StopsDone, ExtraUpTo, MissingBelow, DupBelow
    <2> QED
      BY <1>0, <1>4, <2>1, <2>2, RangeEmpty
      DEF StopsDone, IInv, StartInv, StopInv, DupInv, ComputesReconcile, Within
  <1>5. CASE DupIteration
    <2>1. Range(toStopAllButOne') = DupBelow(i + 1)
      <3>1. Range(Append(toStopAllButOne, i)) = Range(toStopAllButOne) \cup {i}
        BY <1>t, RangeAppend, SMTT(30)
      <3>2. Cardinality(At(i)) = numAtIndex(Range(actuals), i)
        BY <1>0, <1>t, CountPositions
      <3> QED BY <1>5, <1>t, <3>1, <3>2, NextIndex DEF DupIteration, IInv, DupInv
    <2>2. /\ DupBelow(i + 1) = DupBelow(i)'
          /\ ExtraUpTo(Len(actuals))' = ExtraUpTo(Len(actuals))
          /\ MissingBelow(numDesired)' = MissingBelow(numDesired)
      BY <1>5 DEF DupIteration, ExtraUpTo, MissingBelow, DupBelow
    <2> QED
      BY <1>0, <1>5, <1>t, <2>1, <2>2
      DEF DupIteration, IInv, StartInv, StopInv, DupInv, ComputesReconcile, Within
  <1>6. CASE DupsDone
    <2>1. Range(toStopAllButOne) = DupBelow(numDesired)
      <3>1. i = numDesired \/ (i = 0 /\ numDesired < 0)
        BY <1>6, <1>t DEF IInv, DupInv, DupsDone, Within
      <3>2. 0 .. i - 1 = 0 .. numDesired - 1
        BY <3>1, <1>t
      <3> QED BY <1>6, <3>2 DEF IInv, DupInv, DupsDone, DupBelow
    <2>2. ComputesReconcile'
      BY <1>0, <1>6, <2>1, Finished, RangeEmpty
      DEF DupsDone, IInv, DupInv, ComputesReconcile, Reconcile
    <2> QED BY <1>0, <1>6, <2>2 DEF DupsDone, IInv, StartInv, StopInv, DupInv
  <1>7. CASE UNCHANGED vars
    BY <1>0, <1>7
    DEF vars, IInv, StartInv, StopInv, DupInv, ComputesReconcile, Within,
        MissingBelow, ExtraUpTo, DupBelow
  <1> QED BY <1>1, <1>2, <1>3, <1>4, <1>5, <1>6, <1>7 DEF Next

-----------------------------------------------------------------------------
(***************************************************************************)
(* Type correctness of Reconcile's loops, for every input.                 *)
(***************************************************************************)
THEOREM DeltaForceTypeCorrect == Spec => []TypeOK
  BY InitIInv, TypeOKStep, PTL DEF Spec, IInv

(***************************************************************************)
(* When Reconcile (delta_force.go:41) returns, its three slices hold       *)
(* exactly the indices and guids the operator Reconcile names.             *)
(***************************************************************************)
THEOREM ReconcileCorrect == Spec => []ComputesReconcile
  <1>1. IInv => ComputesReconcile
    BY DEF IInv
  <1> QED BY <1>1, InitIInv, IInvStep, PTL DEF Spec

\* Appending an index above all others keeps a list of indices increasing.
LEMMA IncreasingAppend ==
    ASSUME NEW s \in Seq(Nat), NEW e \in Nat, Increasing(s),
           \A x \in Range(s) : x < e
    PROVE  Increasing(Append(s, e))
  <1> DEFINE t == Append(s, e)
  <1>1. DOMAIN t = 1 .. Len(s) + 1 /\ DOMAIN s = 1 .. Len(s) /\ Len(s) \in Nat
    OBVIOUS
  <1>2. /\ \A k \in DOMAIN s : t[k] = s[k] /\ s[k] < e
        /\ t[Len(s) + 1] = e
    BY DEF Range
  <1> HIDE DEF t
  <1>3. ASSUME NEW j \in DOMAIN t, NEW k \in DOMAIN t, j < k
        PROVE  t[j] < t[k]
    <2>1. j \in DOMAIN s
      BY <1>1, <1>3
    <2>2. CASE k = Len(s) + 1
      BY <1>2, <2>1, <2>2
    <2>3. CASE k # Len(s) + 1
      BY <1>1, <1>2, <1>3, <2>1, <2>3 DEF Increasing
    <2> QED BY <2>2, <2>3
  <1> QED BY <1>3 DEF Increasing, t

(***************************************************************************)
(* IndicesToStart and IndicesToStopAllButOne are increasing whatever the   *)
(* instances: processDesiredChange (handler.go:104, 162) never requests    *)
(* two auctions for one index of one change.                               *)
(***************************************************************************)
THEOREM NoIndexTwice == Spec => []IndicesIncreasing
  <1>1. Init => IndicesIncreasing
    BY DEF Init, IndicesIncreasing, Increasing
  <1>2. IInv /\ IndicesIncreasing /\ [Next]_vars => IndicesIncreasing'
    <2> SUFFICES ASSUME IInv, IndicesIncreasing, [Next]_vars
                 PROVE  IndicesIncreasing'
      OBVIOUS
    <2>t. i \in Nat /\ toStart \in Seq(Nat) /\ toStopAllButOne \in Seq(Nat)
      BY DEF IInv, TypeOK
    <2>1. CASE StartIteration
      <3>1. \A x \in Range(toStart) : x < i
        BY <2>1, <2>t DEF StartIteration, IInv, StartInv, MissingBelow
      <3>2. Increasing(Append(toStart, i))
        BY <2>t, <3>1, IncreasingAppend DEF IndicesIncreasing
      <3> QED BY <2>1, <3>2 DEF StartIteration, IndicesIncreasing, Increasing
    <2>2. CASE DupIteration
      <3>1. \A x \in Range(toStopAllButOne) : x < i
        BY <2>2, <2>t DEF DupIteration, IInv, DupInv, DupBelow
      <3>2. Increasing(Append(toStopAllButOne, i))
        BY <2>t, <3>1, IncreasingAppend DEF IndicesIncreasing
      <3> QED BY <2>2, <3>2 DEF DupIteration, IndicesIncreasing, Increasing
    <2>3. ASSUME UNCHANGED <<toStart, toStopAllButOne>>
          PROVE  IndicesIncreasing'
      BY <2>3 DEF IndicesIncreasing, Increasing
    <2> QED
      BY <2>1, <2>2, <2>3
      DEF Next, StartsDone, StopIteration, StopsDone, DupsDone, vars
  <1> QED BY <1>1, <1>2, InitIInv, IInvStep, PTL DEF Spec
=============================================================================
