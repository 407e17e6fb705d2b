--------------------------- MODULE HandlerProofs ---------------------------
(***************************************************************************)
(* Invariants of Handler for every set of processes, goroutines and guids, *)
(* every number of instances and every bound.                              *)
(***************************************************************************)
EXTENDS Handler, FiniteSetTheorems, TLAPS

\* The wait group counts the goroutines.
WgCounts == wg = Cardinality({w \in Workers : Busy(w)})

\* A process that is gone has no goroutines.
NobodyLeft ==
    phase \in {"exited", "killed", "panicked"} => \A w \in Workers : ~ Busy(w)

\* A goroutine that requests a start auction has an index and a guid for it.
AuctionReady ==
    \A w \in Workers : pc[w] = "auction" => toStart[w] # {} /\ guid[w] \in Guids

\* The guids to stop are keys of instanceGuidToActual.
StopsKnown ==
    \A w \in Workers : \A g \in toStop[w] : \E a \in snapshot[w] : a.instance = g

\* A goroutine that has not fetched yet has nothing to stop.
NothingToStop ==
    \A w \in Workers :
        pc[w] \in {"idle", "fetch"} => toStop[w] = {} /\ toStopAllButOne[w] = {}

IInv ==
    /\ TypeOK
    /\ WgCounts
    /\ NobodyLeft
    /\ AuctionReady
    /\ StopsKnown
    /\ NothingToStop
    /\ StopsOnlyWhenCovered

-----------------------------------------------------------------------------
(* Lemmas about the operators.                                             *)

LEMMA NoChangeType == NoChange \in Change
  <1>1. (CHOOSE p \in Processes : TRUE) \in Processes
    BY HandlerAssumption
  <1>2. 0 \in Counts
    BY MaxInstancesAssumption DEF Counts
  <1> QED BY <1>1, <1>2 DEF NoChange, Change

\* A set of indices that is not empty has a first one.
LEMMA FirstIn ==
    ASSUME NEW S, S \subseteq Nat, S # {}
    PROVE  First(S) \in S
  <1> DEFINE R == OpToRel(<, Nat)
  <1>1. IsWellFoundedOn(R, Nat)
    BY NatLessThanWellFounded
  <1>2. \A i, j \in Nat : ~ (<<j, i>> \in R) => i <= j
    BY DEF OpToRel
  <1> HIDE DEF R
  <1>3. PICK i \in S : \A j \in S : ~ (<<j, i>> \in R)
    BY <1>1, WFMin
  <1>4. \A j \in S : i <= j
    BY <1>2, <1>3
  <1> QED BY <1>3, <1>4 DEF First

LEMMA DesiredInstancesType ==
    ASSUME NEW c \in Change
    PROVE  desiredInstances(c) \in Counts
  BY MaxInstancesAssumption DEF Change, desiredInstances, Counts

\* What Reconcile returns for instances of one process is well typed, names
\* only guids it was given, and stops nothing while an index is missing.
LEMMA ReconcileType ==
    ASSUME NEW n \in Counts, NEW S \in SUBSET ActualLRP
    PROVE  LET delta == Reconcile(n, S)
           IN  /\ delta.IndicesToStart \subseteq Indices
               /\ delta.GuidsToStop \subseteq Guids
               /\ delta.IndicesToStopAllButOne \subseteq Indices
               /\ \A g \in delta.GuidsToStop : \E a \in S : a.instance = g
               /\ delta.GuidsToStop \cup delta.IndicesToStopAllButOne # {} =>
                    \A i \in 0 .. n - 1 : hasIndex(S, i)
  <1>1. 0 .. n - 1 \subseteq Indices
    BY MaxInstancesAssumption DEF Counts, Indices
  <1>2. Missing(n, S) \subseteq Indices /\ Duplicated(n, S) \subseteq Indices
    BY <1>1 DEF Missing, Duplicated
  <1>3. \A g \in Extra(n, S) : \E a \in S : a.instance = g
    BY DEF Extra
  <1>4. Extra(n, S) \subseteq Guids
    BY <1>3 DEF ActualLRP
  <1>5. Missing(n, S) = {} => \A i \in 0 .. n - 1 : hasIndex(S, i)
    BY DEF Missing
  <1> QED BY <1>2, <1>3, <1>4, <1>5 DEF Reconcile, Result

\* Counting goroutines.
LEMMA BusyFinite ==
    IsFiniteSet({w \in Workers : Busy(w)})
  <1>1. {w \in Workers : Busy(w)} \in SUBSET Workers
    OBVIOUS
  <1> QED BY <1>1, HandlerAssumption, FS_Subset

LEMMA BusyMore ==
    ASSUME TypeOK, WgCounts, NEW w \in Workers, ~ Busy(w),
           wg' = wg + 1, pc' = [pc EXCEPT ![w] = "fetch"]
    PROVE  WgCounts'
  <1>1. {v \in Workers : Busy(v)}' = {v \in Workers : Busy(v)} \cup {w}
    BY DEF TypeOK, Busy
  <1>2. w \notin {v \in Workers : Busy(v)}
    OBVIOUS
  <1> QED BY <1>1, <1>2, BusyFinite, FS_AddElement DEF WgCounts

LEMMA BusyLess ==
    ASSUME TypeOK, WgCounts, NEW w \in Workers, Busy(w),
           wg' = wg - 1, pc' = [pc EXCEPT ![w] = "idle"]
    PROVE  WgCounts' /\ wg' \in Nat
  <1> DEFINE B == {v \in Workers : Busy(v)}
  <1>1. B' = B \ {w}
    BY DEF TypeOK, Busy
  <1>2. w \in B
    OBVIOUS
  <1>3. IsFiniteSet(B)
    BY BusyFinite
  <1>4. Cardinality(B \ {w}) = Cardinality(B) - 1 /\ IsFiniteSet(B \ {w})
    BY <1>2, <1>3, FS_RemoveElement
  <1>5. Cardinality(B \ {w}) \in Nat
    BY <1>4, FS_CardinalityType
  <1>6. wg = Cardinality(B)
    BY DEF WgCounts
  <1> HIDE DEF B
  <1>7. wg' = Cardinality(B') /\ wg' \in Nat
    BY <1>1, <1>4, <1>5, <1>6
  <1> QED BY <1>7 DEF WgCounts, B

LEMMA BusySame ==
    ASSUME WgCounts, wg' = wg, \A w \in Workers : Busy(w)' = Busy(w)
    PROVE  WgCounts'
  <1>1. {v \in Workers : Busy(v)}' = {v \in Workers : Busy(v)}
    OBVIOUS
  <1> QED BY <1>1 DEF WgCounts

\* The goroutines' variables before any change is received.
LEMMA IdleType ==
    /\ [w \in Workers |-> "idle"] \in [Workers -> {"idle", "fetch", "act", "auction"}]
    /\ [w \in Workers |-> NoChange] \in [Workers -> Change]
    /\ [w \in Workers |-> {}] \in [Workers -> SUBSET ActualLRP]
    /\ [w \in Workers |-> {}] \in [Workers -> SUBSET Indices]
    /\ [w \in Workers |-> {}] \in [Workers -> SUBSET Guids]
    /\ [w \in Workers |-> NoGuid] \in [Workers -> Guids \cup {NoGuid}]
    /\ [w \in Workers |-> FALSE] \in [Workers -> BOOLEAN]
    /\ <<>> \in Seq(Change)
  BY NoChangeType

LEMMA SpoilType ==
    ASSUME NEW S, Spoil(S)
    PROVE  clean' \in [Processes -> BOOLEAN]
  BY DEF Spoil

-----------------------------------------------------------------------------
LEMMA InitIInv == Init => IInv
  <1> SUFFICES ASSUME Init PROVE IInv
    OBVIOUS
  <1> USE DEF Init, BBSInit, FeedInit, JobsInit
  <1>1. TypeOK
    <2>1. BBSTypeOK
      BY MaxInstancesAssumption, LeftoversAssumption DEF BBSTypeOK, DesiredLRP, Counts
    <2>2. used \subseteq Guids
      BY <2>1 DEF BBSTypeOK, ActualLRP
    <2> QED BY <2>1, <2>2, IdleType DEF TypeOK
  <1>2. WgCounts
    <2>1. {w \in Workers : Busy(w)} = {}
      BY DEF Busy
    <2> QED BY <2>1, FS_EmptySet DEF WgCounts
  <1>3. NobodyLeft /\ AuctionReady /\ StopsKnown /\ NothingToStop
    BY DEF NobodyLeft, AuctionReady, StopsKnown, NothingToStop
  <1>4. StopsOnlyWhenCovered
    BY DEF StopsOnlyWhenCovered
  <1> QED BY <1>1, <1>2, <1>3, <1>4 DEF IInv

\* Steps that leave the handler alone.
LEMMA EnvironmentStep ==
    ASSUME IInv, UNCHANGED handlerVars, BBSTypeOK',
           feed' \in Seq(Change), up' \in BOOLEAN, clean' \in [Processes -> BOOLEAN]
    PROVE  IInv'
  <1> USE DEF handlerVars, jobVars, boundVars
  <1>1. TypeOK'
    BY DEF IInv, TypeOK
  <1>2. WgCounts'
    BY BusySame DEF IInv, Busy
  <1>3. NobodyLeft' /\ AuctionReady' /\ StopsKnown' /\ NothingToStop'
    BY DEF IInv, NobodyLeft, AuctionReady, StopsKnown, NothingToStop, Busy
  <1>4. StopsOnlyWhenCovered'
    BY DEF IInv, StopsOnlyWhenCovered, hasIndex
  <1> QED BY <1>1, <1>2, <1>3, <1>4 DEF IInv

\* The ways out of a goroutine.
LEMMA EndStep ==
    ASSUME IInv, NEW w \in Workers, Busy(w), End(w),
           UNCHANGED <<bbsVars, feedVars, phase, used, boundVars>>,
           clean' \in [Processes -> BOOLEAN]
    PROVE  IInv'
  <1> USE DEF End
  <1>1. WgCounts' /\ wg' \in Nat
    BY BusyLess DEF IInv
  <1>2. TypeOK'
    BY <1>1, NoChangeType
    DEF IInv, TypeOK, BBSTypeOK, bbsVars, feedVars, boundVars
  <1>3. NobodyLeft'
    BY DEF IInv, TypeOK, NobodyLeft, Busy
  <1>4. AuctionReady' /\ StopsKnown' /\ NothingToStop'
    BY DEF IInv, TypeOK, AuctionReady, StopsKnown, NothingToStop
  <1>5. StopsOnlyWhenCovered'
    BY DEF IInv, TypeOK, StopsOnlyWhenCovered, hasIndex
  <1> QED BY <1>1, <1>2, <1>3, <1>4, <1>5 DEF IInv

\* The end of the process.
LEMMA GoneStep ==
    ASSUME IInv, NEW how \in {"killed", "panicked"}, Gone(how),
           UNCHANGED <<bbsVars, used, boundVars>>
    PROVE  IInv'
  <1> USE DEF Gone, Abandon
  <1>1. clean' \in [Processes -> BOOLEAN]
    BY SpoilType
  <1>2. TypeOK'
    BY <1>1, IdleType DEF IInv, TypeOK, BBSTypeOK, bbsVars, boundVars
  <1>3. WgCounts'
    <2>1. {v \in Workers : Busy(v)}' = {}
      BY DEF Busy
    <2> QED BY <2>1, FS_EmptySet DEF WgCounts
  <1>4. NobodyLeft' /\ AuctionReady' /\ StopsKnown' /\ NothingToStop'
    BY DEF NobodyLeft, AuctionReady, StopsKnown, NothingToStop, Busy
  <1>5. StopsOnlyWhenCovered'
    BY DEF StopsOnlyWhenCovered
  <1> QED BY <1>2, <1>3, <1>4, <1>5 DEF IInv

LEMMA ReceiveStep ==
    ASSUME IInv, NEW w \in Workers, Receive(w)
    PROVE  IInv'
  <1> USE DEF Receive
  <1>1. Head(feed) \in Change /\ Tail(feed) \in Seq(Change)
    BY DEF IInv, TypeOK, Take
  <1>2. WgCounts'
    BY BusyMore DEF IInv
  <1>3. TypeOK'
    BY <1>1 DEF IInv, TypeOK, BBSTypeOK, bbsVars, boundVars, Take
  <1>4. NobodyLeft'
    BY DEF NobodyLeft
  <1>5. AuctionReady' /\ StopsKnown' /\ NothingToStop'
    BY DEF IInv, TypeOK, AuctionReady, StopsKnown, NothingToStop, Busy
  <1>6. StopsOnlyWhenCovered'
    BY DEF IInv, TypeOK, NothingToStop, StopsOnlyWhenCovered, Busy
  <1> QED BY <1>2, <1>3, <1>4, <1>5, <1>6 DEF IInv

LEMMA FetchActualsStep ==
    ASSUME IInv, NEW w \in Workers, FetchActuals(w)
    PROVE  IInv'
  <1> DEFINE n == desiredInstances(change[w])
             S == GetActualLRPsByProcessGuid(change[w].process)
             delta == Reconcile(n, S)
  <1>1. change[w] \in Change /\ n \in Counts /\ S \in SUBSET ActualLRP
    BY DesiredInstancesType
    DEF IInv, TypeOK, BBSTypeOK, GetActualLRPsByProcessGuid
  <1>2. /\ pc[w] = "fetch"
        /\ snapshot' = [snapshot EXCEPT ![w] = S]
        /\ toStart' = [toStart EXCEPT ![w] = delta.IndicesToStart]
        /\ toStop' = [toStop EXCEPT ![w] = delta.GuidsToStop]
        /\ toStopAllButOne' = [toStopAllButOne EXCEPT ![w] = delta.IndicesToStopAllButOne]
        /\ pc' = [pc EXCEPT ![w] = "act"]
        /\ clean' = [clean EXCEPT ![change[w].process] = CleanFetch(w)]
        /\ UNCHANGED <<bbsVars, feedVars, phase, wg, change, guid, late, used, boundVars>>
    BY DEF FetchActuals, actualsForProcessGuid
  <1>3. /\ delta.IndicesToStart \subseteq Indices
        /\ delta.GuidsToStop \subseteq Guids
        /\ delta.IndicesToStopAllButOne \subseteq Indices
        /\ \A g \in delta.GuidsToStop : \E a \in S : a.instance = g
        /\ delta.GuidsToStop \cup delta.IndicesToStopAllButOne # {} =>
             \A i \in 0 .. n - 1 : hasIndex(S, i)
    BY <1>1, ReconcileType
  <1>4. CleanFetch(w) \in BOOLEAN
    BY DEF CleanFetch
  <1> HIDE DEF n, S, delta
  <1>5. TypeOK'
    BY <1>1, <1>2, <1>3, <1>4
    DEF IInv, TypeOK, BBSTypeOK, bbsVars, feedVars, boundVars
  <1>6. WgCounts' /\ NobodyLeft'
    <2>1. \A v \in Workers : Busy(v)' = Busy(v)
      BY <1>2 DEF IInv, TypeOK, Busy
    <2> QED BY <1>2, <2>1, BusySame DEF IInv, NobodyLeft
  <1>7. AuctionReady' /\ StopsKnown' /\ NothingToStop'
    BY <1>2, <1>3 DEF IInv, TypeOK, AuctionReady, StopsKnown, NothingToStop
  <1>8. StopsOnlyWhenCovered'
    BY <1>2, <1>3 DEF IInv, TypeOK, StopsOnlyWhenCovered, hasIndex, n
  <1> QED BY <1>5, <1>6, <1>7, <1>8 DEF IInv

LEMMA PrepareStartStep ==
    ASSUME IInv, NEW w \in Workers, NEW g \in Guids, PrepareStart(w, g)
    PROVE  IInv'
  <1> USE DEF PrepareStart
  <1>1. TypeOK'
    BY DEF IInv, TypeOK, BBSTypeOK, bbsVars, feedVars, boundVars
  <1>2. WgCounts' /\ NobodyLeft'
    <2>1. \A v \in Workers : Busy(v)' = Busy(v)
      BY DEF IInv, TypeOK, Busy
    <2> QED BY <2>1, BusySame DEF IInv, NobodyLeft
  <1>3. AuctionReady' /\ StopsKnown' /\ NothingToStop'
    BY DEF IInv, TypeOK, AuctionReady, StopsKnown, NothingToStop
  <1>4. StopsOnlyWhenCovered'
    BY DEF IInv, StopsOnlyWhenCovered, hasIndex
  <1> QED BY <1>1, <1>2, <1>3, <1>4 DEF IInv

LEMMA RequestStartStep ==
    ASSUME IInv, NEW w \in Workers, NEW o \in Outcomes, RequestStart(w, o)
    PROVE  IInv'
  <1> DEFINE i == First(toStart[w])
             m == [process |-> change[w].process, index |-> i,
                   instance |-> guid[w], of |-> change[w].index]
  <1>1. /\ pc[w] = "auction"
        /\ RequestLRPStartAuction(m, o)
        /\ CountTimeout(o)
        /\ \/ UNCHANGED <<pc, toStart, guid>>
           \/ /\ pc' = [pc EXCEPT ![w] = "act"]
              /\ toStart' = [toStart EXCEPT ![w] = @ \ {i}]
              /\ guid' = [guid EXCEPT ![w] = NoGuid]
        /\ \/ late' = [late EXCEPT ![w] = @ \/ o = "late"]
           \/ late' = [late EXCEPT ![w] = FALSE]
        /\ Spoil(IF o = "error" THEN {change[w].process} ELSE {})
        /\ UNCHANGED <<feedVars, phase, wg, change, snapshot, toStop,
                       toStopAllButOne, used, restarts>>
    BY DEF RequestStart
  <1>2. i \in Indices
    <2>1. toStart[w] # {} /\ toStart[w] \subseteq Indices
      BY <1>1 DEF IInv, TypeOK, AuctionReady
    <2>2. Indices \subseteq Nat
      BY MaxInstancesAssumption DEF Indices
    <2> QED BY <2>1, <2>2, FirstIn
  <1>3. m \in LRPStartAuction
    BY <1>1, <1>2 DEF IInv, TypeOK, AuctionReady, Change, LRPStartAuction
  <1> HIDE DEF i, m
  <1>4. BBSTypeOK'
    BY <1>1, <1>3 DEF IInv, TypeOK, BBSTypeOK, RequestLRPStartAuction
  <1>5. clean' \in [Processes -> BOOLEAN] /\ timeouts' \in Nat
    BY <1>1, SpoilType DEF IInv, TypeOK, CountTimeout
  <1>6. late' \in [Workers -> BOOLEAN]
    BY <1>1 DEF IInv, TypeOK
  <1>7. /\ pc' \in [Workers -> {"idle", "fetch", "act", "auction"}]
        /\ toStart' \in [Workers -> SUBSET Indices]
        /\ guid' \in [Workers -> Guids \cup {NoGuid}]
    BY <1>1 DEF IInv, TypeOK
  <1>8. TypeOK'
    BY <1>1, <1>4, <1>5, <1>6, <1>7 DEF IInv, TypeOK, feedVars
  <1>9. WgCounts' /\ NobodyLeft'
    <2>1. \A v \in Workers : Busy(v)' = Busy(v)
      BY <1>1 DEF IInv, TypeOK, Busy
    <2> QED BY <1>1, <2>1, BusySame DEF IInv, NobodyLeft
  <1>10. AuctionReady' /\ StopsKnown' /\ NothingToStop'
    BY <1>1 DEF IInv, TypeOK, AuctionReady, StopsKnown, NothingToStop
  <1>11. StopsOnlyWhenCovered'
    BY <1>1 DEF IInv, StopsOnlyWhenCovered, hasIndex
  <1> QED BY <1>8, <1>9, <1>10, <1>11 DEF IInv

LEMMA RequestStopStep ==
    ASSUME IInv, NEW w \in Workers, NEW g \in Guids, NEW o \in Outcomes,
           RequestStop(w, g, o)
    PROVE  IInv'
  <1> DEFINE a == CHOOSE x \in snapshot[w] : x.instance = g
  <1>1. /\ g \in toStop[w]
        /\ RequestStopLRPInstance(a, o)
        /\ CountTimeout(o)
        /\ toStop' = toStop \/ toStop' = [toStop EXCEPT ![w] = @ \ {g}]
        /\ UNCHANGED <<feedVars, phase, wg, pc, change, snapshot, toStart,
                       toStopAllButOne, guid, late, used, restarts, clean>>
    BY DEF RequestStop
  <1>2. a \in ActualLRP
    <2>1. \E x \in snapshot[w] : x.instance = g
      BY <1>1 DEF IInv, StopsKnown
    <2>2. a \in snapshot[w]
      BY <2>1
    <2> QED BY <2>2 DEF IInv, TypeOK
  <1> HIDE DEF a
  <1>3. BBSTypeOK'
    BY <1>1, <1>2 DEF IInv, TypeOK, BBSTypeOK, RequestStopLRPInstance
  <1>4. toStop' \in [Workers -> SUBSET Guids] /\ \A v \in Workers : toStop'[v] \subseteq toStop[v]
    BY <1>1 DEF IInv, TypeOK
  <1>5. TypeOK'
    BY <1>1, <1>3, <1>4 DEF IInv, TypeOK, CountTimeout, feedVars
  <1>6. WgCounts' /\ NobodyLeft'
    BY <1>1, BusySame DEF IInv, NobodyLeft, Busy
  <1>7. AuctionReady' /\ StopsKnown' /\ NothingToStop'
    BY <1>1, <1>4 DEF IInv, AuctionReady, StopsKnown, NothingToStop
  <1>8. StopsOnlyWhenCovered'
    BY <1>1, <1>4 DEF IInv, StopsOnlyWhenCovered, hasIndex
  <1> QED BY <1>5, <1>6, <1>7, <1>8 DEF IInv

LEMMA RequestStopAuctionStep ==
    ASSUME IInv, NEW w \in Workers, NEW o \in Outcomes, RequestStopAuction(w, o)
    PROVE  IInv'
  <1> DEFINE i == First(toStopAllButOne[w])
             s == [process |-> change[w].process, index |-> i]
  <1>1. /\ toStopAllButOne[w] # {}
        /\ RequestLRPStopAuction(s, o)
        /\ CountTimeout(o)
        /\ \/ toStopAllButOne' = toStopAllButOne
           \/ toStopAllButOne' = [toStopAllButOne EXCEPT ![w] = @ \ {i}]
        /\ UNCHANGED <<feedVars, phase, wg, pc, change, snapshot, toStart, toStop,
                       guid, late, used, restarts, clean>>
    BY DEF RequestStopAuction
  <1>2. s \in LRPStopAuction
    <2>1. toStopAllButOne[w] \subseteq Indices /\ change[w] \in Change
      BY DEF IInv, TypeOK
    <2>2. Indices \subseteq Nat
      BY MaxInstancesAssumption DEF Indices
    <2>3. i \in Indices
      BY <1>1, <2>1, <2>2, FirstIn
    <2> QED BY <2>1, <2>3 DEF Change, LRPStopAuction
  <1> HIDE DEF i, s
  <1>3. BBSTypeOK'
    BY <1>1, <1>2 DEF IInv, TypeOK, BBSTypeOK, RequestLRPStopAuction
  <1>4. /\ toStopAllButOne' \in [Workers -> SUBSET Indices]
        /\ \A v \in Workers : toStopAllButOne'[v] \subseteq toStopAllButOne[v]
    BY <1>1 DEF IInv, TypeOK
  <1>5. TypeOK'
    BY <1>1, <1>3, <1>4 DEF IInv, TypeOK, CountTimeout, feedVars
  <1>6. WgCounts' /\ NobodyLeft'
    BY <1>1, BusySame DEF IInv, NobodyLeft, Busy
  <1>7. AuctionReady' /\ StopsKnown' /\ NothingToStop'
    BY <1>1, <1>4 DEF IInv, AuctionReady, StopsKnown, NothingToStop
  <1>8. StopsOnlyWhenCovered'
    BY <1>1, <1>4 DEF IInv, StopsOnlyWhenCovered, hasIndex
  <1> QED BY <1>5, <1>6, <1>7, <1>8 DEF IInv

\* Steps of Run that touch neither the store nor a goroutine.
LEMMA RunStep ==
    ASSUME IInv, Watch \/ WatchLoses \/ ShutDown \/ Return \/ Restart
    PROVE  IInv'
  <1> USE DEF bbsVars, feedVars, jobVars, boundVars
  <1>1. /\ UNCHANGED <<bbsVars, wg, jobVars, used, timeouts>>
        /\ restarts' \in Nat
        /\ phase' \in {"running", "draining", "exited"}
        /\ phase' = "exited" => wg = 0
    BY DEF IInv, TypeOK, Watch, WatchLoses, ShutDown, Return, Restart
  <1>2. clean' \in [Processes -> BOOLEAN]
    BY SpoilType DEF IInv, TypeOK, Watch, WatchLoses, ShutDown, Return, Restart
  <1>3. feed' \in Seq(Change) /\ up' \in BOOLEAN
    <2>1. CASE Watch \/ Return \/ Restart
      BY <2>1 DEF IInv, TypeOK, Watch, Return, Restart, Connect
    <2>2. CASE WatchLoses
      <3>1. PICK kept \in 0 .. Len(feed) : Lose(kept)
        BY <2>2 DEF WatchLoses
      <3>2. feed \in Seq(Change)
        BY DEF IInv, TypeOK
      <3>3. \A k \in 1 .. kept : feed[k] \in Change
        BY <3>2
      <3>4. SubSeq(feed, 1, kept) \in Seq(Change)
        BY <3>2, <3>3
      <3> QED BY <3>1, <3>4 DEF Lose
    <2>3. CASE ShutDown
      BY <2>3, IdleType DEF ShutDown, Abandon
    <2> QED BY <2>1, <2>2, <2>3
  <1>4. TypeOK'
    BY <1>1, <1>2, <1>3 DEF IInv, TypeOK, BBSTypeOK
  <1>5. WgCounts'
    BY <1>1, BusySame DEF IInv, Busy
  <1>6. NobodyLeft'
    <2>1. wg = 0 => {w \in Workers : Busy(w)} = {}
      BY BusyFinite, FS_EmptySet DEF IInv, WgCounts
    <2>2. wg = 0 => \A w \in Workers : ~ Busy(w)
      BY <2>1
    <2> QED BY <1>1, <2>2 DEF NobodyLeft, Busy
  <1>7. AuctionReady' /\ StopsKnown' /\ NothingToStop'
    BY <1>1 DEF IInv, AuctionReady, StopsKnown, NothingToStop
  <1>8. StopsOnlyWhenCovered'
    BY <1>1 DEF IInv, StopsOnlyWhenCovered, hasIndex
  <1> QED BY <1>4, <1>5, <1>6, <1>7, <1>8 DEF IInv

\* A write of a desired LRP and its announcement to the watcher.
LEMMA AnnounceStep ==
    ASSUME IInv, NEW p \in Processes, NEW n \in Counts, NEW m \in Counts,
           NEW present \in BOOLEAN, NEW kind \in {"set", "delete", "nil"},
           WriteDesired(p, present, n), Announce(kind, p, m)
    PROVE  IInv'
  <1> DEFINE c == [kind |-> kind, process |-> p, instances |-> m,
                   index |-> modifiedIndex + 1]
             d == [present |-> present, instances |-> n, index |-> modifiedIndex + 1]
  <1>1. modifiedIndex + 1 \in Nat
    BY DEF IInv, TypeOK, BBSTypeOK
  <1>2. c \in Change /\ d \in DesiredLRP
    BY <1>1 DEF Change, DesiredLRP
  <1>3. /\ Publish(c)
        /\ Spoil(IF up THEN {} ELSE {p})
        /\ UNCHANGED handlerVars
    BY DEF Announce
  <1>4. /\ modifiedIndex' = modifiedIndex + 1
        /\ desired' = [desired EXCEPT ![p] = d]
        /\ UNCHANGED <<actual, startAuctions, stopAuctions, stopInstances>>
    BY DEF WriteDesired
  <1> HIDE DEF c, d
  <1>5. BBSTypeOK'
    BY <1>1, <1>2, <1>4 DEF IInv, TypeOK, BBSTypeOK
  <1>6. feed' \in Seq(Change) /\ up' \in BOOLEAN
    BY <1>2, <1>3 DEF IInv, TypeOK, Publish
  <1>7. clean' \in [Processes -> BOOLEAN]
    BY <1>3, SpoilType
  <1> QED BY <1>3, <1>5, <1>6, <1>7, EnvironmentStep

\* Writes of the auctioneers and the cells.
LEMMA PeerStep ==
    ASSUME IInv,
           \/ \E a \in startAuctions : CellReports(a) \/ AuctionEnds(a)
           \/ \E a \in actual : InstanceEnds(a)
           \/ \E a \in stopInstances : StopRequestEnds(a)
           \/ \E s \in stopAuctions : StopAuctionEnds(s)
    PROVE  IInv'
  <1>1. feed \in Seq(Change) /\ up \in BOOLEAN /\ BBSTypeOK
        /\ clean \in [Processes -> BOOLEAN]
    BY DEF IInv, TypeOK
  <1>2. ASSUME NEW a \in startAuctions, CellReports(a)
        PROVE  IInv'
    <2>1. [process |-> a.process, index |-> a.index, instance |-> a.instance] \in ActualLRP
      BY <1>1 DEF BBSTypeOK, LRPStartAuction, ActualLRP
    <2>2. BBSTypeOK'
      BY <1>1, <1>2, <2>1 DEF CellReports, ReportActualLRPAsStarting, BBSTypeOK
    <2> QED BY <1>1, <1>2, <2>2, EnvironmentStep DEF CellReports, feedVars
  <1>3. ASSUME NEW a \in startAuctions, AuctionEnds(a)
        PROVE  IInv'
    <2>1. BBSTypeOK'
      BY <1>1, <1>3 DEF AuctionEnds, ResolveLRPStartAuction, BBSTypeOK
    <2>2. clean' \in [Processes -> BOOLEAN]
      BY <1>3, SpoilType DEF AuctionEnds
    <2> QED BY <1>1, <1>3, <2>1, <2>2, EnvironmentStep DEF AuctionEnds, feedVars
  <1>4. ASSUME NEW a \in actual, InstanceEnds(a)
        PROVE  IInv'
    <2>1. BBSTypeOK'
      BY <1>1, <1>4 DEF InstanceEnds, RemoveActualLRP, BBSTypeOK
    <2>2. clean' \in [Processes -> BOOLEAN]
      BY <1>4, SpoilType DEF InstanceEnds
    <2> QED BY <1>1, <1>4, <2>1, <2>2, EnvironmentStep DEF InstanceEnds, feedVars
  <1>5. ASSUME NEW a \in stopInstances, StopRequestEnds(a)
        PROVE  IInv'
    <2>1. BBSTypeOK'
      BY <1>1, <1>5 DEF StopRequestEnds, ResolveStopLRPInstance, BBSTypeOK
    <2> QED BY <1>1, <1>5, <2>1, EnvironmentStep DEF StopRequestEnds, feedVars
  <1>6. ASSUME NEW s \in stopAuctions, StopAuctionEnds(s)
        PROVE  IInv'
    <2>1. \E keep : ResolveLRPStopAuction(s, keep)
      BY <1>6 DEF StopAuctionEnds
    <2>2. BBSTypeOK'
      BY <1>1, <2>1 DEF ResolveLRPStopAuction, BBSTypeOK
    <2> QED BY <1>1, <1>6, <2>2, EnvironmentStep DEF StopAuctionEnds, feedVars
  <1> QED BY <1>2, <1>3, <1>4, <1>5, <1>6

LEMMA EnvironmentIInv ==
    ASSUME IInv, Environment
    PROVE  IInv'
  <1>1. \A p \in Processes : desired[p].instances \in Counts
    BY DEF IInv, TypeOK, BBSTypeOK, DesiredLRP
  <1>2. 0 \in Counts
    BY MaxInstancesAssumption DEF Counts
  <1>3. ASSUME NEW p \in Processes, NEW n \in Counts, ClientDesires(p, n)
        PROVE  IInv'
    BY <1>3, AnnounceStep DEF ClientDesires, DesireLRP
  <1>4. ASSUME NEW p \in Processes, ClientRemoves(p)
        PROVE  IInv'
    BY <1>1, <1>2, <1>4, AnnounceStep DEF ClientRemoves, RemoveDesiredLRPByProcessGuid
  <1>5. ASSUME NEW p \in Processes, ClientDeletes(p)
        PROVE  IInv'
    BY <1>2, <1>5, AnnounceStep DEF ClientDeletes, ChangeDesiredLRP
  <1>6. CASE WatchLoses \/ Restart
    BY <1>6, RunStep
  <1>7. CASE Kill
    BY <1>7, GoneStep DEF Kill
  <1> QED BY <1>3, <1>4, <1>5, <1>6, <1>7, PeerStep DEF Environment

LEMMA ProcessIInv ==
    ASSUME IInv, NEW w \in Workers, processDesiredChange(w)
    PROVE  IInv'
  <1>1. CASE DereferenceNil(w)
    BY <1>1, GoneStep DEF DereferenceNil
  <1>2. CASE FetchFails(w)
    <2>1. Busy(w) /\ clean' \in [Processes -> BOOLEAN]
      BY <1>2, SpoilType DEF FetchFails, Busy
    <2> QED BY <1>2, <2>1, EndStep DEF FetchFails
  <1>3. CASE StartAborted(w)
    <2>1. Busy(w) /\ clean' \in [Processes -> BOOLEAN]
      BY <1>3, SpoilType DEF StartAborted, Busy
    <2> QED BY <1>3, <2>1, EndStep DEF StartAborted
  <1>4. CASE Finish(w)
    <2>1. Busy(w) /\ clean' \in [Processes -> BOOLEAN]
      BY <1>4 DEF Finish, Busy, IInv, TypeOK
    <2> QED BY <1>4, <2>1, EndStep DEF Finish
  <1> QED BY <1>1, <1>2, <1>3, <1>4, FetchActualsStep, PrepareStartStep,
             RequestStartStep, RequestStopStep, RequestStopAuctionStep
          DEF processDesiredChange

\* The invariant is inductive.
LEMMA IInvStep == IInv /\ [Next]_vars => IInv'
  <1> SUFFICES ASSUME IInv, [Next]_vars PROVE IInv'
    OBVIOUS
  <1>1. CASE Run
    BY <1>1, RunStep, ReceiveStep DEF Run
  <1>2. CASE \E w \in Workers : processDesiredChange(w)
    BY <1>2, ProcessIInv
  <1>3. CASE Environment
    BY <1>3, EnvironmentIInv
  <1>4. CASE UNCHANGED vars
    BY <1>4, EnvironmentStep
    DEF vars, handlerVars, bbsVars, feedVars, IInv, TypeOK, BBSTypeOK
  <1> QED BY <1>1, <1>2, <1>3, <1>4 DEF Next

-----------------------------------------------------------------------------
LEMMA SpecIInv == Spec => []IInv
  BY InitIInv, IInvStep, PTL DEF Spec

\* The variables of Run, of the goroutines (processDesiredChange) and of the
\* bulletin board keep their types.
THEOREM HandlerTypeCorrect == Spec => []TypeOK
  <1>1. IInv => TypeOK
    BY DEF IInv
  <1> QED BY <1>1, SpecIInv, PTL

\* Run returns only after every goroutine of processDesiredChange has called
\* wg.Done, whichever way out it took.
THEOREM ShutdownDrains == Spec => []DrainedOnExit
  <1>1. IInv => DrainedOnExit
    BY DEF IInv, NobodyLeft, DrainedOnExit
  <1> QED BY <1>1, SpecIInv, PTL

\* Requests to stop instances come only from a goroutine that saw an instance
\* at every index its change desires: the early return of Reconcile survives
\* the retries and the errors of the requests that processDesiredChange makes.
THEOREM StopsCovered == Spec => []StopsOnlyWhenCovered
  <1>1. IInv => StopsOnlyWhenCovered
    BY DEF IInv
  <1> QED BY <1>1, SpecIInv, PTL

-----------------------------------------------------------------------------
(* Guids.  Whatever was once called by a guid, in the store, in what a     *)
(* goroutine has seen, or in what it is about to request, goes on to be    *)
(* called so: a step makes no new name, except that uuid.NewV4 draws one.  *)

Name(a) == <<a.instance, a.process, a.index>>
Drawing(w) == pc[w] = "auction"
Drawn(w) == <<guid[w], change[w].process, First(toStart[w])>>
Stored == startAuctions \cup actual \cup stopInstances

Named ==
    {Name(a) : a \in Stored}
    \cup {Name(a) : a \in UNION {snapshot[w] : w \in Workers}}
    \cup {Drawn(w) : w \in {v \in Workers : Drawing(v)}}

OneNameEach ==
    /\ \A s, t \in Named : s[1] = t[1] => s = t
    /\ \A t \in Named : t[1] \in used

\* A guid is drawn for one request, and unknown to the others until an attempt
\* of the request is applied.
Unsent ==
    \A w \in Workers : Drawing(w) =>
        /\ ~ late[w] => \A a \in startAuctions \cup actual : a.instance # guid[w]
        /\ \A v \in Workers \ {w} : Drawing(v) => guid[v] # guid[w]

GuidsOK == OneNameEach /\ Unsent

LEMMA NamesIn ==
    /\ \A a \in Stored : Name(a) \in Named
    /\ \A w \in Workers : \A a \in snapshot[w] : Name(a) \in Named
    /\ \A w \in Workers : Drawing(w) => Drawn(w) \in Named
  BY DEF Named

LEMMA NamesUsed ==
    ASSUME OneNameEach
    PROVE  /\ \A a \in Stored : a.instance \in used
           /\ \A w \in Workers : Drawing(w) => guid[w] \in used
  <1>1. \A a \in Stored : Name(a)[1] \in used
    BY NamesIn DEF OneNameEach
  <1>2. \A w \in Workers : Drawing(w) => Drawn(w)[1] \in used
    BY NamesIn DEF OneNameEach
  <1> QED BY <1>1, <1>2 DEF Name, Drawn

\* A step that makes no name.
LEMMA NamesKept ==
    ASSUME OneNameEach, used \subseteq used',
           \A a \in Stored' : Name(a) \in Named,
           \A w \in Workers : snapshot'[w] \subseteq snapshot[w] \cup actual,
           \A w \in Workers : Drawing(w)' => Drawing(w) /\ Drawn(w)' = Drawn(w)
    PROVE  OneNameEach'
  <1>1. Named' \subseteq Named
    <2> SUFFICES ASSUME NEW t \in Named' PROVE t \in Named
      OBVIOUS
    <2>1. CASE \E a \in Stored' : t = Name(a)
      BY <2>1
    <2>2. CASE \E w \in Workers : \E a \in snapshot'[w] : t = Name(a)
      <3>1. PICK w \in Workers : \E a \in snapshot'[w] : t = Name(a)
        BY <2>2
      <3>2. PICK a \in snapshot'[w] : t = Name(a)
        BY <3>1
      <3>3. a \in snapshot[w] \/ a \in Stored
        BY <3>2 DEF Stored
      <3> QED BY <3>2, <3>3, NamesIn
    <2>3. CASE \E w \in Workers : Drawing(w)' /\ t = Drawn(w)'
      BY <2>3, NamesIn
    <2>4. \/ \E a \in Stored' : t = Name(a)
          \/ \E w \in Workers : \E a \in snapshot'[w] : t = Name(a)
          \/ \E w \in Workers : Drawing(w)' /\ t = Drawn(w)'
      BY DEF Named, Name
    <2> QED BY <2>1, <2>2, <2>3, <2>4
  <1> QED BY <1>1 DEF OneNameEach

LEMMA GuidsInit == Init => GuidsOK
  <1> SUFFICES ASSUME Init PROVE GuidsOK
    OBVIOUS
  <1> USE DEF Init, BBSInit, JobsInit
  <1>1. \A w \in Workers : ~ Drawing(w) /\ snapshot[w] = {}
    BY DEF Drawing
  <1>2. \A a, b \in actual : a.instance = b.instance => a = b
    BY LeftoversAssumption
  <1>3. Named = {Name(a) : a \in actual}
    BY <1>1 DEF Named, Stored
  <1>4. OneNameEach
    BY <1>2, <1>3 DEF OneNameEach, Name
  <1> QED BY <1>1, <1>4 DEF GuidsOK, Unsent

\* Steps of the others, and of Run, that leave the goroutines alone.
LEMMA GuidsLeft ==
    ASSUME GuidsOK, UNCHANGED <<pc, change, snapshot, toStart, guid, late, used>>,
           startAuctions' \subseteq startAuctions, stopInstances' \subseteq stopInstances,
           \A a \in actual' : a \in actual \/ \E b \in startAuctions : Name(b) = Name(a)
    PROVE  GuidsOK'
  <1>1. \A a \in Stored' : Name(a) \in Named
    <2> SUFFICES ASSUME NEW a \in Stored' PROVE Name(a) \in Named
      OBVIOUS
    <2>1. a \in Stored \/ \E b \in startAuctions : Name(b) = Name(a)
      BY DEF Stored
    <2> QED BY <2>1, NamesIn DEF Stored
  <1>2. OneNameEach'
    BY <1>1, NamesKept DEF GuidsOK, Drawing, Drawn
  <1>3. \A a \in (startAuctions \cup actual)' :
            \E b \in startAuctions \cup actual : b.instance = a.instance
    BY DEF Name
  <1>4. Unsent'
    BY <1>3 DEF GuidsOK, Unsent, Drawing
  <1> QED BY <1>2, <1>4 DEF GuidsOK

\* A goroutine w goes on without a guid: the others and the store stay.
LEMMA GuidsOfOthers ==
    ASSUME GuidsOK, NEW w \in Workers, UNCHANGED <<startAuctions, actual, used>>,
           \A a \in stopInstances' : Name(a) \in Named,
           snapshot'[w] \subseteq snapshot[w] \cup actual, ~ Drawing(w)',
           \A v \in Workers \ {w} :
                /\ pc'[v] = pc[v] /\ change'[v] = change[v] /\ snapshot'[v] = snapshot[v]
                /\ toStart'[v] = toStart[v] /\ guid'[v] = guid[v] /\ late'[v] = late[v]
    PROVE  GuidsOK'
  <1>1. \A a \in Stored' : Name(a) \in Named
    BY NamesIn DEF Stored
  <1>2. \A v \in Workers : Drawing(v)' => Drawing(v) /\ Drawn(v)' = Drawn(v)
    BY DEF Drawing, Drawn
  <1>3. OneNameEach'
    BY <1>1, <1>2, NamesKept DEF GuidsOK
  <1>4. Unsent'
    BY DEF GuidsOK, Unsent, Drawing
  <1> QED BY <1>3, <1>4 DEF GuidsOK

LEMMA GuidsGone ==
    ASSUME GuidsOK, NEW how, Gone(how), UNCHANGED <<bbsVars, used, boundVars>>
    PROVE  GuidsOK'
  <1>1. \A w \in Workers : ~ Drawing(w)' /\ snapshot'[w] = {}
    BY DEF Gone, Drawing
  <1>2. Stored' = Stored /\ used' = used
    BY DEF Stored, bbsVars
  <1>3. OneNameEach'
    BY <1>1, <1>2, NamesIn, NamesKept DEF GuidsOK
  <1> QED BY <1>1, <1>3 DEF GuidsOK, Unsent

\* uuid.NewV4: a name for a guid that nothing is called by.
LEMMA GuidsDraw ==
    ASSUME IInv, GuidsOK, NEW w \in Workers, NEW g \in Guids, PrepareStart(w, g)
    PROVE  GuidsOK'
  <1> DEFINE new == <<g, change[w].process, First(toStart[w])>>
  <1>1. /\ pc' = [pc EXCEPT ![w] = "auction"] /\ guid' = [guid EXCEPT ![w] = g]
        /\ g \notin used /\ used' = used \cup {g}
        /\ UNCHANGED <<startAuctions, actual, stopInstances, change, snapshot, toStart, late>>
    BY DEF PrepareStart, bbsVars
  <1>2. ASSUME NEW v \in Workers, Drawing(v)'
        PROVE  (Drawing(v) /\ Drawn(v)' = Drawn(v)) \/ Drawn(v)' = new
    <2>1. CASE v = w
      BY <1>1, <2>1 DEF IInv, TypeOK, Drawn
    <2>2. CASE v # w
      BY <1>1, <1>2, <2>2 DEF IInv, TypeOK, Drawing, Drawn
    <2> QED BY <2>1, <2>2
  <1>3. Named' \subseteq Named \cup {new}
    <2> SUFFICES ASSUME NEW t \in Named' PROVE t \in Named \cup {new}
      OBVIOUS
    <2>1. \/ \E a \in Stored : t = Name(a)
          \/ \E v \in Workers : \E a \in snapshot[v] : t = Name(a)
          \/ \E v \in Workers : Drawing(v)' /\ t = Drawn(v)'
      BY <1>1 DEF Named, Name, Stored
    <2> QED BY <1>2, <2>1, NamesIn
  <1>4. new[1] = g /\ \A t \in Named : t[1] \in used
    BY DEF GuidsOK, OneNameEach
  <1> HIDE DEF new
  <1>5. OneNameEach'
    BY <1>1, <1>3, <1>4 DEF GuidsOK, OneNameEach
  <1>6. /\ \A a \in startAuctions \cup actual : a.instance # g
        /\ \A v \in Workers : Drawing(v) => guid[v] # g
    BY <1>1, NamesUsed DEF GuidsOK, Stored
  <1>7. Unsent'
    BY <1>1, <1>6 DEF GuidsOK, Unsent, Drawing, IInv, TypeOK
  <1> QED BY <1>5, <1>7 DEF GuidsOK

LEMMA GuidsRequest ==
    ASSUME IInv, GuidsOK, NEW w \in Workers, NEW o \in Outcomes, RequestStart(w, o)
    PROVE  GuidsOK'
  <1> DEFINE m == [process |-> change[w].process, index |-> First(toStart[w]),
                   instance |-> guid[w], of |-> change[w].index]
  <1>1. /\ Drawing(w)
        /\ startAuctions' = IF Applied(o) THEN startAuctions \cup {m} ELSE startAuctions
        /\ UNCHANGED <<actual, stopInstances, change, snapshot, used>>
        /\ \A v \in Workers \ {w} :
             /\ pc'[v] = pc[v] /\ toStart'[v] = toStart[v] /\ guid'[v] = guid[v] /\ late'[v] = late[v]
        /\ \/ /\ IsTimeout(o) /\ pc'[w] = "auction" /\ guid'[w] = guid[w] /\ toStart'[w] = toStart[w]
              /\ late'[w] = (late[w] \/ o = "late")
           \/ pc'[w] = "act"
    BY DEF RequestStart, RequestLRPStartAuction, IInv, TypeOK, Drawing
  <1>2. Name(m) = Drawn(w) /\ m.instance = guid[w]
    BY DEF Name, Drawn
  <1> HIDE DEF m
  <1>3. \A v \in Workers : Drawing(v)' => Drawing(v) /\ Drawn(v)' = Drawn(v)
    BY <1>1 DEF Drawing, Drawn
  <1>4. \A a \in Stored' : Name(a) \in Named
    <2> SUFFICES ASSUME NEW a \in Stored' PROVE Name(a) \in Named
      OBVIOUS
    <2>1. a \in Stored \/ a = m
      BY <1>1 DEF Stored
    <2> QED BY <1>1, <1>2, <2>1, NamesIn
  <1>5. OneNameEach'
    BY <1>1, <1>3, <1>4, NamesKept DEF GuidsOK
  <1>6. ASSUME NEW v \in Workers, Drawing(v)', ~ late'[v], NEW a \in (startAuctions \cup actual)'
        PROVE  a.instance # guid'[v]
    <2>1. CASE v # w
      BY <1>1, <1>2, <1>6, <2>1 DEF GuidsOK, Unsent, Drawing
    <2>2. CASE v = w
      <3>1. o = "timeout" /\ ~ late[w]
        BY <1>1, <1>6, <2>2 DEF Drawing, IsTimeout
      <3> QED BY <1>1, <2>2, <3>1, <1>6 DEF GuidsOK, Unsent, Applied, Drawing
    <2> QED BY <2>1, <2>2
  <1>7. Unsent'
    BY <1>1, <1>6 DEF GuidsOK, Unsent, Drawing
  <1> QED BY <1>5, <1>7 DEF GuidsOK

LEMMA GuidsProcess ==
    ASSUME IInv, GuidsOK, NEW w \in Workers, processDesiredChange(w)
    PROVE  GuidsOK'
  <1>1. CASE DereferenceNil(w)
    BY <1>1, GuidsGone DEF DereferenceNil
  <1>2. CASE FetchActuals(w)
    <2>1. actualsForProcessGuid(change[w].process) \subseteq actual
      BY DEF actualsForProcessGuid, GetActualLRPsByProcessGuid
    <2>2. /\ UNCHANGED <<startAuctions, actual, stopInstances, used>>
          /\ snapshot'[w] \subseteq actual /\ pc'[w] = "act"
          /\ \A v \in Workers \ {w} :
                /\ pc'[v] = pc[v] /\ change'[v] = change[v] /\ snapshot'[v] = snapshot[v]
                /\ toStart'[v] = toStart[v] /\ guid'[v] = guid[v] /\ late'[v] = late[v]
      BY <1>2, <2>1 DEF FetchActuals, IInv, TypeOK, bbsVars
    <2> QED BY <2>2, NamesIn, GuidsOfOthers DEF Drawing, Stored
  <1>3. CASE FetchFails(w) \/ StartAborted(w) \/ Finish(w)
    <2>1. /\ UNCHANGED <<startAuctions, actual, stopInstances, used>>
          /\ snapshot'[w] = {} /\ pc'[w] = "idle"
          /\ \A v \in Workers \ {w} :
                /\ pc'[v] = pc[v] /\ change'[v] = change[v] /\ snapshot'[v] = snapshot[v]
                /\ toStart'[v] = toStart[v] /\ guid'[v] = guid[v] /\ late'[v] = late[v]
      BY <1>3 DEF FetchFails, StartAborted, Finish, End, IInv, TypeOK, bbsVars
    <2> QED BY <2>1, NamesIn, GuidsOfOthers DEF Drawing, Stored
  <1>4. ASSUME NEW o \in Outcomes, NEW g \in Guids, RequestStop(w, g, o) PROVE GuidsOK'
    <2> DEFINE a == CHOOSE x \in snapshot[w] : x.instance = g
    <2>1. a \in snapshot[w]
      BY <1>4 DEF RequestStop, IInv, StopsKnown
    <2> HIDE DEF a
    <2>2. /\ stopInstances' \subseteq stopInstances \cup {a} /\ pc[w] = "act"
          /\ UNCHANGED <<startAuctions, actual, used, pc, change, snapshot, toStart, guid, late>>
      BY <1>4 DEF RequestStop, RequestStopLRPInstance, a
    <2>3. \A x \in stopInstances' : Name(x) \in Named
      BY <2>1, <2>2, NamesIn DEF Stored
    <2> QED BY <2>2, <2>3, GuidsOfOthers DEF Drawing
  <1>5. ASSUME NEW o \in Outcomes, RequestStopAuction(w, o) PROVE GuidsOK'
    BY <1>5, GuidsLeft DEF RequestStopAuction, RequestLRPStopAuction
  <1> QED BY <1>1, <1>2, <1>3, <1>4, <1>5, GuidsDraw, GuidsRequest DEF processDesiredChange

LEMMA GuidsStep == IInv /\ GuidsOK /\ [Next]_vars => GuidsOK'
  <1> SUFFICES ASSUME IInv, GuidsOK, [Next]_vars PROVE GuidsOK'
    OBVIOUS
  <1> USE DEF bbsVars, feedVars, jobVars, boundVars, handlerVars
  <1>1. ASSUME NEW w \in Workers, Receive(w) PROVE GuidsOK'
    <2>1. /\ UNCHANGED <<startAuctions, actual, stopInstances, used>>
          /\ snapshot'[w] = snapshot[w] /\ pc'[w] = "fetch"
          /\ \A v \in Workers \ {w} :
                /\ pc'[v] = pc[v] /\ change'[v] = change[v] /\ snapshot'[v] = snapshot[v]
                /\ toStart'[v] = toStart[v] /\ guid'[v] = guid[v] /\ late'[v] = late[v]
      BY <1>1 DEF Receive, IInv, TypeOK
    <2> QED BY <2>1, NamesIn, GuidsOfOthers DEF Drawing, Stored
  <1>2. CASE Watch \/ ShutDown \/ Return \/ WatchLoses \/ Restart \/ UNCHANGED vars
    BY <1>2, GuidsLeft DEF Watch, ShutDown, Return, WatchLoses, Restart, vars
  <1>3. CASE \E w \in Workers : processDesiredChange(w)
    BY <1>3, GuidsProcess
  <1>4. CASE Kill
    BY <1>4, GuidsGone DEF Kill
  <1>5. ASSUME NEW p, NEW n, NEW m, NEW present, NEW kind,
               WriteDesired(p, present, n), Announce(kind, p, m)
        PROVE  GuidsOK'
    BY <1>5, GuidsLeft DEF WriteDesired, Announce
  <1>6. ASSUME NEW a \in startAuctions, CellReports(a) PROVE GuidsOK'
    <2> DEFINE b == [process |-> a.process, index |-> a.index, instance |-> a.instance]
    <2>1. Name(b) = Name(a)
      BY DEF Name
    <2> HIDE DEF b
    <2>2. /\ actual' = actual \cup {b}
          /\ UNCHANGED <<startAuctions, stopInstances, pc, change, snapshot, toStart, guid, late, used>>
      BY <1>6 DEF CellReports, ReportActualLRPAsStarting, b
    <2> QED BY <2>1, <2>2, GuidsLeft
  <1>7. CASE \/ \E a \in startAuctions : AuctionEnds(a)
             \/ \E a \in actual : InstanceEnds(a)
             \/ \E a \in stopInstances : StopRequestEnds(a)
             \/ \E s \in stopAuctions : StopAuctionEnds(s)
    BY <1>7, GuidsLeft DEF AuctionEnds, ResolveLRPStartAuction, InstanceEnds, RemoveActualLRP,
       StopRequestEnds, ResolveStopLRPInstance, StopAuctionEnds, ResolveLRPStopAuction
  <1>8. CASE \/ \E p \in Processes, n \in Counts : ClientDesires(p, n)
             \/ \E p \in Processes : ClientRemoves(p) \/ ClientDeletes(p)
    BY <1>5, <1>8 DEF ClientDesires, DesireLRP, ClientRemoves, RemoveDesiredLRPByProcessGuid,
                      ClientDeletes, ChangeDesiredLRP
  <1> QED BY <1>1, <1>2, <1>3, <1>4, <1>6, <1>7, <1>8 DEF Next, Run, Environment

LEMMA SpecGuids == Spec => []GuidsOK
  BY GuidsInit, GuidsStep, SpecIInv, PTL DEF Spec

\* A guid stands for one index of one process, whatever goroutines, retries
\* and restarts do.
THEOREM GuidsNameOneIndex == Spec => []GuidNamesOneIndex
  <1>1. GuidsOK => GuidNamesOneIndex
    <2> SUFFICES ASSUME GuidsOK, NEW a \in Carriers, NEW b \in Carriers, a.instance = b.instance
                 PROVE  a.process = b.process /\ a.index = b.index
      BY DEF GuidNamesOneIndex
    <2>1. ASSUME NEW c \in Carriers PROVE Name(c) \in Named
      <3>1. CASE c \in Stored
        BY <3>1, NamesIn
      <3>2. CASE \E w \in Workers : Drawing(w) /\ c = [process |-> change[w].process,
                                       index |-> First(toStart[w]), instance |-> guid[w]]
        <4>1. PICK w \in Workers : Drawing(w) /\ c = [process |-> change[w].process,
                                       index |-> First(toStart[w]), instance |-> guid[w]]
          BY <3>2
        <4>2. Name(c) = Drawn(w)
          BY <4>1 DEF Name, Drawn
        <4> QED BY <4>1, <4>2, NamesIn
      <3> QED BY <3>1, <3>2 DEF Carriers, Stored, Drawing
    <2>2. Name(a)[1] = a.instance /\ Name(b)[1] = b.instance
      BY DEF Name
    <2>3. Name(a) = Name(b)
      BY <2>1, <2>2 DEF GuidsOK, OneNameEach
    <2> QED BY <2>3 DEF Name
  <1> QED BY <1>1, SpecGuids, PTL

-----------------------------------------------------------------------------
(* Who writes what.                                                        *)

StartMessage(w) == [process |-> change[w].process, index |-> First(toStart[w]),
                    instance |-> guid[w], of |-> change[w].index]

\* Start auctions, stop auctions and requests to stop an instance are made by
\* goroutines of processDesiredChange alone.
LEMMA Writers ==
    ASSUME IInv, [Next]_vars
    PROVE  /\ \A a \in startAuctions' \ startAuctions :
                 \E w \in Workers : pc[w] = "auction" /\ a = StartMessage(w)
           /\ \A s \in stopAuctions' \ stopAuctions :
                 \E w \in Workers : /\ pc[w] = "act" /\ toStopAllButOne[w] # {}
                                    /\ s = [process |-> change[w].process,
                                            index |-> First(toStopAllButOne[w])]
           /\ \A a \in stopInstances' \ stopInstances :
                 \E w \in Workers : pc[w] = "act" /\ a \in snapshot[w] /\ a.instance \in toStop[w]
  <1> DEFINE Stays == /\ startAuctions' \subseteq startAuctions
                      /\ stopAuctions' \subseteq stopAuctions
                      /\ stopInstances' \subseteq stopInstances
  <1>1. CASE Run \/ WatchLoses \/ Kill \/ Restart \/ UNCHANGED vars
    <2>1. Stays
      BY <1>1 DEF Run, Watch, ShutDown, Return, Receive, WatchLoses, Kill, Restart, vars, bbsVars
    <2> QED BY <2>1
  <1>2. CASE \/ \E p \in Processes, n \in Counts : ClientDesires(p, n)
             \/ \E p \in Processes : ClientRemoves(p) \/ ClientDeletes(p)
    <2>1. Stays
      BY <1>2 DEF ClientDesires, DesireLRP, ClientRemoves, RemoveDesiredLRPByProcessGuid,
                  ClientDeletes, ChangeDesiredLRP, WriteDesired
    <2> QED BY <2>1
  <1>3. CASE \/ \E a \in startAuctions : CellReports(a) \/ AuctionEnds(a)
             \/ \E a \in actual : InstanceEnds(a)
             \/ \E a \in stopInstances : StopRequestEnds(a)
             \/ \E s \in stopAuctions : StopAuctionEnds(s)
    <2>1. Stays
      BY <1>3 DEF CellReports, ReportActualLRPAsStarting, AuctionEnds, ResolveLRPStartAuction,
         InstanceEnds, RemoveActualLRP, StopRequestEnds, ResolveStopLRPInstance, StopAuctionEnds,
         ResolveLRPStopAuction
    <2> QED BY <2>1
  <1>4. ASSUME NEW w \in Workers,
               \/ DereferenceNil(w) \/ FetchActuals(w) \/ FetchFails(w) \/ StartAborted(w) \/ Finish(w)
               \/ \E g \in Guids : PrepareStart(w, g)
        PROVE  Stays
    BY <1>4 DEF DereferenceNil, FetchActuals, FetchFails, StartAborted, Finish, PrepareStart, bbsVars
  <1>5. ASSUME NEW w \in Workers, NEW o \in Outcomes, RequestStart(w, o)
        PROVE  /\ startAuctions' \subseteq startAuctions \cup {StartMessage(w)} /\ pc[w] = "auction"
               /\ UNCHANGED <<stopAuctions, stopInstances>>
    BY <1>5 DEF RequestStart, RequestLRPStartAuction, StartMessage
  <1>6. ASSUME NEW w \in Workers, NEW o \in Outcomes, RequestStopAuction(w, o)
        PROVE  /\ stopAuctions' \subseteq stopAuctions \cup {[process |-> change[w].process,
                                                     index |-> First(toStopAllButOne[w])]}
               /\ pc[w] = "act" /\ toStopAllButOne[w] # {}
               /\ UNCHANGED <<startAuctions, stopInstances>>
    BY <1>6 DEF RequestStopAuction, RequestLRPStopAuction
  <1>7. ASSUME NEW w \in Workers, NEW o \in Outcomes, NEW g \in Guids, RequestStop(w, g, o),
               NEW a \in stopInstances' \ stopInstances
        PROVE  /\ a \in snapshot[w] /\ a.instance \in toStop[w] /\ pc[w] = "act"
    <2> DEFINE b == CHOOSE x \in snapshot[w] : x.instance = g
    <2>1. b \in snapshot[w] /\ b.instance = g /\ g \in toStop[w]
      BY <1>7 DEF RequestStop, IInv, StopsKnown
    <2> HIDE DEF b
    <2>2. a = b /\ pc[w] = "act"
      BY <1>7 DEF RequestStop, RequestStopLRPInstance, b
    <2> QED BY <2>1, <2>2
  <1>8. ASSUME NEW w \in Workers, NEW o \in Outcomes, NEW g \in Guids, RequestStop(w, g, o)
        PROVE  UNCHANGED <<startAuctions, stopAuctions>>
    BY <1>8 DEF RequestStop, RequestStopLRPInstance
  <1>9. CASE \E w \in Workers : processDesiredChange(w)
    <2>1. PICK w \in Workers : processDesiredChange(w)
      BY <1>9
    <2>2. CASE Stays
      BY <2>2
    <2>3. CASE \E o \in Outcomes : RequestStart(w, o)
      BY <1>5, <2>3
    <2>4. CASE \E o \in Outcomes : RequestStopAuction(w, o)
      BY <1>6, <2>4
    <2>5. CASE \E o \in Outcomes, g \in Guids : RequestStop(w, g, o)
      BY <1>7, <1>8, <2>5
    <2> QED BY <1>4, <2>1, <2>2, <2>3, <2>4, <2>5 DEF processDesiredChange
  <1> QED BY <1>1, <1>2, <1>3, <1>9 DEF Next, Environment

\* The guid of an instance that runs is auctioned again only after a lost
\* answer: RetryIndefinitelyOnStoreTimeout repeats a Create that was applied.
THEOREM ReauctionsLate == Spec => ReauctionOnlyAfterLostAnswer
  <1> DEFINE A == \A a \in startAuctions' \ startAuctions :
                     InstanceOf(a) \in actual => \E w \in Workers : guid[w] = a.instance /\ late[w]
  <1>1. IInv /\ GuidsOK /\ [Next]_vars => [A]_vars
    <2> SUFFICES ASSUME IInv, GuidsOK, [Next]_vars, NEW a \in startAuctions' \ startAuctions,
                        InstanceOf(a) \in actual
                 PROVE  \E w \in Workers : guid[w] = a.instance /\ late[w]
      OBVIOUS
    <2>1. PICK w \in Workers : pc[w] = "auction" /\ a = StartMessage(w)
      BY Writers
    <2>2. a.instance = guid[w] /\ InstanceOf(a).instance = guid[w]
      BY <2>1 DEF StartMessage, InstanceOf
    <2> QED BY <2>1, <2>2 DEF GuidsOK, Unsent, Drawing
  <1> QED BY <1>1, SpecIInv, SpecGuids, PTL DEF Spec, ReauctionOnlyAfterLostAnswer

-----------------------------------------------------------------------------
(* What a goroutine acts on.                                               *)

\* A change that is the newest of its process says what is desired.
Current(c, nodes, max) ==
    /\ c.index <= max
    /\ c.index = nodes[c.process].index =>
         desiredInstances(c) = nodes[c.process].instances

ChangesCurrent ==
    /\ \A p \in Processes : desired[p].index <= modifiedIndex
    /\ \A k \in DOMAIN feed : Current(feed[k], desired, modifiedIndex)
    /\ \A w \in Workers : Busy(w) => Current(change[w], desired, modifiedIndex)

\* It starts and thins out desired indices of its process, and stops others.
Own(w) ==
    /\ toStart[w] \cup toStopAllButOne[w] \subseteq 0 .. desiredInstances(change[w]) - 1
    /\ \A a \in snapshot[w] :
         /\ a.process = change[w].process
         /\ a.instance \in toStop[w] => a.index >= desiredInstances(change[w])
    /\ pc[w] \in {"idle", "fetch"} => toStart[w] = {} /\ snapshot[w] = {}

OwnOK == \A w \in Workers : Own(w)
ActsOK == ChangesCurrent /\ OwnOK

LEMMA ActsInit == Init => ActsOK
  <1> SUFFICES ASSUME Init PROVE ActsOK
    OBVIOUS
  <1> USE DEF Init, BBSInit, FeedInit, JobsInit
  <1>1. DOMAIN feed = {} /\ \A w \in Workers : ~ Busy(w)
    BY DEF Busy
  <1>2. ChangesCurrent
    BY <1>1 DEF ChangesCurrent
  <1>3. OwnOK
    BY DEF OwnOK, Own
  <1> QED BY <1>2, <1>3 DEF ActsOK

\* A goroutine that loses work, or keeps it.
LEMMA OwnLess ==
    ASSUME NEW w \in Workers, Own(w),
           change'[w] = change[w], snapshot'[w] = snapshot[w], toStart'[w] \subseteq toStart[w],
           toStop'[w] \subseteq toStop[w], toStopAllButOne'[w] \subseteq toStopAllButOne[w],
           pc'[w] \in {"idle", "fetch"} => pc[w] \in {"idle", "fetch"}
    PROVE  Own(w)'
  BY DEF Own, desiredInstances

LEMMA OwnNone ==
    ASSUME NEW w \in Workers,
           toStart'[w] = {}, toStop'[w] = {}, toStopAllButOne'[w] = {}, snapshot'[w] = {}
    PROVE  Own(w)'
  BY DEF Own

\* FetchActuals: the guids to stop are those of surplus instances, and of no
\* others.
LEMMA OwnFetch ==
    ASSUME IInv, GuidsOK, NEW w \in Workers, FetchActuals(w)
    PROVE  Own(w)'
  <1> DEFINE n == desiredInstances(change[w])
             S == GetActualLRPsByProcessGuid(change[w].process)
             delta == Reconcile(n, S)
  <1>1. /\ snapshot'[w] = S /\ toStart'[w] = delta.IndicesToStart /\ toStop'[w] = delta.GuidsToStop
        /\ toStopAllButOne'[w] = delta.IndicesToStopAllButOne
        /\ pc'[w] = "act" /\ change'[w] = change[w]
    BY DEF FetchActuals, actualsForProcessGuid, IInv, TypeOK
  <1>2. n \in Counts /\ S \subseteq actual /\ \A a \in S : a.process = change[w].process
    BY DesiredInstancesType DEF IInv, TypeOK, GetActualLRPsByProcessGuid
  <1>3. delta.IndicesToStart \cup delta.IndicesToStopAllButOne \subseteq 0 .. n - 1
    BY DEF Reconcile, Result, Missing, Duplicated
  <1>4. \A g \in delta.GuidsToStop : \E b \in S : b.instance = g /\ b.index >= n
    BY DEF Reconcile, Result, Extra
  <1>5. n' = n
    BY <1>1
  <1> HIDE DEF S, delta, n
  <1>6. ASSUME NEW a \in S, a.instance \in delta.GuidsToStop PROVE a.index >= n
    <2>1. PICK b \in S : b.instance = a.instance /\ b.index >= n
      BY <1>4, <1>6
    <2>2. Name(a) \in Named /\ Name(b) \in Named /\ Name(a)[1] = Name(b)[1]
      BY <1>2, <2>1, NamesIn DEF Stored, Name
    <2>3. Name(a) = Name(b)
      BY <2>2 DEF GuidsOK, OneNameEach
    <2> QED BY <2>1, <2>3 DEF Name
  <1> QED BY <1>1, <1>2, <1>3, <1>5, <1>6 DEF Own, n

LEMMA OwnStep == IInv /\ GuidsOK /\ OwnOK /\ [Next]_vars => OwnOK'
  <1> SUFFICES ASSUME IInv, GuidsOK, OwnOK, [Next]_vars, NEW w \in Workers PROVE Own(w)'
    BY DEF OwnOK
  <1>1. Own(w)
    BY DEF OwnOK
  <1>2. CASE UNCHANGED jobVars
    BY <1>1, <1>2, OwnLess DEF jobVars
  <1>3. ASSUME NEW v \in Workers, Receive(v) PROVE Own(w)'
    <2>1. CASE v = w
      <3>1. pc[w] = "idle"
        BY <1>3, <2>1 DEF Receive, Busy
      <3> QED BY <1>1, <1>3, <3>1, OwnNone DEF Receive, IInv, NothingToStop, Own
    <2>2. CASE v # w
      BY <1>1, <1>3, <2>2, OwnLess DEF Receive, IInv, TypeOK
    <2> QED BY <2>1, <2>2
  <1>4. ASSUME NEW v \in Workers, FetchActuals(v) PROVE Own(w)'
    <2>1. CASE v = w
      BY <1>4, <2>1, OwnFetch
    <2>2. CASE v # w
      BY <1>1, <1>4, <2>2, OwnLess DEF FetchActuals, IInv, TypeOK
    <2> QED BY <2>1, <2>2
  <1>5. ASSUME NEW v \in Workers, End(v) PROVE Own(w)'
    <2>1. CASE v = w
      BY <1>5, <2>1, OwnNone DEF End, IInv, TypeOK
    <2>2. CASE v # w
      BY <1>1, <1>5, <2>2, OwnLess DEF End, IInv, TypeOK
    <2> QED BY <2>1, <2>2
  <1>6. ASSUME NEW how, Gone(how) PROVE Own(w)'
    BY <1>6, OwnNone DEF Gone
  <1>7. ASSUME NEW v \in Workers, NEW g \in Guids, PrepareStart(v, g) PROVE Own(w)'
    BY <1>1, <1>7, OwnLess DEF PrepareStart, IInv, TypeOK
  <1>8. ASSUME NEW v \in Workers, NEW o \in Outcomes,
               RequestStart(v, o) \/ RequestStopAuction(v, o) \/ \E g \in Guids : RequestStop(v, g, o)
        PROVE  Own(w)'
    <2>1. /\ change'[w] = change[w] /\ snapshot'[w] = snapshot[w] /\ toStart'[w] \subseteq toStart[w]
          /\ toStop'[w] \subseteq toStop[w] /\ toStopAllButOne'[w] \subseteq toStopAllButOne[w]
          /\ pc'[w] = pc[w] \/ pc'[w] = "act"
      BY <1>8 DEF RequestStart, RequestStopAuction, RequestStop, IInv, TypeOK
    <2> QED BY <1>1, <2>1, OwnLess
  <1>9. CASE \E v \in Workers : processDesiredChange(v)
    BY <1>4, <1>5, <1>6, <1>7, <1>8, <1>9
    DEF processDesiredChange, DereferenceNil, FetchFails, StartAborted, Finish
  <1>10. CASE Run
    BY <1>2, <1>3, <1>10 DEF Run, Watch, ShutDown, Return
  <1>11. CASE Environment
    BY <1>2, <1>6, <1>11
    DEF Environment, ClientDesires, ClientRemoves, ClientDeletes, Announce, handlerVars, CellReports,
        AuctionEnds, InstanceEnds, StopRequestEnds, StopAuctionEnds, WatchLoses, Kill, Restart
  <1> QED BY <1>2, <1>9, <1>10, <1>11 DEF Next, vars

\* What is received, or lost, was in the feed.
LEMMA FeedShrinks ==
    ASSUME IInv,
           \/ feed' = feed \/ feed' = <<>> \/ (feed # <<>> /\ feed' = Tail(feed))
           \/ \E kept \in 0 .. Len(feed) : feed' = SubSeq(feed, 1, kept)
    PROVE  \A k \in DOMAIN feed' : \E j \in DOMAIN feed : feed'[k] = feed[j]
  <1>1. feed \in Seq(Change)
    BY DEF IInv, TypeOK
  <1>2. CASE feed # <<>> /\ feed' = Tail(feed)
    <2> SUFFICES ASSUME NEW k \in DOMAIN feed' PROVE \E j \in DOMAIN feed : feed'[k] = feed[j]
      OBVIOUS
    <2>1. k + 1 \in DOMAIN feed /\ feed'[k] = feed[k + 1]
      BY <1>1, <1>2
    <2> QED BY <2>1
  <1>3. ASSUME NEW kept \in 0 .. Len(feed), feed' = SubSeq(feed, 1, kept)
        PROVE  \A k \in DOMAIN feed' : \E j \in DOMAIN feed : feed'[k] = feed[j]
    <2> SUFFICES ASSUME NEW k \in DOMAIN feed' PROVE k \in DOMAIN feed /\ feed'[k] = feed[k]
      OBVIOUS
    <2> QED BY <1>1, <1>3
  <1> QED BY <1>1, <1>2, <1>3

LEMMA CurrentKept ==
    ASSUME ChangesCurrent, UNCHANGED <<desired, modifiedIndex>>,
           \A k \in DOMAIN feed' : \E j \in DOMAIN feed : feed'[k] = feed[j],
           \A w \in Workers : Busy(w)' => \/ Busy(w) /\ change'[w] = change[w]
                                          \/ \E j \in DOMAIN feed : change'[w] = feed[j]
    PROVE  ChangesCurrent'
  BY DEF ChangesCurrent

\* A write overtakes the changes before it.
LEMMA CurrentWrite ==
    ASSUME IInv, ChangesCurrent, NEW p \in Processes, NEW n, NEW m, NEW present, NEW kind,
           WriteDesired(p, present, n), Announce(kind, p, m),
           IF kind = "set" THEN m = n ELSE n = 0
    PROVE  ChangesCurrent'
  <1> DEFINE c == [kind |-> kind, process |-> p, instances |-> m, index |-> modifiedIndex + 1]
             d == [present |-> present, instances |-> n, index |-> modifiedIndex + 1]
  <1>1. /\ modifiedIndex' = modifiedIndex + 1 /\ modifiedIndex \in Nat
        /\ desired' = [desired EXCEPT ![p] = d] /\ DOMAIN desired = Processes
        /\ feed' = (IF up THEN Append(feed, c) ELSE feed) /\ feed \in Seq(Change)
        /\ UNCHANGED <<pc, change>>
    BY DEF WriteDesired, Announce, Publish, handlerVars, jobVars, IInv, TypeOK, BBSTypeOK
  <1>2. d.index = modifiedIndex + 1 /\ d.instances = n
    OBVIOUS
  <1>3. c.index = modifiedIndex + 1 /\ c.process = p /\ desiredInstances(c) = n
    BY DEF desiredInstances
  <1> HIDE DEF c, d
  <1>4. /\ desired'[p] = d
        /\ \A q \in Processes : q # p => desired'[q] = desired[q]
    BY <1>1
  <1>5. \A q \in Processes : desired'[q].index <= modifiedIndex'
    <2> SUFFICES ASSUME NEW q \in Processes PROVE desired'[q].index <= modifiedIndex'
      OBVIOUS
    <2>1. desired[q].index \in Nat /\ desired[q].index <= modifiedIndex
      BY DEF ChangesCurrent, IInv, TypeOK, BBSTypeOK, DesiredLRP
    <2> QED BY <1>1, <1>2, <1>4, <2>1
  <1>6. ASSUME NEW x \in Change, Current(x, desired, modifiedIndex)
        PROVE  Current(x, desired', modifiedIndex')
    <2>1. x.index \in Nat /\ x.index <= modifiedIndex /\ x.process \in Processes
      BY <1>6 DEF Current, Change
    <2>2. x.index <= modifiedIndex' /\ x.index # modifiedIndex + 1
      BY <1>1, <2>1
    <2>3. CASE x.process = p
      BY <1>2, <1>4, <2>2, <2>3 DEF Current
    <2>4. CASE x.process # p
      BY <1>4, <1>6, <2>1, <2>2, <2>4 DEF Current
    <2> QED BY <2>3, <2>4
  <1>7. Current(c, desired', modifiedIndex')
    <2>1. c.index <= modifiedIndex'
      BY <1>1, <1>3
    <2> QED BY <1>2, <1>3, <1>4, <2>1 DEF Current
  <1>8. \A k \in DOMAIN feed' : feed'[k] = c \/ (k \in DOMAIN feed /\ feed'[k] = feed[k])
    BY <1>1
  <1>9. \A k \in DOMAIN feed : feed[k] \in Change /\ Current(feed[k], desired, modifiedIndex)
    BY <1>1 DEF ChangesCurrent
  <1>10. \A k \in DOMAIN feed' : Current(feed'[k], desired', modifiedIndex')
    BY <1>6, <1>7, <1>8, <1>9
  <1>11. ASSUME NEW w \in Workers, Busy(w)' PROVE Current(change'[w], desired', modifiedIndex')
    <2>1. change[w] \in Change /\ Current(change[w], desired, modifiedIndex) /\ change'[w] = change[w]
      BY <1>1, <1>11 DEF ChangesCurrent, IInv, TypeOK, Busy
    <2> QED BY <1>6, <2>1
  <1> QED BY <1>5, <1>10, <1>11 DEF ChangesCurrent

LEMMA CurrentStep == IInv /\ ChangesCurrent /\ [Next]_vars => ChangesCurrent'
  <1> SUFFICES ASSUME IInv, ChangesCurrent, [Next]_vars PROVE ChangesCurrent'
    OBVIOUS
  <1> DEFINE Shrinks == \A k \in DOMAIN feed' : \E j \in DOMAIN feed : feed'[k] = feed[j]
  <1> USE DEF bbsVars, feedVars, jobVars, handlerVars
  <1>1. ASSUME NEW w \in Workers, Receive(w) PROVE ChangesCurrent'
    <2>1. Shrinks /\ 1 \in DOMAIN feed /\ Head(feed) = feed[1]
      BY <1>1, FeedShrinks DEF Receive, Take, IInv, TypeOK
    <2>2. ASSUME NEW v \in Workers, Busy(v)'
          PROVE  \/ Busy(v) /\ change'[v] = change[v]
                 \/ \E j \in DOMAIN feed : change'[v] = feed[j]
      BY <1>1, <2>1, <2>2 DEF Receive, Busy, IInv, TypeOK
    <2> QED BY <1>1, <2>1, <2>2, CurrentKept DEF Receive
  <1>2. CASE Watch \/ ShutDown \/ Return \/ WatchLoses \/ Restart \/ UNCHANGED vars
    <2>1. Shrinks
      BY <1>2, FeedShrinks DEF Watch, Connect, ShutDown, Abandon, Return, WatchLoses, Lose, Restart, vars
    <2> QED BY <1>2, <2>1, CurrentKept DEF Watch, ShutDown, Return, WatchLoses, Restart, vars, Busy
  <1>3. CASE Kill \/ \E w \in Workers : DereferenceNil(w)
    <2>1. Shrinks /\ UNCHANGED <<desired, modifiedIndex>> /\ \A w \in Workers : ~ Busy(w)'
      BY <1>3, FeedShrinks DEF Kill, DereferenceNil, Gone, Abandon, Busy
    <2> QED BY <2>1, CurrentKept
  <1>4. ASSUME NEW w \in Workers, processDesiredChange(w), ~ DereferenceNil(w) PROVE ChangesCurrent'
    <2>1. UNCHANGED <<desired, modifiedIndex, feed>>
      BY <1>4 DEF processDesiredChange, FetchActuals, FetchFails, PrepareStart, StartAborted,
         RequestStart, RequestLRPStartAuction, RequestStop, RequestStopLRPInstance,
         RequestStopAuction, RequestLRPStopAuction, Finish
    <2>2. Busy(w) /\ \A v \in Workers : change'[v] = change[v] \/ pc'[v] = "idle"
      BY <1>4 DEF processDesiredChange, FetchActuals, FetchFails, PrepareStart, StartAborted,
         RequestStart, RequestStop, RequestStopAuction, Finish, End, Busy, IInv, TypeOK
    <2>3. \A v \in Workers \ {w} : pc'[v] = pc[v]
      BY <1>4 DEF processDesiredChange, FetchActuals, FetchFails, PrepareStart, StartAborted,
         RequestStart, RequestStop, RequestStopAuction, Finish, End, IInv, TypeOK
    <2>4. ASSUME NEW v \in Workers, Busy(v)' PROVE Busy(v) /\ change'[v] = change[v]
      BY <2>2, <2>3, <2>4 DEF Busy
    <2> QED BY <2>1, <2>4, CurrentKept
  <1>5. CASE \/ \E a \in startAuctions : CellReports(a) \/ AuctionEnds(a)
             \/ \E a \in actual : InstanceEnds(a)
             \/ \E a \in stopInstances : StopRequestEnds(a)
             \/ \E s \in stopAuctions : StopAuctionEnds(s)
    <2>1. UNCHANGED <<desired, modifiedIndex, feed, pc, change>>
      BY <1>5 DEF CellReports, ReportActualLRPAsStarting, AuctionEnds, ResolveLRPStartAuction,
         InstanceEnds, RemoveActualLRP, StopRequestEnds, ResolveStopLRPInstance, StopAuctionEnds,
         ResolveLRPStopAuction
    <2> QED BY <2>1, CurrentKept DEF Busy
  <1>6. ASSUME NEW p \in Processes, NEW n \in Counts, ClientDesires(p, n) PROVE ChangesCurrent'
    BY <1>6, CurrentWrite DEF ClientDesires, DesireLRP
  <1>7. ASSUME NEW p \in Processes, ClientRemoves(p) \/ ClientDeletes(p) PROVE ChangesCurrent'
    BY <1>7, CurrentWrite DEF ClientRemoves, RemoveDesiredLRPByProcessGuid, ClientDeletes,
                              ChangeDesiredLRP
  <1> QED BY <1>1, <1>2, <1>3, <1>4, <1>5, <1>6, <1>7 DEF Next, Run, Environment

LEMMA SpecActs == Spec => []ActsOK
  <1>1. IInv /\ GuidsOK /\ ActsOK /\ [Next]_vars => ActsOK'
    BY OwnStep, CurrentStep DEF ActsOK
  <1> QED BY <1>1, ActsInit, SpecIInv, SpecGuids, PTL DEF Spec

\* What a goroutine that was not overtaken works with.
LEMMA NotOvertaken ==
    ASSUME IInv, ActsOK, NEW w \in Workers, Busy(w), ~ Overtaken(w)
    PROVE  /\ change[w].process \in Processes
           /\ Wanted(change[w].process) = 0 .. desiredInstances(change[w]) - 1
           /\ toStart[w] \cup toStopAllButOne[w] \subseteq Wanted(change[w].process)
           /\ \A a \in snapshot[w] :
                /\ a.process = change[w].process
                /\ a.instance \in toStop[w] => a.index \notin Wanted(change[w].process)
  <1>1. change[w] \in Change /\ snapshot[w] \subseteq ActualLRP
    BY DEF IInv, TypeOK
  <1>2. desiredInstances(change[w]) = desired[change[w].process].instances
    BY DEF ActsOK, ChangesCurrent, Current, Overtaken
  <1>3. desiredInstances(change[w]) \in Nat
    BY <1>1, DesiredInstancesType, MaxInstancesAssumption DEF Counts
  <1>4. Own(w)
    BY DEF ActsOK, OwnOK
  <1>5. ASSUME NEW a \in snapshot[w], a.instance \in toStop[w]
        PROVE  a.index \notin 0 .. desiredInstances(change[w]) - 1
    <2>1. a.index \in Int
      BY <1>1, MaxInstancesAssumption DEF ActualLRP, Indices
    <2>2. a.index >= desiredInstances(change[w])
      BY <1>4, <1>5 DEF Own
    <2> QED BY <1>3, <2>1, <2>2
  <1> QED BY <1>1, <1>2, <1>4, <1>5 DEF Own, Wanted, Change

LEMMA FirstIndex ==
    ASSUME NEW S \in SUBSET Indices, S # {}
    PROVE  First(S) \in S
  <1>1. Indices \subseteq Nat
    BY MaxInstancesAssumption DEF Indices
  <1> QED BY <1>1, FirstIn

\* Requests contradict the desired LRP in the store only when a goroutine acts
\* on a change that a newer write has overtaken.
THEOREM OvertakenContradict == Spec => OnlyOvertakenContradict
  <1> DEFINE A == \A p \in Processes :
                    (\A w \in Workers : On(w, p) => ~ Overtaken(w)) =>
                       /\ \A a \in startAuctions' \ startAuctions :
                               a.process = p => a.index \in Wanted(p)
                       /\ \A s \in stopAuctions' \ stopAuctions :
                               s.process = p => s.index \in Wanted(p)
                       /\ \A a \in stopInstances' \ stopInstances :
                               a.process = p => a.index \notin Wanted(p)
  <1>1. IInv /\ ActsOK /\ [Next]_vars => [A]_vars
    <2> SUFFICES ASSUME IInv, ActsOK, [Next]_vars, NEW p \in Processes,
                        \A w \in Workers : On(w, p) => ~ Overtaken(w)
                 PROVE  /\ \A a \in startAuctions' \ startAuctions :
                               a.process = p => a.index \in Wanted(p)
                        /\ \A s \in stopAuctions' \ stopAuctions :
                               s.process = p => s.index \in Wanted(p)
                        /\ \A a \in stopInstances' \ stopInstances :
                               a.process = p => a.index \notin Wanted(p)
      OBVIOUS
    <2>1. ASSUME NEW w \in Workers, Busy(w), change[w].process = p
          PROVE  /\ toStart[w] \cup toStopAllButOne[w] \subseteq Wanted(p)
                 /\ \A a \in snapshot[w] : /\ a.process = p
                                           /\ a.instance \in toStop[w] => a.index \notin Wanted(p)
      BY <2>1, NotOvertaken DEF On
    <2>2. ASSUME NEW a \in startAuctions' \ startAuctions, a.process = p PROVE a.index \in Wanted(p)
      <3>1. PICK w \in Workers : pc[w] = "auction" /\ a = StartMessage(w)
        BY Writers
      <3>2. Busy(w) /\ change[w].process = p /\ a.index = First(toStart[w])
        BY <2>2, <3>1 DEF StartMessage, Busy
      <3>3. First(toStart[w]) \in toStart[w]
        BY <3>1, FirstIndex DEF IInv, TypeOK, AuctionReady
      <3> QED BY <2>1, <3>2, <3>3
    <2>3. ASSUME NEW s \in stopAuctions' \ stopAuctions, s.process = p PROVE s.index \in Wanted(p)
      <3>1. PICK w \in Workers : /\ pc[w] = "act" /\ toStopAllButOne[w] # {}
                                 /\ s = [process |-> change[w].process,
                                         index |-> First(toStopAllButOne[w])]
        BY Writers
      <3>2. Busy(w) /\ change[w].process = p /\ s.index = First(toStopAllButOne[w])
        BY <2>3, <3>1 DEF Busy
      <3>3. First(toStopAllButOne[w]) \in toStopAllButOne[w]
        BY <3>1, FirstIndex DEF IInv, TypeOK
      <3> QED BY <2>1, <3>2, <3>3
    <2>4. ASSUME NEW a \in stopInstances' \ stopInstances, a.process = p PROVE a.index \notin Wanted(p)
      <3>1. PICK w \in Workers : pc[w] = "act" /\ a \in snapshot[w] /\ a.instance \in toStop[w]
        BY Writers
      <3>2. Busy(w) /\ change[w].process = p
        BY <2>4, <3>1 DEF Busy, ActsOK, OwnOK, Own
      <3> QED BY <2>1, <3>1, <3>2
    <2> QED BY <2>2, <2>3, <2>4
  <1> QED BY <1>1, SpecIInv, SpecActs, PTL DEF Spec, OnlyOvertakenContradict

-----------------------------------------------------------------------------
(* Coverage.  As long as nothing went wrong for a process, its newest      *)
(* change is still to be fetched, or every desired index is covered or in  *)
(* the hands of the goroutine that fetched it.                             *)

Fetched(w) == pc[w] \in {"act", "auction"}

Pending(p) ==
    \/ \E k \in DOMAIN feed : feed[k].process = p /\ feed[k].index = desired[p].index
    \/ \E w \in Workers : On(w, p) /\ pc[w] = "fetch" /\ ~ Overtaken(w)

Settled(p) ==
    /\ \A w \in Workers : On(w, p) /\ Fetched(w) => ~ Overtaken(w)
    /\ \A a \in stopInstances : a.process = p => a.index \notin Wanted(p)
    /\ \A i \in Wanted(p) :
         Covered(p, i) \/ \E w \in Workers : On(w, p) /\ Fetched(w) /\ i \in toStart[w]

CleanOK == \A p \in Processes : clean[p] => Pending(p) \/ Settled(p)

LEMMA SpoilClean ==
    ASSUME NEW S, Spoil(S), NEW p \in Processes, clean'[p]
    PROVE  clean[p] /\ p \notin S
  BY DEF Spoil

LEMMA CleanInit == Init => CleanOK
  <1> SUFFICES ASSUME Init, NEW p \in Processes PROVE Settled(p)
    BY DEF CleanOK
  <1>1. \A w \in Workers : ~ On(w, p)
    BY DEF Init, JobsInit, On, Busy
  <1>2. stopInstances = {} /\ Wanted(p) = {}
    BY DEF Init, BBSInit, Wanted
  <1> QED BY <1>1, <1>2 DEF Settled

LEMMA PendingKept ==
    ASSUME NEW p \in Processes, Pending(p), desired'[p] = desired[p],
           \A k \in DOMAIN feed : feed[k].process = p =>
                \/ \E j \in DOMAIN feed' : feed'[j] = feed[k]
                \/ \E w \in Workers : pc'[w] = "fetch" /\ change'[w] = feed[k],
           \A w \in Workers : On(w, p) /\ pc[w] = "fetch" =>
                pc'[w] = "fetch" /\ change'[w] = change[w]
    PROVE  Pending(p)'
  BY DEF Pending, On, Busy, Overtaken

LEMMA SettledKept ==
    ASSUME NEW p \in Processes, Settled(p), desired'[p] = desired[p],
           \A w \in Workers : On(w, p)' /\ Fetched(w)' =>
                On(w, p) /\ Fetched(w) /\ change'[w] = change[w],
           \A a \in stopInstances' : a.process = p => a \in stopInstances \/ a.index \notin Wanted(p),
           \A i \in Wanted(p) : Covered(p, i) => Covered(p, i)',
           \A w \in Workers : \A i \in toStart[w] :
                On(w, p) /\ Fetched(w) /\ i \in Wanted(p) =>
                    Covered(p, i)' \/ (On(w, p)' /\ Fetched(w)' /\ i \in toStart'[w])
    PROVE  Settled(p)'
  <1>1. Wanted(p)' = Wanted(p)
    BY DEF Wanted
  <1>2. \A w \in Workers : On(w, p)' /\ Fetched(w)' => ~ Overtaken(w)'
    BY DEF Settled, Overtaken, On
  <1>3. \A a \in stopInstances' : a.process = p => a.index \notin Wanted(p)'
    BY <1>1 DEF Settled
  <1>4. ASSUME NEW i \in Wanted(p)
        PROVE  Covered(p, i)' \/ \E w \in Workers : On(w, p)' /\ Fetched(w)' /\ i \in toStart'[w]
    BY DEF Settled
  <1> QED BY <1>1, <1>2, <1>3, <1>4 DEF Settled

\* Steps that leave the feed and the goroutines alone and uncover nothing.
LEMMA CleanLeft ==
    ASSUME NEW p \in Processes, Pending(p) \/ Settled(p), desired'[p] = desired[p],
           \A k \in DOMAIN feed : feed[k].process = p => \E j \in DOMAIN feed' : feed'[j] = feed[k],
           UNCHANGED <<pc, change, toStart>>,
           stopInstances' \subseteq stopInstances,
           Settled(p) => \A i \in Wanted(p) : Covered(p, i) => Covered(p, i)'
    PROVE  Pending(p)' \/ Settled(p)'
  <1>1. CASE Pending(p)
    BY <1>1, PendingKept
  <1>2. CASE Settled(p)
    BY <1>2, SettledKept DEF On, Busy, Fetched
  <1> QED BY <1>1, <1>2

\* A step of the goroutine w that leaves the store and the feed alone: if w
\* works for p it has fetched, and what it had to start is left to it.
LEMMA CleanWorker ==
    ASSUME NEW p \in Processes, Pending(p) \/ Settled(p), NEW w \in Workers,
           UNCHANGED <<desired, feed, actual, startAuctions>>,
           \A v \in Workers \ {w} :
                pc'[v] = pc[v] /\ change'[v] = change[v] /\ toStart'[v] = toStart[v],
           \A a \in stopInstances' : a.process = p => a \in stopInstances \/ a.index \notin Wanted(p),
           On(w, p) => Fetched(w),
           On(w, p)' /\ Fetched(w)' => On(w, p) /\ change'[w] = change[w],
           On(w, p) => toStart[w] = {} \/ (On(w, p)' /\ Fetched(w)' /\ toStart'[w] = toStart[w])
    PROVE  Pending(p)' \/ Settled(p)'
  <1>1. \A i : Covered(p, i)' = Covered(p, i)
    BY DEF Covered
  <1>2. \A v \in Workers : On(v, p) /\ pc[v] = "fetch" => v # w
    BY DEF Fetched
  <1>3. CASE Pending(p)
    BY <1>2, <1>3, PendingKept
  <1>4. CASE Settled(p)
    <2>1. \A v \in Workers : On(v, p)' /\ Fetched(v)' =>
              On(v, p) /\ Fetched(v) /\ change'[v] = change[v]
      BY DEF On, Busy, Fetched
    <2>2. \A v \in Workers \ {w} : On(v, p)' = On(v, p) /\ Fetched(v)' = Fetched(v)
      BY DEF On, Busy, Fetched
    <2>3. \A v \in Workers : \A i \in toStart[v] :
              On(v, p) /\ Fetched(v) => On(v, p)' /\ Fetched(v)' /\ i \in toStart'[v]
      BY <2>2
    <2> QED BY <1>1, <1>4, <2>1, <2>3, SettledKept
  <1> QED BY <1>3, <1>4

\* A write: its change is the newest, and on its way if there is a watcher.
LEMMA CleanWrite ==
    ASSUME IInv, CleanOK, NEW q \in Processes, NEW n, NEW m, NEW present, NEW kind,
           WriteDesired(q, present, n), Announce(kind, q, m)
    PROVE  CleanOK'
  <1> DEFINE c == [kind |-> kind, process |-> q, instances |-> m, index |-> modifiedIndex + 1]
             d == [present |-> present, instances |-> n, index |-> modifiedIndex + 1]
  <1>1. /\ desired' = [desired EXCEPT ![q] = d] /\ DOMAIN desired = Processes
        /\ feed' = (IF up THEN Append(feed, c) ELSE feed) /\ feed \in Seq(Change)
        /\ Spoil(IF up THEN {} ELSE {q})
        /\ UNCHANGED <<pc, change, toStart, stopInstances, actual, startAuctions>>
    BY DEF WriteDesired, Announce, Publish, handlerVars, jobVars, IInv, TypeOK, BBSTypeOK
  <1>2. c.process = q /\ c.index = d.index
    OBVIOUS
  <1> HIDE DEF c, d
  <1> SUFFICES ASSUME NEW p \in Processes, clean'[p] PROVE Pending(p)' \/ Settled(p)'
    BY DEF CleanOK
  <1>3. clean[p] /\ p \notin (IF up THEN {} ELSE {q})
    BY <1>1, SpoilClean
  <1>4. \A k \in DOMAIN feed : \E j \in DOMAIN feed' : feed'[j] = feed[k]
    <2> SUFFICES ASSUME NEW k \in DOMAIN feed PROVE k \in DOMAIN feed' /\ feed'[k] = feed[k]
      OBVIOUS
    <2> QED BY <1>1
  <1>5. CASE p = q
    <2>1. feed' = Append(feed, c) /\ desired'[p] = d
      BY <1>1, <1>3, <1>5
    <2>2. Len(feed) + 1 \in DOMAIN feed' /\ feed'[Len(feed) + 1] = c
      BY <1>1, <2>1
    <2> QED BY <1>2, <1>5, <2>1, <2>2 DEF Pending
  <1>6. CASE p # q
    <2>1. desired'[p] = desired[p] /\ (Pending(p) \/ Settled(p))
      BY <1>1, <1>3, <1>6 DEF CleanOK
    <2> QED BY <1>1, <1>4, <2>1, CleanLeft DEF Covered
  <1> QED BY <1>5, <1>6

LEMMA CleanReceive ==
    ASSUME IInv, CleanOK, NEW w \in Workers, Receive(w)
    PROVE  CleanOK'
  <1> SUFFICES ASSUME NEW p \in Processes, clean'[p] PROVE Pending(p)' \/ Settled(p)'
    BY DEF CleanOK
  <1>1. /\ UNCHANGED <<desired, actual, startAuctions, stopInstances, toStart, clean>>
        /\ pc' = [pc EXCEPT ![w] = "fetch"] /\ change' = [change EXCEPT ![w] = Head(feed)]
        /\ feed # <<>> /\ feed' = Tail(feed) /\ feed \in Seq(Change) /\ pc[w] = "idle"
    BY DEF Receive, Take, bbsVars, IInv, TypeOK, Busy
  <1>2. pc'[w] = "fetch" /\ change'[w] = Head(feed)
        /\ \A v \in Workers \ {w} : pc'[v] = pc[v] /\ change'[v] = change[v]
    BY <1>1 DEF IInv, TypeOK
  <1>3. ASSUME NEW k \in DOMAIN feed
        PROVE  feed[k] = Head(feed) \/ \E j \in DOMAIN feed' : feed'[j] = feed[k]
    <2>1. CASE k = 1
      BY <1>1, <2>1
    <2>2. CASE k # 1
      <3>1. k - 1 \in DOMAIN feed' /\ feed'[k - 1] = feed[k]
        BY <1>1, <2>2
      <3> QED BY <3>1
    <2> QED BY <2>1, <2>2
  <1>4. Pending(p) \/ Settled(p)
    BY <1>1 DEF CleanOK
  <1>5. CASE Pending(p)
    BY <1>1, <1>2, <1>3, <1>5, PendingKept DEF On
  <1>6. CASE Settled(p)
    <2>1. \A v \in Workers : Fetched(v)' => v # w
      BY <1>2 DEF Fetched
    <2>2. \A v \in Workers \ {w} : On(v, p)' = On(v, p) /\ Fetched(v)' = Fetched(v)
      BY <1>2 DEF On, Busy, Fetched
    <2>3. ~ On(w, p)
      BY <1>1 DEF On, Busy
    <2> QED BY <1>1, <1>2, <1>6, <2>1, <2>2, <2>3, SettledKept DEF Covered
  <1> QED BY <1>4, <1>5, <1>6

\* FetchActuals: alone, on the newest change, and with no stop under way.
LEMMA CleanFetchStep ==
    ASSUME IInv, ActsOK, CleanOK, NEW w \in Workers, FetchActuals(w)
    PROVE  CleanOK'
  <1> DEFINE q == change[w].process
             n == desiredInstances(change[w])
             S == GetActualLRPsByProcessGuid(q)
  <1> SUFFICES ASSUME NEW p \in Processes, clean'[p] PROVE Pending(p)' \/ Settled(p)'
    BY DEF CleanOK
  <1>1. /\ UNCHANGED <<desired, feed, actual, startAuctions, stopInstances, change>>
        /\ clean' = [clean EXCEPT ![q] = CleanFetch(w)]
        /\ pc[w] = "fetch" /\ pc'[w] = "act" /\ q \in Processes
        /\ toStart'[w] = Reconcile(n, S).IndicesToStart
        /\ \A v \in Workers \ {w} : pc'[v] = pc[v] /\ toStart'[v] = toStart[v]
    BY DEF FetchActuals, actualsForProcessGuid, bbsVars, feedVars, IInv, TypeOK, Change
  <1>2. CASE p # q
    <2>1. clean[p]
      BY <1>1, <1>2 DEF IInv, TypeOK
    <2>2. ~ On(w, p) /\ ~ On(w, p)'
      BY <1>1, <1>2 DEF On
    <2> QED BY <1>1, <2>1, <2>2, CleanWorker DEF CleanOK
  <1>3. CASE p = q
    <2>1. CleanFetch(w)
      BY <1>1, <1>3 DEF IInv, TypeOK
    <2>2. /\ ~ Overtaken(w) /\ \A v \in Workers \ {w} : ~ On(v, p)
          /\ \A a \in stopInstances : a.process # p
      BY <1>3, <2>1 DEF CleanFetch, StopsUnderWay, Overtaken
    <2>3. Wanted(p) = 0 .. n - 1
      BY <1>1, <1>3, <2>2, NotOvertaken DEF Busy
    <2>4. \A v \in Workers : On(v, p)' /\ Fetched(v)' => ~ Overtaken(v)'
      BY <1>1, <2>2 DEF On, Busy, Overtaken
    <2>5. ASSUME NEW i \in 0 .. n - 1 PROVE Covered(p, i)' \/ i \in toStart'[w]
      <3>1. CASE hasIndex(S, i)
        BY <1>1, <1>3, <3>1 DEF hasIndex, GetActualLRPsByProcessGuid, Covered
      <3>2. CASE ~ hasIndex(S, i)
        <4>1. i \in Missing(n, S)
          BY <3>2 DEF Missing
        <4> QED BY <1>1, <4>1 DEF Reconcile, Result
      <3> QED BY <3>1, <3>2
    <2>6. On(w, p)' /\ Fetched(w)'
      BY <1>1, <1>3 DEF On, Busy, Fetched
    <2>7. Wanted(p)' = 0 .. n - 1
      BY <1>1, <2>3 DEF Wanted
    <2>8. Settled(p)'
      <3> HIDE DEF n
      <3> QED BY <1>1, <2>2, <2>4, <2>5, <2>6, <2>7 DEF Settled
    <2> QED BY <2>8
  <1> QED BY <1>2, <1>3

\* A start auction was requested: its index is covered, or the request is to
\* be repeated, or an error spoils the process.
LEMMA CleanRequestStart ==
    ASSUME IInv, CleanOK, NEW w \in Workers, NEW o \in Outcomes, RequestStart(w, o)
    PROVE  CleanOK'
  <1> DEFINE q == change[w].process
             i == First(toStart[w])
             m == [process |-> q, index |-> i, instance |-> guid[w], of |-> change[w].index]
  <1> SUFFICES ASSUME NEW p \in Processes, clean'[p] PROVE Pending(p)' \/ Settled(p)'
    BY DEF CleanOK
  <1>1. /\ UNCHANGED <<desired, feed, actual, stopInstances, change>>
        /\ Fetched(w) /\ Fetched(w)' /\ startAuctions \subseteq startAuctions'
        /\ o \in Create(\E b \in startAuctions : SameStartKey(m, b))
        /\ Applied(o) => m \in startAuctions'
        /\ Spoil(IF o = "error" THEN {q} ELSE {})
        /\ toStart'[w] = toStart[w] \/ (~ IsTimeout(o) /\ toStart'[w] = toStart[w] \ {i})
        /\ \A v \in Workers \ {w} : pc'[v] = pc[v] /\ toStart'[v] = toStart[v]
    BY DEF RequestStart, RequestLRPStartAuction, feedVars, IInv, TypeOK, Fetched
  <1>2. clean[p] /\ (o = "error" => p # q)
    BY <1>1, SpoilClean
  <1>3. m.process = q /\ m.index = i
    OBVIOUS
  <1> HIDE DEF m, i
  <1>4. \A v \in Workers : On(v, p)' = On(v, p) /\ Fetched(v)' = Fetched(v)
    BY <1>1 DEF On, Busy, Fetched
  <1>5. \A j : Covered(p, j) => Covered(p, j)'
    BY <1>1 DEF Covered
  <1>6. CASE Pending(p)
    BY <1>1, <1>6, PendingKept DEF Fetched
  <1>7. CASE Settled(p)
    <2>1. \A j : p = q /\ toStart'[w] # toStart[w] /\ j = i => Covered(p, j)'
      <3> SUFFICES ASSUME NEW j, p = q, toStart'[w] # toStart[w], j = i PROVE Covered(p, j)'
        OBVIOUS
      <3>1. ~ IsTimeout(o) /\ o # "error"
        BY <1>1, <1>2
      <3>2. CASE o = "ok"
        BY <1>1, <1>3, <3>2 DEF Applied, Covered
      <3>3. CASE o = "exists"
        <4>1. \E b \in startAuctions : SameStartKey(m, b)
          BY <1>1, <3>3 DEF Create
        <4> QED BY <1>1, <1>3, <4>1 DEF SameStartKey, Covered
      <3> QED BY <3>1, <3>2, <3>3 DEF Outcomes, IsTimeout
    <2>2. ASSUME NEW v \in Workers, NEW j \in toStart[v], On(v, p)
          PROVE  Covered(p, j)' \/ j \in toStart'[v]
      BY <1>1, <2>1, <2>2 DEF On
    <2> QED BY <1>1, <1>4, <1>5, <1>7, <2>2, SettledKept
  <1> QED BY <1>2, <1>6, <1>7 DEF CleanOK

LEMMA CleanRequestStop ==
    ASSUME IInv, ActsOK, CleanOK, NEW w \in Workers, NEW g \in Guids, NEW o \in Outcomes,
           RequestStop(w, g, o)
    PROVE  CleanOK'
  <1> SUFFICES ASSUME NEW p \in Processes, clean'[p] PROVE Pending(p)' \/ Settled(p)'
    BY DEF CleanOK
  <1>1. /\ UNCHANGED <<desired, feed, actual, startAuctions, pc, change, toStart, clean>>
        /\ pc[w] = "act" /\ toStart[w] = {}
    BY DEF RequestStop, RequestStopLRPInstance, feedVars
  <1>2. \A a \in stopInstances' \ stopInstances : a \in snapshot[w] /\ a.instance \in toStop[w]
    <2> DEFINE b == CHOOSE x \in snapshot[w] : x.instance = g
    <2>1. b \in snapshot[w] /\ b.instance = g /\ g \in toStop[w]
      BY DEF RequestStop, IInv, StopsKnown
    <2> HIDE DEF b
    <2>2. stopInstances' \subseteq stopInstances \cup {b}
      BY DEF RequestStop, RequestStopLRPInstance, b
    <2> QED BY <2>1, <2>2
  <1>3. CASE Pending(p)
    BY <1>1, <1>3, PendingKept
  <1>4. CASE Settled(p)
    <2>1. \A a \in snapshot[w] : a.process = change[w].process
      BY DEF ActsOK, OwnOK, Own
    <2>2. change[w].process = p => On(w, p) /\ Fetched(w)
      BY <1>1 DEF On, Busy, Fetched
    <2>3. change[w].process = p => \A a \in snapshot[w] : a.instance \in toStop[w] => a.index \notin Wanted(p)
      BY <1>4, <2>2, NotOvertaken DEF Settled, On
    <2>4. \A a \in stopInstances' : a.process = p => a \in stopInstances \/ a.index \notin Wanted(p)
      BY <1>2, <2>1, <2>3
    <2> QED BY <1>1, <1>4, <2>4, SettledKept DEF On, Busy, Fetched, Covered
  <1> QED BY <1>1, <1>3, <1>4 DEF CleanOK

\* The process is gone: what is clean was quiet.
LEMMA CleanGone ==
    ASSUME CleanOK, NEW how, Gone(how), UNCHANGED bbsVars
    PROVE  CleanOK'
  <1> SUFFICES ASSUME NEW p \in Processes, clean'[p] PROVE Settled(p)'
    BY DEF CleanOK
  <1>1. clean[p] /\ ~ InFeed(p) /\ \A w \in Workers : ~ On(w, p)
    BY SpoilClean DEF Gone
  <1>2. Settled(p)
    BY <1>1 DEF CleanOK, Pending, InFeed
  <1>3. \A w \in Workers : ~ On(w, p)'
    BY DEF Gone, On, Busy
  <1>4. UNCHANGED <<desired, actual, startAuctions, stopInstances>>
    BY DEF bbsVars
  <1> QED BY <1>1, <1>2, <1>3, <1>4, SettledKept DEF Covered

LEMMA CleanProcess ==
    ASSUME IInv, ActsOK, CleanOK, NEW w \in Workers, processDesiredChange(w)
    PROVE  CleanOK'
  <1>1. CASE DereferenceNil(w)
    BY <1>1, CleanGone DEF DereferenceNil
  <1>2. CASE FetchFails(w) \/ StartAborted(w) \/ Finish(w)
    <2> SUFFICES ASSUME NEW p \in Processes, clean'[p] PROVE Pending(p)' \/ Settled(p)'
      BY DEF CleanOK
    <2>1. /\ UNCHANGED <<desired, feed, actual, startAuctions, stopInstances>> /\ pc'[w] = "idle"
          /\ \A v \in Workers \ {w} :
               pc'[v] = pc[v] /\ change'[v] = change[v] /\ toStart'[v] = toStart[v]
      BY <1>2 DEF FetchFails, StartAborted, Finish, End, bbsVars, feedVars, IInv, TypeOK
    <2>2. clean[p] /\ (change[w].process = p => Finish(w))
      BY <1>2, SpoilClean DEF FetchFails, StartAborted, Finish
    <2>3. On(w, p) => Fetched(w) /\ toStart[w] = {}
      BY <2>2 DEF On, Finish, Fetched
    <2>4. ~ On(w, p)'
      BY <2>1 DEF On, Busy
    <2> QED BY <2>1, <2>2, <2>3, <2>4, CleanWorker DEF CleanOK
  <1>3. ASSUME NEW g \in Guids, PrepareStart(w, g) PROVE CleanOK'
    <2> SUFFICES ASSUME NEW p \in Processes, clean'[p] PROVE Pending(p)' \/ Settled(p)'
      BY DEF CleanOK
    <2>1. /\ UNCHANGED <<desired, feed, actual, startAuctions, stopInstances, change, toStart, clean>>
          /\ pc[w] = "act" /\ pc'[w] = "auction" /\ \A v \in Workers \ {w} : pc'[v] = pc[v]
      BY <1>3 DEF PrepareStart, bbsVars, feedVars, IInv, TypeOK
    <2>2. On(w, p)' = On(w, p) /\ Fetched(w) /\ Fetched(w)'
      BY <2>1 DEF On, Busy, Fetched
    <2> QED BY <2>1, <2>2, CleanWorker DEF CleanOK
  <1>4. ASSUME NEW o \in Outcomes, RequestStopAuction(w, o) PROVE CleanOK'
    <2> SUFFICES ASSUME NEW p \in Processes, clean'[p] PROVE Pending(p)' \/ Settled(p)'
      BY DEF CleanOK
    <2>1. UNCHANGED <<desired, feed, actual, startAuctions, stopInstances, pc, change, toStart, clean>>
      BY <1>4 DEF RequestStopAuction, RequestLRPStopAuction, feedVars
    <2> QED BY <2>1, CleanLeft DEF CleanOK, Covered
  <1> QED BY <1>1, <1>2, <1>3, <1>4, CleanFetchStep, CleanRequestStart, CleanRequestStop
          DEF processDesiredChange

\* Run, and the loss of the watch: what is lost spoils its process.
LEMMA CleanRun ==
    ASSUME IInv, CleanOK, Watch \/ WatchLoses \/ ShutDown \/ Return \/ Restart \/ UNCHANGED vars
    PROVE  CleanOK'
  <1> USE DEF bbsVars, feedVars, jobVars
  <1> SUFFICES ASSUME NEW p \in Processes, clean'[p] PROVE Pending(p)' \/ Settled(p)'
    BY DEF CleanOK
  <1>1. UNCHANGED <<desired, actual, startAuctions, stopInstances, pc, change, toStart>>
    BY DEF Watch, WatchLoses, ShutDown, Return, Restart, vars
  <1>2. clean[p] /\ \A k \in DOMAIN feed : feed[k].process = p => \E j \in DOMAIN feed' : feed'[j] = feed[k]
    <2>1. CASE Watch \/ Return \/ Restart \/ UNCHANGED vars
      BY <2>1 DEF Watch, Connect, Return, Restart, vars
    <2>2. CASE ShutDown
      BY <2>2, SpoilClean DEF ShutDown, InFeed
    <2>3. CASE WatchLoses
      <3>1. PICK kept \in 0 .. Len(feed) :
                /\ feed' = SubSeq(feed, 1, kept)
                /\ Spoil({feed[k].process : k \in kept + 1 .. Len(feed)})
        BY <2>3 DEF WatchLoses, Lose
      <3>2. clean[p] /\ \A k \in kept + 1 .. Len(feed) : feed[k].process # p
        BY <3>1, SpoilClean
      <3>3. feed \in Seq(Change)
        BY DEF IInv, TypeOK
      <3>4. ASSUME NEW k \in DOMAIN feed, feed[k].process = p PROVE k \in DOMAIN feed' /\ feed'[k] = feed[k]
        <4>1. k \in 1 .. kept
          BY <3>2, <3>3, <3>4
        <4> QED BY <3>1, <3>3, <4>1
      <3> QED BY <3>2, <3>4
    <2> QED BY <2>1, <2>2, <2>3
  <1> QED BY <1>1, <1>2, CleanLeft DEF CleanOK, Covered

\* The auctioneers and the cells.
LEMMA CleanPeers ==
    ASSUME IInv, CleanOK,
           \/ \E a \in startAuctions : CellReports(a) \/ AuctionEnds(a)
           \/ \E a \in actual : InstanceEnds(a)
           \/ \E a \in stopInstances : StopRequestEnds(a)
           \/ \E s \in stopAuctions : StopAuctionEnds(s)
    PROVE  CleanOK'
  <1> SUFFICES ASSUME NEW p \in Processes, clean'[p] PROVE Pending(p)' \/ Settled(p)'
    BY DEF CleanOK
  <1>1. UNCHANGED <<desired, feed, pc, change, toStart>> /\ stopInstances' \subseteq stopInstances
    BY DEF CellReports, ReportActualLRPAsStarting, AuctionEnds, ResolveLRPStartAuction,
       InstanceEnds, RemoveActualLRP, StopRequestEnds, ResolveStopLRPInstance, StopAuctionEnds,
       ResolveLRPStopAuction, feedVars, handlerVars, jobVars
  <1>2. clean[p]
    BY SpoilClean DEF CellReports, AuctionEnds, InstanceEnds, StopRequestEnds, StopAuctionEnds
  <1>3. ASSUME Settled(p), NEW i \in Wanted(p), Covered(p, i) PROVE Covered(p, i)'
    <2>1. PICK b \in actual \cup startAuctions : b.process = p /\ b.index = i
      BY <1>3 DEF Covered
    <2>2. CASE b \in actual' \cup startAuctions'
      BY <2>1, <2>2 DEF Covered
    <2>3. ASSUME NEW a \in startAuctions, CellReports(a) PROVE b \in actual' \cup startAuctions'
      BY <2>3 DEF CellReports, ReportActualLRPAsStarting
    <2>4. ASSUME NEW a \in startAuctions, AuctionEnds(a) PROVE Covered(p, i)'
      <3>1. actual' = actual /\ startAuctions' = startAuctions \ {a}
            /\ Spoil(IF InstanceOf(a) \in actual THEN {} ELSE {a.process})
        BY <2>4 DEF AuctionEnds, ResolveLRPStartAuction
      <3>2. CASE b = a
        <4>1. InstanceOf(a) \in actual
          BY <2>1, <3>1, <3>2, SpoilClean
        <4>2. InstanceOf(a).process = p /\ InstanceOf(a).index = i
          BY <2>1, <3>2 DEF InstanceOf
        <4> QED BY <3>1, <4>1, <4>2 DEF Covered
      <3> QED BY <2>2, <3>1, <3>2
    <2>5. ASSUME NEW a \in actual, InstanceEnds(a) PROVE Covered(p, i)'
      <3>1. actual' = actual \ {a} /\ startAuctions' = startAuctions
            /\ Spoil(IF a \in stopInstances THEN {} ELSE {a.process})
        BY <2>5 DEF InstanceEnds, RemoveActualLRP
      <3>2. b # a
        <4> SUFFICES ASSUME b = a PROVE FALSE
          OBVIOUS
        <4>1. a \in stopInstances
          BY <2>1, <3>1, SpoilClean
        <4> QED BY <1>3, <2>1, <4>1 DEF Settled
      <3> QED BY <2>2, <3>1, <3>2
    <2>6. ASSUME NEW a \in stopInstances, StopRequestEnds(a) PROVE b \in actual' \cup startAuctions'
      BY <2>6 DEF StopRequestEnds, ResolveStopLRPInstance
    <2>7. ASSUME NEW s \in stopAuctions, StopAuctionEnds(s) PROVE Covered(p, i)'
      <3> DEFINE there == {a \in actual : a.process = s.process /\ a.index = s.index}
      <3>1. PICK keep \in (IF there = {} THEN {s} ELSE there) : ResolveLRPStopAuction(s, keep)
        BY <2>7 DEF StopAuctionEnds
      <3>2. /\ startAuctions' = startAuctions
            /\ actual' = {a \in actual : a.process = s.process /\ a.index = s.index => a = keep}
        BY <3>1 DEF ResolveLRPStopAuction
      <3>3. CASE b \in there
        <4>1. keep \in there
          BY <3>1, <3>3
        <4>2. keep \in actual' /\ keep.process = p /\ keep.index = i
          BY <2>1, <3>2, <3>3, <4>1
        <4> QED BY <4>2 DEF Covered
      <3>4. CASE b \notin there
        BY <2>2, <3>2, <3>4
      <3> QED BY <3>3, <3>4
    <2> QED BY <2>2, <2>3, <2>4, <2>5, <2>6, <2>7
  <1> QED BY <1>1, <1>2, <1>3, CleanLeft DEF CleanOK

LEMMA CleanStep == IInv /\ ActsOK /\ CleanOK /\ [Next]_vars => CleanOK'
  <1> SUFFICES ASSUME IInv, ActsOK, CleanOK, [Next]_vars PROVE CleanOK'
    OBVIOUS
  <1>1. CASE Run
    BY <1>1, CleanRun, CleanReceive DEF Run
  <1>2. CASE \E w \in Workers : processDesiredChange(w)
    BY <1>2, CleanProcess
  <1>3. CASE WatchLoses \/ Restart \/ UNCHANGED vars
    BY <1>3, CleanRun
  <1>4. CASE Kill
    BY <1>4, CleanGone DEF Kill
  <1>5. CASE \/ \E p \in Processes, n \in Counts : ClientDesires(p, n)
             \/ \E p \in Processes : ClientRemoves(p) \/ ClientDeletes(p)
    BY <1>5, CleanWrite DEF ClientDesires, DesireLRP, ClientRemoves, RemoveDesiredLRPByProcessGuid,
                            ClientDeletes, ChangeDesiredLRP
  <1> QED BY <1>1, <1>2, <1>3, <1>4, <1>5, CleanPeers DEF Next, Environment

\* What app-manager guarantees without a converger: when the newest change of
\* a process was handled alone, saw no stop under way, and nothing went wrong
\* since, every desired index has an instance or an auction.
THEOREM CleanCovered == Spec => []CleanMeansCovered
  <1>1. CleanOK => CleanMeansCovered
    <2> SUFFICES ASSUME CleanOK, NEW p \in Processes, clean[p], Quiet(p), NEW i \in Wanted(p)
                 PROVE  Covered(p, i)
      BY DEF CleanMeansCovered
    <2>1. ~ Pending(p)
      BY DEF Quiet, InFeed, Pending
    <2> QED BY <2>1 DEF CleanOK, Settled, Quiet
  <1>2. Spec => []CleanOK
    BY CleanInit, CleanStep, SpecIInv, SpecActs, PTL DEF Spec
  <1> QED BY <1>1, <1>2, PTL
=============================================================================
