------------------------- MODULE DesiredWatchProofs -------------------------
(***************************************************************************)
(* The watch on desired LRPs for logs of any length and any number of      *)
(* errors and cleared histories: Run receives the events in order and none *)
(* twice, never has two watches, and what it sees is a ChangeFeed.  And    *)
(* the converger, whose kicks are events of that watch, undoes no write.   *)
(***************************************************************************)
EXTENDS DesiredWatch, Convergence, SequenceTheorems, WellFoundedInduction, TLAPS

\* The watches before the newest have ended, those after it have not begun.
OnlyNewest ==
    \A g \in Watches :
        /\ g < cur => dpc[g] = "done" /\ fpc[g] = "done"
        /\ g > cur => dpc[g] = "none" /\ fpc[g] = "none" /\ index[g] = 0
NewestBegun == dpc[cur] # "none" /\ fpc[cur] # "none"

\* Only a handler that shuts down stops its watch.
StopsAtEnd == running => stopOuter = {}

\* So a watch that ends before that has had an error, which D met first.
EndsOnError ==
    /\ cur <= errors + 1
    /\ running /\ dpc[cur] \in {"fail", "done"} => cur <= errors
    /\ running /\ fpc[cur] \in {"fail", "done"} => dpc[cur] = "done"
    /\ ~listening => running /\ dpc[cur] = "done" /\ fpc[cur] = "done"

\* What D asks for and what it holds.
Asks ==
    /\ dpc[cur] \in {"wait", "send"} => index[cur] # 0
    /\ dpc[cur] = "send" => index[cur] <= Len(log)

\* Nothing was delivered that F holds or D will ask for.
Ahead ==
    /\ fpc[cur] = "send" => /\ held[cur] # 0 /\ held[cur] <= Len(log)
                            /\ index[cur] # 0 => held[cur] < index[cur]
    /\ \A j \in DOMAIN delivered :
         /\ delivered[j] <= Len(log)
         /\ index[cur] # 0 => delivered[j] < index[cur]
         /\ fpc[cur] = "send" => delivered[j] < held[cur]

IInv ==
    /\ TypeOK
    /\ OnlyNewest
    /\ NewestBegun
    /\ StopsAtEnd
    /\ EndsOnError
    /\ Asks
    /\ Ahead
    /\ DeliveredInOrder

-----------------------------------------------------------------------------
LEMMA WatchNumbers ==
    /\ MaxWatches = MaxErrors + 1 /\ MaxWatches \in Nat /\ 1 \in Watches
    /\ \A g \in Watches : g \in Nat /\ g >= 1
  BY DesiredWatchAssumption DEF MaxWatches, Watches

LEMMA Initially == Init => IInv
  <1> SUFFICES ASSUME Init PROVE IInv
    OBVIOUS
  <1>1. /\ cleared \in 0 .. MaxEvents /\ clears \in 0 .. MaxClears /\ errors \in 0 .. MaxErrors
        /\ Len(log) <= MaxEvents /\ log \in Seq(Event) /\ delivered \in Seq(Positions)
    BY DesiredWatchAssumption DEF Init
  <1>2. /\ dpc \in [Watches -> {"none", "dial", "wait", "send", "fail", "done"}]
        /\ fpc \in [Watches -> {"none", "select", "send", "fail", "done"}]
    BY DEF Init
  <1>3. index \in [Watches -> 0 .. MaxEvents + 1] /\ held \in [Watches -> 0 .. MaxEvents]
    BY DesiredWatchAssumption DEF Init
  <1>4. cur \in Watches
    BY WatchNumbers DEF Init
  <1>5. TypeOK
    BY <1>1, <1>2, <1>3, <1>4 DEF Init, TypeOK, Values
  <1>6. OnlyNewest /\ NewestBegun /\ StopsAtEnd /\ EndsOnError
    BY WatchNumbers DEF Init, OnlyNewest, NewestBegun, StopsAtEnd, EndsOnError
  <1>7. Asks /\ Ahead /\ DeliveredInOrder
    BY WatchNumbers DEF Init, Asks, Ahead, DeliveredInOrder
  <1> QED BY <1>5, <1>6, <1>7 DEF IInv

\* A goroutine that has begun and not ended is the newest watch's.
LEMMA ActsNewest ==
    ASSUME IInv, NEW g \in Watches,
           dpc[g] \notin {"none", "done"} \/ fpc[g] \notin {"none", "done"}
    PROVE  g = cur
  BY WatchNumbers DEF IInv, TypeOK, OnlyNewest

-----------------------------------------------------------------------------
(* etcd.                                                                   *)

LEMMA RecordStep ==
    ASSUME IInv, NEW action \in {"set", "delete", "compareAndDelete"}, NEW v \in Values,
           Record(action, v)
    PROVE  IInv'
  <1> DEFINE e == [action |-> action, node |-> v, prev |-> value]
  <1>1. e \in Event
    BY DEF IInv, TypeOK, Event
  <1>2. log' = Append(log, e) /\ Len(log) < MaxEvents
    BY DEF Record
  <1> HIDE DEF e
  <1>3. log' \in Seq(Event) /\ Len(log') = Len(log) + 1 /\ Len(log') <= MaxEvents /\ Len(log) \in Nat
    BY <1>1, <1>2, DesiredWatchAssumption DEF IInv, TypeOK
  <1>4. TypeOK'
    BY <1>3 DEF IInv, TypeOK, Record, dVars, fVars, hVars
  <1>5. OnlyNewest' /\ NewestBegun' /\ StopsAtEnd' /\ EndsOnError' /\ DeliveredInOrder'
    BY DEF IInv, OnlyNewest, NewestBegun, StopsAtEnd, EndsOnError, DeliveredInOrder, Record,
           dVars, fVars, hVars
  <1>6. index[cur] \in Nat /\ held[cur] \in Nat /\ \A j \in DOMAIN delivered : delivered[j] \in Nat
    BY DesiredWatchAssumption DEF IInv, TypeOK, Positions
  <1>7. Asks' /\ Ahead'
    BY <1>3, <1>6 DEF IInv, Asks, Ahead, Record, dVars, fVars, hVars
  <1> QED BY <1>4, <1>5, <1>7 DEF IInv

LEMMA SetStep ==
    ASSUME IInv, NEW v, Set(v)
    PROVE  IInv'
  <1>1. v \in Values /\ Record("set", v)
    BY DEF Set, Values
  <1> QED BY <1>1, RecordStep

LEMMA DeleteStep ==
    ASSUME IInv, NEW action \in {"delete", "compareAndDelete"}, Delete(action)
    PROVE  IInv'
  <1>1. "nil" \in Values /\ Record(action, "nil")
    BY DEF Delete, Values
  <1> QED BY <1>1, RecordStep

LEMMA ClearHistoryStep ==
    ASSUME IInv, ClearHistory
    PROVE  IInv'
  <1>1. cleared' \in 0 .. MaxEvents /\ clears' \in 0 .. MaxClears
    BY DesiredWatchAssumption DEF IInv, TypeOK, ClearHistory
  <1>2. TypeOK'
    BY <1>1 DEF IInv, TypeOK, ClearHistory, dVars, fVars, hVars
  <1> QED BY <1>2 DEF IInv, OnlyNewest, NewestBegun, StopsAtEnd, EndsOnError, Asks, Ahead,
                      DeliveredInOrder, ClearHistory, dVars, fVars, hVars

-----------------------------------------------------------------------------
(* D.                                                                      *)

\* D's steps leave the rest alone.
LEMMA DTypes ==
    ASSUME IInv, DUnchanged, errors' \in 0 .. MaxErrors,
           dpc' \in [Watches -> {"none", "dial", "wait", "send", "fail", "done"}],
           index' \in [Watches -> 0 .. MaxEvents + 1]
    PROVE  TypeOK' /\ StopsAtEnd' /\ DeliveredInOrder'
  <1>1. TypeOK'
    BY DEF IInv, TypeOK, DUnchanged, etcdVars, fVars, hVars
  <1> QED BY <1>1 DEF IInv, StopsAtEnd, DeliveredInOrder, DUnchanged, hVars

LEMMA DRegisterStep ==
    ASSUME IInv, NEW g \in Watches, DRegister(g)
    PROVE  IInv'
  <1>1. g = cur
    BY ActsNewest DEF DRegister
  <1>2. Len(log) \in Nat /\ Len(log) + 1 \in 0 .. MaxEvents + 1 /\ index[cur] \in Nat
        /\ held[cur] \in Nat /\ \A j \in DOMAIN delivered : delivered[j] \in Nat
    BY DesiredWatchAssumption DEF IInv, TypeOK, Positions
  <1>3. /\ dpc' \in [Watches -> {"none", "dial", "wait", "send", "fail", "done"}]
        /\ index' \in [Watches -> 0 .. MaxEvents + 1] /\ errors' \in 0 .. MaxErrors
    BY <1>2 DEF IInv, TypeOK, DRegister
  <1>4. /\ dpc'[cur] = "wait" /\ index'[cur] = IF index[cur] = 0 THEN Len(log) + 1 ELSE index[cur]
        /\ \A h \in Watches \ {cur} : dpc'[h] = dpc[h] /\ index'[h] = index[h]
    BY <1>1 DEF IInv, TypeOK, DRegister
  <1>5. UNCHANGED <<etcdVars, errors, fVars, hVars>> /\ cur \in Watches
    BY DEF DRegister, DUnchanged, IInv, TypeOK
  <1>6. OnlyNewest'
    BY <1>4, <1>5, WatchNumbers DEF IInv, OnlyNewest, fVars, hVars
  <1>7. NewestBegun' /\ EndsOnError'
    BY <1>1, <1>4, <1>5 DEF IInv, NewestBegun, EndsOnError, fVars, hVars, DRegister
  <1>8. Asks'
    BY <1>2, <1>4, <1>5 DEF Asks, etcdVars, hVars
  <1>9. Ahead'
    BY <1>2, <1>4, <1>5 DEF IInv, Ahead, etcdVars, fVars, hVars
  <1> QED BY <1>3, <1>6, <1>7, <1>8, <1>9, DTypes DEF IInv, DRegister

LEMMA DIndexClearedStep ==
    ASSUME IInv, NEW g \in Watches, DIndexCleared(g)
    PROVE  IInv'
  <1>1. g = cur
    BY ActsNewest DEF DIndexCleared
  <1>2. /\ dpc' \in [Watches -> {"none", "dial", "wait", "send", "fail", "done"}]
        /\ index' \in [Watches -> 0 .. MaxEvents + 1] /\ errors' \in 0 .. MaxErrors
    BY DesiredWatchAssumption DEF IInv, TypeOK, DIndexCleared
  <1>3. /\ dpc' = dpc /\ dpc[cur] = "dial" /\ index'[cur] = 0
        /\ \A h \in Watches \ {cur} : index'[h] = index[h]
    BY <1>1 DEF IInv, TypeOK, DIndexCleared
  <1>4. UNCHANGED <<etcdVars, errors, fVars, hVars>> /\ cur \in Watches
    BY DEF DIndexCleared, DUnchanged, IInv, TypeOK
  <1>5. OnlyNewest' /\ NewestBegun' /\ EndsOnError'
    BY <1>3, <1>4, WatchNumbers DEF IInv, OnlyNewest, NewestBegun, EndsOnError, fVars, hVars
  <1>6. Asks' /\ Ahead'
    BY <1>3, <1>4 DEF IInv, Asks, Ahead, etcdVars, fVars, hVars
  <1> QED BY <1>2, <1>5, <1>6, DTypes DEF IInv, DIndexCleared

LEMMA DEventStep ==
    ASSUME IInv, NEW g \in Watches, DEvent(g)
    PROVE  IInv'
  <1>1. g = cur
    BY ActsNewest DEF DEvent
  <1>2. /\ dpc' \in [Watches -> {"none", "dial", "wait", "send", "fail", "done"}]
        /\ index' \in [Watches -> 0 .. MaxEvents + 1] /\ errors' \in 0 .. MaxErrors
    BY DEF IInv, TypeOK, DEvent
  <1>3. /\ dpc[cur] = "wait" /\ dpc'[cur] = "send" /\ index[cur] <= Len(log) /\ index' = index
        /\ \A h \in Watches \ {cur} : dpc'[h] = dpc[h]
    BY <1>1 DEF IInv, TypeOK, DEvent
  <1>4. UNCHANGED <<etcdVars, errors, fVars, hVars>> /\ cur \in Watches
    BY DEF DEvent, DUnchanged, IInv, TypeOK
  <1>5. OnlyNewest' /\ NewestBegun' /\ EndsOnError'
    BY <1>3, <1>4, WatchNumbers DEF IInv, OnlyNewest, NewestBegun, EndsOnError, fVars, hVars
  <1>6. Asks' /\ Ahead'
    BY <1>3, <1>4 DEF IInv, Asks, Ahead, etcdVars, fVars, hVars
  <1> QED BY <1>2, <1>5, <1>6, DTypes DEF IInv, DEvent

LEMMA DErrorStep ==
    ASSUME IInv, NEW g \in Watches, DError(g)
    PROVE  IInv'
  <1>1. g = cur
    BY ActsNewest DEF DError
  <1>2. /\ dpc' \in [Watches -> {"none", "dial", "wait", "send", "fail", "done"}]
        /\ index' \in [Watches -> 0 .. MaxEvents + 1]
    BY DEF IInv, TypeOK, DError
  <1>3. errors' \in 0 .. MaxErrors /\ errors' = errors + 1 /\ errors \in Nat /\ cur \in Nat
    BY DesiredWatchAssumption, WatchNumbers DEF IInv, TypeOK, DError
  <1>4. /\ dpc[cur] \in {"dial", "wait"} /\ dpc'[cur] = "fail" /\ index' = index
        /\ \A h \in Watches \ {cur} : dpc'[h] = dpc[h]
    BY <1>1 DEF IInv, TypeOK, DError
  <1>5. UNCHANGED <<etcdVars, fVars, hVars>> /\ cur \in Watches
    BY DEF DError, DUnchanged, IInv, TypeOK
  <1>6. OnlyNewest' /\ NewestBegun' /\ EndsOnError'
    BY <1>3, <1>4, <1>5, WatchNumbers DEF IInv, OnlyNewest, NewestBegun, EndsOnError, fVars, hVars
  <1>7. Asks' /\ Ahead'
    BY <1>4, <1>5 DEF IInv, Asks, Ahead, etcdVars, fVars, hVars
  <1> QED BY <1>2, <1>3, <1>6, <1>7, DTypes DEF IInv, DError

\* The inner stop channel is closed only when the handler shuts down.
LEMMA DStoppedStep ==
    ASSUME IInv, NEW g \in Watches, DStopped(g)
    PROVE  IInv'
  <1>1. g = cur
    BY ActsNewest DEF DStopped
  <1>2. /\ dpc' \in [Watches -> {"none", "dial", "wait", "send", "fail", "done"}]
        /\ index' \in [Watches -> 0 .. MaxEvents + 1] /\ errors' \in 0 .. MaxErrors
    BY DEF IInv, TypeOK, DStopped
  <1>3. ~running
    BY DEF IInv, TypeOK, StopsAtEnd, DStopped
  <1>4. /\ dpc[cur] \in {"dial", "wait"} /\ dpc'[cur] = "done" /\ index' = index
        /\ \A h \in Watches \ {cur} : dpc'[h] = dpc[h]
    BY <1>1 DEF IInv, TypeOK, DStopped
  <1>5. UNCHANGED <<etcdVars, errors, fVars, hVars>> /\ cur \in Watches
    BY DEF DStopped, DUnchanged, IInv, TypeOK
  <1>6. OnlyNewest' /\ NewestBegun' /\ EndsOnError'
    BY <1>3, <1>4, <1>5, WatchNumbers DEF IInv, OnlyNewest, NewestBegun, EndsOnError, fVars, hVars
  <1>7. Asks' /\ Ahead'
    BY <1>4, <1>5 DEF IInv, Asks, Ahead, etcdVars, fVars, hVars
  <1> QED BY <1>2, <1>6, <1>7, DTypes DEF IInv, DStopped

-----------------------------------------------------------------------------
(* F.                                                                      *)

\* What F takes from D is later than all that was delivered.
LEMMA FEventStep ==
    ASSUME IInv, NEW g \in Watches, FEvent(g)
    PROVE  IInv'
  <1>1. g = cur /\ cur \in Watches
    BY ActsNewest DEF FEvent
  <1>2. /\ Len(log) \in Nat /\ index[cur] \in Nat /\ held[cur] \in Nat
        /\ \A j \in DOMAIN delivered : delivered[j] \in Nat
    BY DesiredWatchAssumption DEF IInv, TypeOK, Positions
  <1>3. /\ dpc[cur] = "send" /\ fpc[cur] = "select"
        /\ index[cur] # 0 /\ index[cur] <= Len(log) /\ Len(log) <= MaxEvents
    BY <1>1 DEF FEvent, IInv, TypeOK, Asks
  <1>4. index[cur] \in 0 .. MaxEvents /\ index[cur] + 1 \in 0 .. MaxEvents + 1
    BY <1>2, <1>3, DesiredWatchAssumption
  <1>5. \/ fpc' = [fpc EXCEPT ![cur] = "send"] /\ held' = [held EXCEPT ![cur] = index[cur]]
        \/ fpc' = fpc /\ held' = held
    BY <1>1 DEF FEvent, fVars
  <1>6. /\ dpc' = [dpc EXCEPT ![cur] = "dial"] /\ index' = [index EXCEPT ![cur] = @ + 1]
        /\ UNCHANGED <<etcdVars, errors, hVars, stopInner>>
    BY <1>1 DEF FEvent
  <1>7. /\ dpc' \in [Watches -> {"none", "dial", "wait", "send", "fail", "done"}]
        /\ fpc' \in [Watches -> {"none", "select", "send", "fail", "done"}]
        /\ index' \in [Watches -> 0 .. MaxEvents + 1] /\ held' \in [Watches -> 0 .. MaxEvents]
    BY <1>4, <1>5, <1>6 DEF IInv, TypeOK
  <1>8. TypeOK'
    BY <1>6, <1>7 DEF IInv, TypeOK, etcdVars, hVars
  <1>9. /\ dpc'[cur] = "dial" /\ index'[cur] = index[cur] + 1
        /\ fpc'[cur] \in {"select", "send"} /\ (fpc'[cur] = "send" => held'[cur] = index[cur])
        /\ \A h \in Watches \ {cur} : dpc'[h] = dpc[h] /\ fpc'[h] = fpc[h] /\ index'[h] = index[h]
    BY <1>1, <1>3, <1>5, <1>6 DEF IInv, TypeOK
  <1>10. OnlyNewest'
    BY <1>1, <1>6, <1>9, WatchNumbers DEF IInv, OnlyNewest, hVars
  <1>11. NewestBegun' /\ StopsAtEnd' /\ EndsOnError' /\ DeliveredInOrder'
    BY <1>3, <1>6, <1>9 DEF IInv, NewestBegun, StopsAtEnd, EndsOnError, DeliveredInOrder, hVars
  <1>12. Asks' /\ Ahead'
    BY <1>2, <1>3, <1>6, <1>9 DEF IInv, Asks, Ahead, etcdVars, hVars
  <1> QED BY <1>8, <1>10, <1>11, <1>12 DEF IInv

LEMMA FErrorStep ==
    ASSUME IInv, NEW g \in Watches, FError(g)
    PROVE  IInv'
  <1>1. g = cur /\ cur \in Watches
    BY ActsNewest DEF FError
  <1>2. UNCHANGED <<etcdVars, errors, index, held, hVars, stopInner>>
    BY DEF FError
  <1>3. /\ dpc' \in [Watches -> {"none", "dial", "wait", "send", "fail", "done"}]
        /\ fpc' \in [Watches -> {"none", "select", "send", "fail", "done"}]
        /\ dpc[cur] \in {"fail", "done"} /\ fpc[cur] = "select"
        /\ dpc'[cur] = "done" /\ fpc'[cur] \in {"fail", "done"}
        /\ \A h \in Watches \ {cur} : dpc'[h] = dpc[h] /\ fpc'[h] = fpc[h]
    BY <1>1 DEF IInv, TypeOK, FError
  <1>4. TypeOK'
    BY <1>2, <1>3 DEF IInv, TypeOK, etcdVars, hVars
  <1>5. OnlyNewest'
    BY <1>1, <1>2, <1>3, WatchNumbers DEF IInv, OnlyNewest, hVars
  <1>6. NewestBegun' /\ StopsAtEnd' /\ EndsOnError' /\ DeliveredInOrder'
    BY <1>2, <1>3 DEF IInv, NewestBegun, StopsAtEnd, EndsOnError, DeliveredInOrder, hVars
  <1>7. Asks' /\ Ahead'
    BY <1>2, <1>3 DEF IInv, Asks, Ahead, etcdVars, hVars
  <1> QED BY <1>4, <1>5, <1>6, <1>7 DEF IInv

LEMMA FStoppedStep ==
    ASSUME IInv, NEW g \in Watches, FStopped(g)
    PROVE  IInv'
  <1>1. g = cur /\ cur \in Watches /\ ~running
    BY ActsNewest DEF IInv, StopsAtEnd, FStopped
  <1>2. UNCHANGED <<etcdVars, errors, dVars, held, hVars>> /\ stopInner' = stopInner \cup {g}
        /\ g \in stopOuter
    BY DEF FStopped
  <1>3. /\ fpc' \in [Watches -> {"none", "select", "send", "fail", "done"}]
        /\ fpc[cur] = "select" /\ fpc'[cur] = "done"
        /\ \A h \in Watches \ {cur} : fpc'[h] = fpc[h]
    BY <1>1 DEF IInv, TypeOK, FStopped
  <1>4. TypeOK'
    BY <1>2, <1>3 DEF IInv, TypeOK, etcdVars, hVars, dVars
  <1>5. OnlyNewest'
    BY <1>1, <1>2, <1>3, WatchNumbers DEF IInv, OnlyNewest, hVars, dVars
  <1>6. NewestBegun' /\ StopsAtEnd' /\ EndsOnError' /\ DeliveredInOrder'
    BY <1>1, <1>2, <1>3 DEF IInv, NewestBegun, StopsAtEnd, EndsOnError, DeliveredInOrder, hVars, dVars
  <1>7. Asks' /\ Ahead'
    BY <1>2, <1>3 DEF IInv, Asks, Ahead, etcdVars, hVars, dVars
  <1> QED BY <1>4, <1>5, <1>6, <1>7 DEF IInv

-----------------------------------------------------------------------------
(* H.                                                                      *)

LEMMA HChangeStep ==
    ASSUME IInv, NEW g \in Watches, HChange(g)
    PROVE  IInv'
  <1>1. g = cur /\ cur \in Watches /\ fpc[cur] = "send" /\ running /\ listening
    BY DEF HChange
  <1>2. /\ UNCHANGED <<etcdVars, errors, dVars, running, cur, listening, stopOuter, stopInner>>
        /\ delivered' = Append(delivered, held[cur])
    BY <1>1 DEF HChange
  <1>3. /\ fpc' \in [Watches -> {"none", "select", "send", "fail", "done"}]
        /\ held' \in [Watches -> 0 .. MaxEvents] /\ fpc'[cur] = "select"
        /\ \A h \in Watches \ {cur} : fpc'[h] = fpc[h]
    BY <1>1, DesiredWatchAssumption DEF IInv, TypeOK, HChange
  <1>4. held[cur] \in Positions /\ held[cur] <= Len(log)
        /\ (index[cur] # 0 => held[cur] < index[cur])
        /\ \A j \in DOMAIN delivered : delivered[j] < held[cur]
    BY <1>1, DesiredWatchAssumption DEF IInv, TypeOK, Ahead, Positions
  <1>5. /\ delivered' \in Seq(Positions) /\ DOMAIN delivered' = 1 .. Len(delivered) + 1
        /\ DOMAIN delivered = 1 .. Len(delivered) /\ Len(delivered) \in Nat
        /\ \A j \in 1 .. Len(delivered) : delivered'[j] = delivered[j]
        /\ delivered'[Len(delivered) + 1] = held[cur]
    BY <1>2, <1>4 DEF IInv, TypeOK
  <1>6. TypeOK'
    BY <1>2, <1>3, <1>5 DEF IInv, TypeOK, etcdVars, dVars
  <1>7. OnlyNewest'
    BY <1>1, <1>2, <1>3, WatchNumbers DEF IInv, OnlyNewest, dVars
  <1>8. NewestBegun' /\ StopsAtEnd' /\ EndsOnError' /\ Asks'
    BY <1>1, <1>2, <1>3 DEF IInv, NewestBegun, StopsAtEnd, EndsOnError, Asks, dVars, etcdVars
  <1>9. Ahead'
    <2> SUFFICES ASSUME NEW j \in DOMAIN delivered'
                 PROVE  delivered'[j] <= Len(log) /\ (index[cur] # 0 => delivered'[j] < index[cur])
      BY <1>2, <1>3 DEF Ahead, dVars, etcdVars
    <2>1. CASE j \in 1 .. Len(delivered)
      BY <1>5, <2>1 DEF IInv, Ahead
    <2>2. CASE j = Len(delivered) + 1
      BY <1>4, <1>5, <2>2
    <2> QED BY <1>5, <2>1, <2>2
  <1>10. DeliveredInOrder'
    <2> SUFFICES ASSUME NEW j \in DOMAIN delivered', NEW k \in DOMAIN delivered', j < k
                 PROVE  delivered'[j] < delivered'[k]
      BY DEF DeliveredInOrder
    <2>1. j \in 1 .. Len(delivered)
      BY <1>5
    <2>2. CASE k \in 1 .. Len(delivered)
      BY <1>5, <2>1, <2>2 DEF IInv, DeliveredInOrder
    <2>3. CASE k = Len(delivered) + 1
      BY <1>4, <1>5, <2>1, <2>3
    <2> QED BY <1>5, <2>2, <2>3
  <1> QED BY <1>6, <1>7, <1>8, <1>9, <1>10 DEF IInv

LEMMA HErrorStep ==
    ASSUME IInv, NEW g \in Watches, HError(g)
    PROVE  IInv'
  <1>1. g = cur /\ cur \in Watches /\ fpc[cur] \in {"fail", "done"} /\ running
        /\ dpc[cur] = "done" /\ listening' = FALSE
    BY DEF IInv, EndsOnError, HError
  <1>2. UNCHANGED <<etcdVars, errors, dVars, held, running, cur, delivered, stopOuter, stopInner>>
    BY DEF HError
  <1>3. /\ fpc' \in [Watches -> {"none", "select", "send", "fail", "done"}]
        /\ fpc'[cur] = "done" /\ \A h \in Watches \ {cur} : fpc'[h] = fpc[h]
    BY <1>1 DEF IInv, TypeOK, HError
  <1>4. TypeOK'
    BY <1>1, <1>2, <1>3 DEF IInv, TypeOK, etcdVars, dVars
  <1>5. OnlyNewest'
    BY <1>1, <1>2, <1>3, WatchNumbers DEF IInv, OnlyNewest, dVars
  <1>6. NewestBegun' /\ StopsAtEnd' /\ EndsOnError' /\ DeliveredInOrder'
    BY <1>1, <1>2, <1>3 DEF IInv, NewestBegun, StopsAtEnd, EndsOnError, DeliveredInOrder, dVars
  <1>7. Asks' /\ Ahead'
    BY <1>2, <1>3 DEF IInv, Asks, Ahead, etcdVars, dVars
  <1> QED BY <1>4, <1>5, <1>6, <1>7 DEF IInv

\* There is a number left for the new watch, for each that ended had an error.
LEMMA HRewatchStep ==
    ASSUME IInv, HRewatch
    PROVE  IInv'
  <1>1. /\ dpc[cur] = "done" /\ fpc[cur] = "done" /\ cur <= errors /\ running
        /\ cur \in Nat /\ errors \in Nat /\ errors <= MaxErrors /\ cur >= 1
    BY WatchNumbers, DesiredWatchAssumption DEF IInv, TypeOK, EndsOnError, HRewatch
  <1>2. cur + 1 \in Watches /\ cur' = cur + 1
    BY <1>1, WatchNumbers, DesiredWatchAssumption DEF Watches, HRewatch
  <1>3. UNCHANGED <<etcdVars, errors, index, held, running, delivered, stopOuter, stopInner>>
        /\ listening' = TRUE
    BY DEF HRewatch
  <1>4. /\ dpc' \in [Watches -> {"none", "dial", "wait", "send", "fail", "done"}]
        /\ fpc' \in [Watches -> {"none", "select", "send", "fail", "done"}]
        /\ dpc'[cur + 1] = "dial" /\ fpc'[cur + 1] = "select"
        /\ \A h \in Watches \ {cur + 1} : dpc'[h] = dpc[h] /\ fpc'[h] = fpc[h]
    BY <1>2 DEF IInv, TypeOK, HRewatch, WatchWithFilter
  <1>5. index[cur + 1] = 0
    BY <1>1, <1>2 DEF IInv, OnlyNewest
  <1>6. TypeOK'
    BY <1>2, <1>3, <1>4 DEF IInv, TypeOK, etcdVars
  <1>7. OnlyNewest'
    <2> SUFFICES ASSUME NEW g \in Watches
                 PROVE  /\ g < cur + 1 => dpc'[g] = "done" /\ fpc'[g] = "done"
                        /\ g > cur + 1 => dpc'[g] = "none" /\ fpc'[g] = "none" /\ index'[g] = 0
      BY <1>2 DEF OnlyNewest
    <2>1. g \in Nat
      BY WatchNumbers
    <2>2. CASE g = cur
      BY <1>1, <1>4, <2>2
    <2>3. CASE g # cur
      BY <1>1, <1>3, <1>4, <2>1, <2>3 DEF IInv, OnlyNewest
    <2> QED BY <2>2, <2>3
  <1>8. NewestBegun' /\ StopsAtEnd' /\ EndsOnError' /\ DeliveredInOrder'
    BY <1>1, <1>2, <1>3, <1>4 DEF IInv, NewestBegun, StopsAtEnd, EndsOnError, DeliveredInOrder
  <1>9. Asks' /\ Ahead'
    BY <1>2, <1>3, <1>4, <1>5 DEF IInv, Asks, Ahead, etcdVars
  <1> QED BY <1>6, <1>7, <1>8, <1>9 DEF IInv

LEMMA HSignalStep ==
    ASSUME IInv, HSignal
    PROVE  IInv'
  <1>1. TypeOK'
    BY DEF IInv, TypeOK, HSignal, etcdVars, dVars, fVars
  <1> QED BY <1>1 DEF IInv, OnlyNewest, NewestBegun, StopsAtEnd, EndsOnError, Asks, Ahead,
                      DeliveredInOrder, HSignal, etcdVars, dVars, fVars

-----------------------------------------------------------------------------
LEMMA IInvStep == IInv /\ [Next]_vars => IInv'
  <1> SUFFICES ASSUME IInv, [Next]_vars PROVE IInv'
    OBVIOUS
  <1>1. ASSUME NEW v \in Written, Set(v) PROVE IInv'
    BY <1>1, SetStep
  <1>2. ASSUME NEW action \in {"delete", "compareAndDelete"}, Delete(action) PROVE IInv'
    BY <1>2, DeleteStep
  <1>3. CASE ClearHistory
    BY <1>3, ClearHistoryStep
  <1>4. ASSUME NEW g \in Watches, D(g) \/ DError(g) PROVE IInv'
    BY <1>4, DRegisterStep, DIndexClearedStep, DEventStep, DErrorStep, DStoppedStep DEF D
  <1>5. ASSUME NEW g \in Watches, F(g) PROVE IInv'
    BY <1>5, FEventStep, FErrorStep, FStoppedStep DEF F
  <1>6. CASE H
    BY <1>6, HRewatchStep, HChangeStep, HErrorStep DEF H
  <1>7. CASE HSignal
    BY <1>7, HSignalStep
  <1>8. CASE UNCHANGED vars
    <2>1. TypeOK'
      BY <1>8 DEF vars, IInv, TypeOK, etcdVars, dVars, fVars, hVars
    <2> QED BY <1>8, <2>1 DEF vars, etcdVars, dVars, fVars, hVars, IInv, OnlyNewest, NewestBegun,
               StopsAtEnd, EndsOnError, Asks, Ahead, DeliveredInOrder
  <1> QED BY <1>1, <1>2, <1>3, <1>4, <1>5, <1>6, <1>7, <1>8 DEF Next

LEMMA SpecIInv == Spec => []IInv
  BY Initially, IInvStep, PTL DEF Spec

-----------------------------------------------------------------------------
\* handler.go:47-68 and dispatchWatchEvents: the events that Run receives are
\* in the order of etcd's log and none comes twice, across errors, cleared
\* histories and new watches.
THEOREM EventsInOrder == Spec => []DeliveredInOrder
  <1>1. IInv => DeliveredInOrder
    BY DEF IInv
  <1> QED BY SpecIInv, <1>1, PTL

\* Run makes a new watch only when both goroutines of the old one have ended,
\* although it does not close the old one's stop channel.
THEOREM NoWatchLeftBehind == Spec => []OldWatchesEnded
  <1>1. IInv => OldWatchesEnded
    BY DEF IInv, OnlyNewest, OldWatchesEnded
  <1> QED BY SpecIInv, <1>1, PTL

-----------------------------------------------------------------------------
(* The refinement.  A finite set of numbers has one increasing list, which *)
(* is shown by its least counterexample; so the list of what is under way  *)
(* grows at its end and shrinks at its front as the set does.              *)

LEMMA LeastNumber ==
  ASSUME NEW T, T \subseteq Nat, T # {}
  PROVE  \E x \in T : \A y \in T : x <= y
  <1>1. \E x \in T : \A y \in T : <<y, x>> \notin OpToRel(<, Nat)
    BY WFMin, NatLessThanWellFounded
  <1>2. \A x, y \in Nat : y < x => <<y, x>> \in OpToRel(<, Nat)
    BY DEF OpToRel
  <1>3. \A x, y \in Nat : x <= y \/ y < x
    OBVIOUS
  <1> QED BY <1>1, <1>2, <1>3

\* The shorter of two lists of a set begins the other.
LEMMA ListBegins ==
  ASSUME NEW S \in SUBSET Nat, NEW m \in Nat, NEW n \in Nat, NEW c \in [1 .. m -> S], NEW d \in [1 .. n -> S],
         Lists(c, S), Lists(d, S)
  PROVE  \A i \in 1 .. m : i <= n /\ c[i] = d[i]
  <1> DEFINE T == {i \in 1 .. m : ~(i <= n /\ c[i] = d[i])}
  <1>0. /\ \A i, j \in 1 .. m : i < j => c[i] < c[j]
        /\ \A i, j \in 1 .. n : i < j => d[i] < d[j]
        /\ \A k \in S : \E i \in 1 .. m : c[i] = k
        /\ \A k \in S : \E i \in 1 .. n : d[i] = k
    BY DEF Lists
  <1>1. SUFFICES ASSUME T # {} PROVE FALSE
    OBVIOUS
  <1>2. PICK i \in T : \A y \in T : i <= y
    <2>1. T \subseteq Nat
      OBVIOUS
    <2> HIDE DEF T
    <2> QED BY <1>1, <2>1, LeastNumber
  <1>3. i \in 1 .. m /\ ~(i <= n /\ c[i] = d[i]) /\ \A j \in 1 .. i - 1 : j <= n /\ c[j] = d[j]
    BY <1>2
  <1> HIDE DEF T
  <1>4. PICK k \in 1 .. n : d[k] = c[i]
    BY <1>0, <1>3
  <1>5. ~(k < i)
    <2> SUFFICES ASSUME k < i PROVE FALSE
      OBVIOUS
    <2>1. k \in 1 .. i - 1 /\ k \in 1 .. m /\ i \in 1 .. m
      BY <1>3, <1>4
    <2>2. c[k] = d[k] /\ c[k] < c[i] /\ c[i] \in Nat
      BY <1>0, <1>3, <2>1
    <2> QED BY <1>4, <2>2
  <1>6. i <= n /\ c[i] # d[i] /\ k > i /\ d[i] < c[i]
    BY <1>0, <1>3, <1>4, <1>5
  <1>7. PICK l \in 1 .. m : c[l] = d[i]
    <2>1. d[i] \in S
      BY <1>3, <1>6
    <2> QED BY <1>0, <2>1
  <1>8. c[l] \in Nat /\ c[i] \in Nat /\ d[i] \in Nat
    BY <1>3, <1>6, <1>7
  <1>9. CASE l < i
    <2>1. c[l] = d[l] /\ d[l] < d[i]
      BY <1>0, <1>3, <1>6, <1>7, <1>9
    <2> QED BY <1>7, <1>8, <2>1
  <1>10. CASE l = i
    BY <1>6, <1>7, <1>10
  <1>11. CASE l > i
    <2>1. c[i] < c[l]
      BY <1>0, <1>3, <1>7, <1>11
    <2> QED BY <1>6, <1>7, <1>8, <2>1
  <1> QED BY <1>3, <1>7, <1>9, <1>10, <1>11

LEMMA OneList ==
  ASSUME NEW S \in SUBSET Nat, NEW m \in Nat, NEW n \in Nat, NEW c \in [1 .. m -> S], NEW d \in [1 .. n -> S],
         Lists(c, S), Lists(d, S)
  PROVE  c = d
  <1>1. \A i \in 1 .. m : i <= n /\ c[i] = d[i]
    BY ListBegins
  <1>2. \A i \in 1 .. n : i <= m /\ d[i] = c[i]
    BY ListBegins
  <1>3. m = n
    <2>1. m > 0 => m <= n
      BY <1>1
    <2>2. n > 0 => n <= m
      BY <1>2
    <2> QED BY <2>1, <2>2
  <1> QED BY <1>1, <1>3

LEMMA ListExists ==
  ASSUME NEW n \in Nat, NEW S \in SUBSET (1 .. n)
  PROVE  \E l \in 0 .. n : \E c \in [1 .. l -> S] : Lists(c, S)
  <1> DEFINE Listed(k) == \A R \in SUBSET (1 .. k) : \E l \in 0 .. k : \E c \in [1 .. l -> R] : Lists(c, R)
             T == {k \in Nat : ~Listed(k)}
  <1>1. SUFFICES T = {}
    OBVIOUS
  <1>2. SUFFICES ASSUME T # {} PROVE FALSE
    OBVIOUS
  <1>3. PICK x \in T : \A y \in T : x <= y
    <2>1. T \subseteq Nat
      OBVIOUS
    <2> HIDE DEF T
    <2> QED BY <1>2, <2>1, LeastNumber
  <1>4. x \in Nat /\ ~Listed(x) /\ \A y \in Nat : y < x => Listed(y)
    <2> HIDE DEF Listed
    <2>1. x \in Nat /\ ~Listed(x)
      BY <1>3
    <2>2. \A y \in Nat : ~Listed(y) => x <= y
      BY <1>3
    <2>3. \A y \in Nat : y < x => ~(x <= y)
      BY <2>1
    <2> QED BY <2>1, <2>2, <2>3
  <1> HIDE DEF T
  <1>5. PICK R \in SUBSET (1 .. x) : ~\E l \in 0 .. x : \E c \in [1 .. l -> R] : Lists(c, R)
    BY <1>4
  <1>6. CASE R = {}
    <2> DEFINE c == [i \in 1 .. 0 |-> i]
    <2>1. c \in [1 .. 0 -> R] /\ DOMAIN c = {}
      OBVIOUS
    <2>2. Lists(c, R)
      BY <1>6, <2>1 DEF Lists
    <2> HIDE DEF c
    <2>3. 0 \in 0 .. x
      BY <1>4
    <2> QED BY <1>5, <2>1, <2>2, <2>3
  <1>7. CASE R # {}
    <2>1. x - 1 \in Nat /\ Listed(x - 1)
      <3> HIDE DEF Listed
      <3>1. x # 0
        <4>1. PICK y \in R : TRUE
          BY <1>7
        <4>2. y \in 1 .. x
          BY <1>5, <4>1
        <4> QED BY <1>4, <4>2
      <3>2. x - 1 \in Nat /\ x - 1 < x
        BY <1>4, <3>1
      <3> QED BY <1>4, <3>2
    <2> DEFINE R0 == R \ {x}
    <2>2. R0 \in SUBSET (1 .. x - 1)
      BY <1>4, <1>5
    <2>3. PICK l \in 0 .. x - 1 : \E c \in [1 .. l -> R0] : Lists(c, R0)
      BY <2>1, <2>2
    <2>4. PICK c \in [1 .. l -> R0] : Lists(c, R0)
      BY <2>3
    <2>5. CASE x \notin R
      <3>1. R0 = R /\ l \in 0 .. x
        BY <1>4, <2>5
      <3> QED BY <1>5, <2>4, <3>1
    <2>6. CASE x \in R
      <3> DEFINE e == [i \in 1 .. l + 1 |-> IF i = l + 1 THEN x ELSE c[i]]
      <3>1. e \in [1 .. l + 1 -> R] /\ l + 1 \in 0 .. x
        BY <1>4, <2>4, <2>6
      <3>2. \A i \in 1 .. l : c[i] \in R0 /\ c[i] < x
        <4>1. \A k \in R0 : k < x
          BY <1>4, <2>2
        <4>2. \A i \in 1 .. l : c[i] \in R0
          BY <2>4
        <4> QED BY <4>1, <4>2
      <3>3. /\ \A i, j \in 1 .. l : i < j => c[i] < c[j]
            /\ \A k \in R0 : \E i \in 1 .. l : c[i] = k
        BY <2>4 DEF Lists
      <3>4. \A i, j \in 1 .. l + 1 : i < j => e[i] < e[j]
        BY <3>2, <3>3
      <3>5. \A k \in R : \E i \in 1 .. l + 1 : e[i] = k
        <4> TAKE k \in R
        <4>1. CASE k = x
          BY <4>1
        <4>2. CASE k # x
          <5>1. PICK i \in 1 .. l : c[i] = k
            BY <3>3, <4>2
          <5> QED BY <5>1
        <4> QED BY <4>1, <4>2
      <3>6. Lists(e, R)
        BY <3>1, <3>4, <3>5 DEF Lists
      <3> QED BY <1>5, <3>1, <3>6
    <2> QED BY <2>5, <2>6
  <1> QED BY <1>6, <1>7

LEMMA InOrderLists ==
  ASSUME NEW S \in SUBSET Positions
  PROVE  /\ S \in SUBSET Nat
         /\ InOrder(S) \in Seq(S) /\ InOrder(S) \in Seq(Positions)
         /\ Len(InOrder(S)) \in Nat /\ InOrder(S) \in [1 .. Len(InOrder(S)) -> S]
         /\ Lists(InOrder(S), S)
  <1> DEFINE c == InOrder(S)
  <1>0. MaxEvents \in Nat /\ S \in SUBSET (1 .. MaxEvents) /\ S \in SUBSET Nat
    BY DesiredWatchAssumption DEF Positions
  <1>1. \E d \in UNION {[1 .. n -> S] : n \in 0 .. MaxEvents} : Lists(d, S)
    <2>1. \E l \in 0 .. MaxEvents : \E d \in [1 .. l -> S] : Lists(d, S)
      BY <1>0, ListExists
    <2>2. PICK l \in 0 .. MaxEvents : \E d \in [1 .. l -> S] : Lists(d, S)
      BY <2>1
    <2>3. PICK d \in [1 .. l -> S] : Lists(d, S)
      BY <2>2
    <2>4. d \in UNION {[1 .. n -> S] : n \in 0 .. MaxEvents}
      BY <2>2, <2>3
    <2> QED BY <2>3, <2>4
  <1>2. c \in UNION {[1 .. n -> S] : n \in 0 .. MaxEvents} /\ Lists(c, S)
    BY <1>1 DEF InOrder
  <1>3. PICK n \in 0 .. MaxEvents : c \in [1 .. n -> S]
    BY <1>2
  <1> HIDE DEF c
  <1>4. n \in Nat /\ c \in Seq(S)
    BY <1>3
  <1>5. c \in Seq(Positions)
    BY <1>4
  <1>6. Len(c) \in Nat /\ c \in [1 .. Len(c) -> S]
    BY <1>4, LenProperties
  <1> QED BY <1>0, <1>2, <1>4, <1>5, <1>6 DEF c

\* Whatever lists a set is its list.
LEMMA InOrderIs ==
  ASSUME NEW S \in SUBSET Positions, NEW c \in Seq(S), Lists(c, S)
  PROVE  InOrder(S) = c
  <1> DEFINE d == InOrder(S)
  <1>1. S \in SUBSET Nat /\ Len(d) \in Nat /\ d \in [1 .. Len(d) -> S] /\ Lists(d, S)
    BY InOrderLists
  <1>2. Len(c) \in Nat /\ c \in [1 .. Len(c) -> S]
    BY LenProperties
  <1> HIDE DEF d
  <1>3. d = c
    BY <1>1, <1>2, OneList
  <1> QED BY <1>3 DEF d

LEMMA InOrderEmpty == InOrder({}) = <<>>
  <1>1. Lists(<<>>, {})
    BY DEF Lists
  <1>2. {} \in SUBSET Positions /\ <<>> \in Seq({})
    OBVIOUS
  <1> QED BY <1>1, <1>2, InOrderIs

LEMMA InOrderGrows ==
  ASSUME NEW S \in SUBSET Positions, NEW e \in Positions, \A k \in S : k < e
  PROVE  InOrder(S \cup {e}) = Append(InOrder(S), e)
  <1> DEFINE c == InOrder(S)
             R == S \cup {e}
             d == Append(c, e)
             n == Len(c)
  <1>1. c \in Seq(S) /\ n \in Nat /\ DOMAIN c = 1 .. n /\ Lists(c, S) /\ \A i \in 1 .. n : c[i] \in S
    BY InOrderLists
  <1> HIDE DEF c
  <1>2. R \in SUBSET Positions /\ c \in Seq(R) /\ e \in R
    BY <1>1
  <1>3. d \in Seq(R) /\ DOMAIN d = 1 .. n + 1 /\ (\A i \in 1 .. n : d[i] = c[i]) /\ d[n + 1] = e
    BY <1>2, AppendProperties, LenProperties
  <1> HIDE DEF d, R
  <1>4. \A i, j \in 1 .. n + 1 : i < j => d[i] < d[j]
    <2> SUFFICES ASSUME NEW i \in 1 .. n + 1, NEW j \in 1 .. n + 1, i < j PROVE d[i] < d[j]
      OBVIOUS
    <2>1. i \in 1 .. n /\ (j \in 1 .. n \/ j = n + 1)
      BY <1>1
    <2>2. CASE j \in 1 .. n
      BY <1>1, <1>3, <2>1, <2>2 DEF Lists
    <2>3. CASE j = n + 1
      BY <1>1, <1>3, <2>1, <2>3
    <2> QED BY <2>1, <2>2, <2>3
  <1>5. \A k \in R : \E i \in 1 .. n + 1 : d[i] = k
    <2> TAKE k \in R
    <2>1. CASE k = e
      BY <1>1, <1>3, <2>1
    <2>2. CASE k # e
      <3>1. PICK i \in 1 .. n : c[i] = k
        BY <1>1, <2>2 DEF Lists, R
      <3> QED BY <1>1, <1>3, <3>1
    <2> QED BY <2>1, <2>2
  <1>6. Lists(d, R)
    BY <1>3, <1>4, <1>5 DEF Lists
  <1>7. InOrder(R) = d
    BY <1>2, <1>3, <1>6, InOrderIs
  <1> QED BY <1>7 DEF R, d, c

LEMMA InOrderBegins ==
  ASSUME NEW S \in SUBSET Positions, NEW e \in Positions, \A k \in S : e < k
  PROVE  InOrder(S \cup {e}) = <<e>> \o InOrder(S)
  <1> DEFINE c == InOrder(S)
             R == S \cup {e}
             d == <<e>> \o c
             n == Len(c)
  <1>1. c \in Seq(S) /\ n \in Nat /\ DOMAIN c = 1 .. n /\ Lists(c, S) /\ \A i \in 1 .. n : c[i] \in S
    BY InOrderLists
  <1> HIDE DEF c
  <1>2. R \in SUBSET Positions /\ c \in Seq(R) /\ e \in R /\ <<e>> \in Seq(R) /\ Len(<<e>>) = 1 /\ <<e>>[1] = e
    BY <1>1
  <1>3. d \in Seq(R) /\ Len(d) = 1 + n
        /\ \A i \in 1 .. 1 + n : d[i] = IF i <= 1 THEN <<e>>[i] ELSE c[i - 1]
    BY <1>2, ConcatProperties
  <1>4. DOMAIN d = 1 .. 1 + n
    BY <1>3, LenProperties
  <1> HIDE DEF d, R
  <1>5. d[1] = e /\ \A i \in 1 .. n : d[i + 1] = c[i]
    BY <1>1, <1>2, <1>3
  <1>6. \A i, j \in 1 .. 1 + n : i < j => d[i] < d[j]
    <2> SUFFICES ASSUME NEW i \in 1 .. 1 + n, NEW j \in 1 .. 1 + n, i < j PROVE d[i] < d[j]
      OBVIOUS
    <2>1. j - 1 \in 1 .. n /\ (i - 1 \in 1 .. n \/ i = 1) /\ i - 1 < j - 1
      BY <1>1
    <2>2. d[j] = c[j - 1]
      BY <1>3, <2>1
    <2>3. CASE i = 1
      BY <1>1, <1>5, <2>1, <2>2, <2>3
    <2>4. CASE i - 1 \in 1 .. n
      <3>1. d[i] = c[i - 1]
        BY <1>3, <2>4
      <3> QED BY <1>1, <2>1, <2>2, <2>4, <3>1 DEF Lists
    <2> QED BY <2>1, <2>3, <2>4
  <1>7. \A k \in R : \E i \in 1 .. 1 + n : d[i] = k
    <2> TAKE k \in R
    <2>1. CASE k = e
      BY <1>1, <1>5, <2>1
    <2>2. CASE k # e
      <3>1. PICK i \in 1 .. n : c[i] = k
        BY <1>1, <2>2 DEF Lists, R
      <3>2. i + 1 \in 1 .. 1 + n /\ d[i + 1] = k
        BY <1>1, <1>5, <3>1
      <3> QED BY <3>2
    <2> QED BY <2>1, <2>2
  <1>8. Lists(d, R)
    BY <1>4, <1>6, <1>7 DEF Lists
  <1>9. InOrder(R) = d
    BY <1>2, <1>3, <1>8, InOrderIs
  <1> QED BY <1>9 DEF R, d, c

-----------------------------------------------------------------------------
(* What the caller will receive: the change F holds, and those D holds or  *)
(* will ask for.                                                           *)

Holds == IF running /\ fpc[cur] = "send" THEN <<held[cur]>> ELSE <<>>
Due == {k \in index[cur] .. Len(log) : filter(log[k])}
Asked == IF FeedUp THEN InOrder(Due) ELSE <<>>

\* D never asks for more than the next event.
NotBeyond == index[cur] <= Len(log) + 1

FeedStep == [Feed!FeedNext(Positions)]_(Feed!feedVars)

LEMMA FeedParts == FeedOut = Holds \o Asked
  BY DEF FeedOut, Holds, Asked, Changes, Due

LEMMA FeedTypes ==
  ASSUME IInv, NotBeyond
  PROVE  /\ Holds \in Seq(Positions) /\ Asked \in Seq(Positions)
         /\ Len(log) \in Nat /\ Len(log) <= MaxEvents /\ MaxEvents \in Nat
         /\ cur \in Watches /\ index[cur] \in Nat /\ index[cur] <= Len(log) + 1
         /\ FeedUp => index[cur] # 0 /\ Due \in SUBSET Positions
         /\ FeedUp \in BOOLEAN
  <1>1. Len(log) \in Nat /\ Len(log) <= MaxEvents /\ MaxEvents \in Nat /\ cur \in Watches
        /\ index[cur] \in 0 .. MaxEvents + 1 /\ held[cur] \in 0 .. MaxEvents
    BY DesiredWatchAssumption DEF IInv, TypeOK
  <1>2. FeedUp => index[cur] # 0
    BY DEF IInv, Asks, FeedUp, Registered
  <1>3. FeedUp => Due \in SUBSET Positions
    BY <1>1, <1>2 DEF Due, Positions
  <1>4. fpc[cur] = "send" => held[cur] \in Positions
    BY <1>1 DEF IInv, Ahead, Positions
  <1>5. Holds \in Seq(Positions)
    BY <1>4 DEF Holds
  <1>6. Asked \in Seq(Positions)
    BY <1>3, InOrderLists DEF Asked
  <1> QED BY <1>1, <1>2, <1>3, <1>5, <1>6 DEF NotBeyond, FeedUp

LEMMA Stutters ==
  ASSUME Holds' = Holds, Asked' = Asked, FeedUp' = FeedUp
  PROVE  FeedStep
  <1>1. FeedOut' = FeedOut
    BY FeedParts DEF FeedOut, Holds, Asked, Changes, Due
  <1> QED BY <1>1 DEF FeedStep, Feed!feedVars

\* What is under way when only the end of it, or its front, changes.
LEMMA Growing ==
  ASSUME NEW h \in Seq(Positions), NEW a \in Seq(Positions), NEW e \in Positions
  PROVE  h \o Append(a, e) = Append(h \o a, e)
  <1>1. <<e>> \in Seq(Positions) /\ h \o a \in Seq(Positions)
    BY ConcatProperties
  <1>2. Append(a, e) = a \o <<e>> /\ Append(h \o a, e) = (h \o a) \o <<e>>
    BY <1>1, AppendIsConcat
  <1> QED BY <1>1, <1>2, ConcatAssociative

LEMMA Taking ==
  ASSUME NEW e \in Positions, NEW a \in Seq(Positions)
  PROVE  <<e>> \o a # <<>> /\ Tail(<<e>> \o a) = a
  <1> DEFINE s == <<e>> \o a
  <1>1. <<e>> \in Seq(Positions) /\ Len(<<e>>) = 1 /\ Len(a) \in Nat
    OBVIOUS
  <1>2. s \in Seq(Positions) /\ Len(s) = 1 + Len(a)
        /\ \A i \in 1 .. 1 + Len(a) : s[i] = IF i <= 1 THEN <<e>>[i] ELSE a[i - 1]
    BY <1>1, ConcatProperties
  <1> HIDE DEF s
  <1>3. s # <<>>
    BY <1>1, <1>2
  <1>4. Tail(s) \in Seq(Positions) /\ Len(Tail(s)) = Len(s) - 1
        /\ \A i \in 1 .. Len(Tail(s)) : Tail(s)[i] = s[i + 1]
    BY <1>2, <1>3, HeadTailProperties
  <1>5. Len(Tail(s)) = Len(a) /\ \A i \in 1 .. Len(a) : Tail(s)[i] = a[i]
    BY <1>1, <1>2, <1>4
  <1>6. Tail(s) = a
    BY <1>4, <1>5, SeqEqual
  <1> QED BY <1>3, <1>6 DEF s

LEMMA Losing ==
  ASSUME NEW h \in Seq(Positions), NEW a \in Seq(Positions)
  PROVE  /\ Len(h) \in 0 .. Len(h \o a)
         /\ SubSeq(h \o a, 1, Len(h)) = h
  <1> DEFINE s == h \o a
  <1>1. Len(h) \in Nat /\ Len(a) \in Nat
    OBVIOUS
  <1>2. s \in Seq(Positions) /\ Len(s) = Len(h) + Len(a)
        /\ \A i \in 1 .. Len(h) + Len(a) : s[i] = IF i <= Len(h) THEN h[i] ELSE a[i - Len(h)]
    BY ConcatProperties
  <1> HIDE DEF s
  <1>3. \A i \in 1 .. Len(h) : s[i] = h[i] /\ s[i] \in Positions
    BY <1>1, <1>2
  <1>4. SubSeq(s, 1, Len(h)) \in Seq(Positions)
        /\ Len(SubSeq(s, 1, Len(h))) = (IF 1 <= Len(h) THEN Len(h) - 1 + 1 ELSE 0)
        /\ \A i \in 1 .. Len(h) - 1 + 1 : SubSeq(s, 1, Len(h))[i] = s[1 + i - 1]
    BY <1>1, <1>3, SubSeqProperties
  <1>5. Len(SubSeq(s, 1, Len(h))) = Len(h) /\ \A i \in 1 .. Len(h) : SubSeq(s, 1, Len(h))[i] = h[i]
    BY <1>1, <1>3, <1>4
  <1>6. SubSeq(s, 1, Len(h)) = h
    BY <1>4, <1>5, SeqEqual
  <1>7. Len(h) \in 0 .. Len(s)
    BY <1>1, <1>2
  <1> QED BY <1>6, <1>7 DEF s

\* The watch breaks: what F holds is kept.
LEMMA Breaks ==
  ASSUME IInv, NotBeyond, Holds' = Holds, FeedUp, ~FeedUp'
  PROVE  FeedStep
  <1>1. Asked' = <<>> /\ Holds \in Seq(Positions) /\ Asked \in Seq(Positions)
    BY FeedTypes DEF Asked
  <1>2. FeedOut = Holds \o Asked /\ FeedOut' = Holds' \o Asked'
    BY FeedParts DEF FeedOut, Holds, Asked, Changes, Due
  <1>3. FeedOut' = Holds
    BY <1>1, <1>2, ConcatEmptySeq
  <1>4. Len(Holds) \in 0 .. Len(FeedOut) /\ FeedOut' = SubSeq(FeedOut, 1, Len(Holds))
    BY <1>1, <1>2, <1>3, Losing
  <1>5. FeedUp' = FALSE
    BY DEF FeedUp
  <1> HIDE DEF Holds
  <1>6. Feed!Lose(Len(Holds))
    BY <1>4, <1>5 DEF Feed!Lose
  <1> QED BY <1>4, <1>6 DEF FeedStep, Feed!FeedNext

-----------------------------------------------------------------------------
(* The steps of etcd and of D.                                             *)

\* A step that leaves the newest watch as it is.
LEMMA Elsewhere ==
  ASSUME running' = running, cur' = cur, index' = index, dpc' = dpc, fpc' = fpc, held' = held, log' = log
  PROVE  FeedStep
  BY Stutters DEF Holds, Asked, Due, FeedUp, Registered

LEMMA RecordFeeds ==
  ASSUME IInv, NotBeyond, NEW action, NEW v, Record(action, v)
  PROVE  FeedStep
  <1> DEFINE e == [action |-> action, node |-> v, prev |-> value]
             n == Len(log) + 1
  <1>0. /\ log' = Append(log, e) /\ Len(log) < MaxEvents
        /\ running' = running /\ cur' = cur /\ index' = index /\ dpc' = dpc /\ fpc' = fpc /\ held' = held
    BY DEF Record, dVars, fVars, hVars
  <1> HIDE DEF e
  <1>1. Holds' = Holds /\ FeedUp' = FeedUp
    BY <1>0 DEF Holds, FeedUp, Registered
  <1>2. CASE ~FeedUp
    BY <1>1, <1>2, Stutters DEF Asked
  <1>3. CASE FeedUp
    <2>1. /\ Len(log) \in Nat /\ n \in Positions /\ Len(log') = n /\ log'[n] = e
          /\ \A k \in 1 .. Len(log) : log'[k] = log[k]
      BY <1>0, FeedTypes DEF IInv, TypeOK, Positions
    <2>2. index[cur] \in Nat /\ index[cur] <= n /\ index[cur] # 0 /\ Due \in SUBSET Positions
      BY <1>3, FeedTypes
    <2>3. index[cur] .. n = (index[cur] .. Len(log)) \cup {n} /\ \A k \in index[cur] .. Len(log) : k \in 1 .. Len(log) /\ k < n
      BY <2>1, <2>2
    <2>4. Due' = {k \in index[cur] .. n : filter(log'[k])}
      BY <1>0, <2>1 DEF Due, filter, makeWatchEvent
    <2> HIDE DEF n
    <2>5. CASE ~filter(e)
      <3>1. Due' = Due
        BY <2>1, <2>3, <2>4, <2>5 DEF Due
      <3> QED BY <1>1, <3>1, Stutters DEF Asked
    <2>6. CASE filter(e)
      <3>1. Due' = Due \cup {n} /\ \A k \in Due : k < n
        BY <2>1, <2>3, <2>4, <2>6 DEF Due
      <3>2. InOrder(Due \cup {n}) = Append(InOrder(Due), n)
        BY <2>1, <2>2, <3>1, InOrderGrows
      <3>3. Asked' = Append(Asked, n)
        BY <1>1, <1>3, <3>1, <3>2 DEF Asked
      <3>4. FeedOut = Holds \o Asked /\ FeedOut' = Holds' \o Asked'
        BY FeedParts DEF FeedOut, Holds, Asked, Changes, Due
      <3>5. FeedOut' = Append(FeedOut, n)
        BY <1>1, <2>1, <3>3, <3>4, FeedTypes, Growing
      <3>6. Feed!Publish(n)
        BY <1>1, <1>3, <3>5 DEF Feed!Publish
      <3> QED BY <2>1, <3>6 DEF FeedStep, Feed!FeedNext
    <2> QED BY <2>5, <2>6
  <1> QED BY <1>2, <1>3

LEMMA RegisterFeeds ==
  ASSUME IInv, NotBeyond, NEW g \in Watches, DRegister(g)
  PROVE  FeedStep
  <1>0. g = cur /\ dpc[cur] = "dial"
    BY ActsNewest DEF DRegister
  <1>1. /\ running' = running /\ cur' = cur /\ fpc' = fpc /\ held' = held /\ log' = log
        /\ dpc'[cur] = "wait" /\ index'[cur] = IF index[cur] = 0 THEN Len(log) + 1 ELSE index[cur]
    BY <1>0 DEF DRegister, DUnchanged, etcdVars, fVars, hVars, IInv, TypeOK
  <1>2. Holds' = Holds
    BY <1>1 DEF Holds
  <1>3. Len(log) \in Nat /\ index[cur] \in Nat
    BY FeedTypes
  <1>4. FeedUp' = running
    BY <1>1 DEF FeedUp, Registered, IInv, TypeOK
  <1>5. CASE index[cur] # 0 \/ ~running
    <2>1. FeedUp' = FeedUp
      BY <1>0, <1>4, <1>5 DEF FeedUp, Registered
    <2>2. Asked' = Asked
      BY <1>0, <1>1, <1>5, <2>1 DEF Asked, Due, FeedUp
    <2> QED BY <1>2, <2>1, <2>2, Stutters
  <1>6. CASE index[cur] = 0 /\ running
    <2>1. ~FeedUp /\ FeedUp' = TRUE /\ Asked = <<>>
      BY <1>0, <1>4, <1>6 DEF FeedUp, Registered, Asked
    <2>2. index'[cur] .. Len(log) = {}
      BY <1>1, <1>3, <1>6
    <2>3. Asked' = <<>>
      BY <1>1, <2>1, <2>2, InOrderEmpty DEF Asked, Due
    <2>4. FeedOut' = FeedOut
      BY <1>2, <2>1, <2>3, FeedParts DEF FeedOut, Holds, Asked, Changes, Due
    <2>5. Feed!Connect
      BY <2>1, <2>4 DEF Feed!Connect
    <2> QED BY <2>5 DEF FeedStep, Feed!FeedNext
  <1> QED BY <1>5, <1>6 DEF IInv, TypeOK

LEMMA IndexClearedFeeds ==
  ASSUME IInv, NotBeyond, NEW g \in Watches, DIndexCleared(g)
  PROVE  FeedStep
  <1>0. g = cur /\ dpc[cur] = "dial" /\ index[cur] # 0
    BY ActsNewest DEF DIndexCleared
  <1>1. /\ running' = running /\ cur' = cur /\ fpc' = fpc /\ held' = held /\ log' = log /\ dpc' = dpc
        /\ index'[cur] = 0
    BY <1>0 DEF DIndexCleared, DUnchanged, etcdVars, fVars, hVars, IInv, TypeOK
  <1>2. Holds' = Holds /\ ~FeedUp' /\ (FeedUp <=> running)
    BY <1>0, <1>1 DEF Holds, FeedUp, Registered
  <1>3. CASE FeedUp
    BY <1>2, <1>3, Breaks
  <1>4. CASE ~FeedUp
    BY <1>2, <1>4, Stutters DEF Asked, FeedUp
  <1> QED BY <1>3, <1>4

LEMMA EventFeeds ==
  ASSUME IInv, NotBeyond, NEW g \in Watches, DEvent(g)
  PROVE  FeedStep
  <1>0. g = cur /\ dpc[cur] = "wait"
    BY ActsNewest DEF DEvent
  <1>1. /\ running' = running /\ cur' = cur /\ fpc' = fpc /\ held' = held /\ log' = log /\ index' = index
        /\ dpc'[cur] = "send"
    BY <1>0 DEF DEvent, DUnchanged, etcdVars, fVars, hVars, IInv, TypeOK
  <1>2. FeedUp' = FeedUp
    BY <1>0, <1>1 DEF FeedUp, Registered
  <1> QED BY <1>1, <1>2, Stutters DEF Holds, Asked, Due

LEMMA ErrorFeeds ==
  ASSUME IInv, NotBeyond, NEW g \in Watches, DError(g)
  PROVE  FeedStep
  <1>0. g = cur
    BY ActsNewest DEF DError
  <1>1. /\ running' = running /\ cur' = cur /\ fpc' = fpc /\ held' = held /\ log' = log
        /\ dpc'[cur] = "fail"
    BY <1>0 DEF DError, DUnchanged, etcdVars, fVars, hVars, IInv, TypeOK
  <1>2. Holds' = Holds /\ FeedUp' = FALSE
    BY <1>1 DEF Holds, FeedUp, Registered
  <1>3. CASE FeedUp
    BY <1>2, <1>3, Breaks
  <1>4. CASE ~FeedUp
    BY <1>2, <1>4, Stutters DEF Asked, FeedUp
  <1> QED BY <1>3, <1>4

\* Only after a shutdown, when nobody receives any more.
LEMMA StoppedFeeds ==
  ASSUME IInv, NotBeyond, NEW g \in Watches, DStopped(g) \/ FStopped(g)
  PROVE  FeedStep
  <1>1. ~running
    BY DEF DStopped, FStopped, IInv, TypeOK, StopsAtEnd
  <1>2. running' = running
    BY DEF DStopped, FStopped, DUnchanged, hVars
  <1> QED BY <1>1, <1>2, Stutters DEF Holds, Asked, FeedUp

-----------------------------------------------------------------------------
(* The steps of F and of H.                                                *)

\* The event goes from D to F, or is dropped: the caller cannot tell.
LEMMA FEventFeeds ==
  ASSUME IInv, NotBeyond, NEW g \in Watches, FEvent(g)
  PROVE  FeedStep
  <1> DEFINE i == index[cur]
             Rest == {k \in i + 1 .. Len(log) : filter(log[k])}
  <1>0. g = cur /\ dpc[cur] = "send" /\ fpc[cur] = "select"
    BY ActsNewest DEF FEvent
  <1>1. /\ running' = running /\ cur' = cur /\ log' = log /\ dpc'[cur] = "dial" /\ index'[cur] = i + 1
        /\ IF filter(log[i]) THEN fpc'[cur] = "send" /\ held'[cur] = i ELSE fpc' = fpc /\ held' = held
    BY <1>0 DEF FEvent, etcdVars, hVars, fVars, IInv, TypeOK
  <1>2. i \in Nat /\ i # 0 /\ i <= Len(log) /\ Len(log) \in Nat /\ Len(log) <= MaxEvents /\ MaxEvents \in Nat
    BY <1>0, FeedTypes DEF IInv, Asks
  <1>3. CASE ~running
    BY <1>1, <1>3, Stutters DEF Holds, Asked, FeedUp
  <1>4. CASE running
    <2>1. FeedUp = TRUE /\ FeedUp' = TRUE /\ Holds = <<>>
      BY <1>0, <1>1, <1>2, <1>4 DEF FeedUp, Registered, Holds
    <2>2. Asked = InOrder(Due) /\ Asked' = InOrder(Rest)
      BY <1>1, <2>1 DEF Asked, Due
    <2>3. i \in Positions /\ Rest \in SUBSET Positions /\ (\A k \in Rest : i < k)
          /\ i .. Len(log) = {i} \cup (i + 1 .. Len(log))
      BY <1>2 DEF Positions
    <2>4. CASE ~filter(log[i])
      <3>1. Due = Rest
        BY <2>3, <2>4 DEF Due
      <3>2. Holds' = Holds
        BY <1>0, <1>1, <2>4 DEF Holds
      <3> QED BY <2>1, <2>2, <3>1, <3>2, Stutters
    <2>5. CASE filter(log[i])
      <3>1. Due = Rest \cup {i}
        BY <2>3, <2>5 DEF Due
      <3>2. InOrder(Due) = <<i>> \o InOrder(Rest)
        BY <2>3, <3>1, InOrderBegins
      <3>3. Holds' = <<i>>
        BY <1>1, <1>4, <2>5 DEF Holds
      <3>4. FeedOut = Holds \o Asked /\ FeedOut' = Holds' \o Asked'
        BY FeedParts DEF FeedOut, Holds, Asked, Changes, Due
      <3>5. FeedOut = Asked
        BY <2>1, <3>4, FeedTypes, ConcatEmptySeq
      <3>6. FeedOut' = FeedOut
        BY <2>2, <3>2, <3>3, <3>4, <3>5
      <3> QED BY <2>1, <3>6 DEF FeedStep, Feed!feedVars
    <2> QED BY <2>4, <2>5
  <1> QED BY <1>3, <1>4 DEF IInv, TypeOK

LEMMA FErrorFeeds ==
  ASSUME IInv, NotBeyond, NEW g \in Watches, FError(g)
  PROVE  FeedStep
  <1>0. g = cur /\ dpc[cur] \in {"fail", "done"} /\ fpc[cur] = "select"
    BY ActsNewest DEF FError
  <1>1. /\ running' = running /\ cur' = cur /\ held' = held /\ log' = log
        /\ dpc'[cur] = "done" /\ fpc'[cur] \in {"fail", "done"}
    BY <1>0 DEF FError, etcdVars, hVars, IInv, TypeOK
  <1>2. FeedUp = FALSE /\ FeedUp' = FALSE
    BY <1>0, <1>1 DEF FeedUp, Registered
  <1>3. Holds' = Holds
    BY <1>0, <1>1 DEF Holds
  <1> QED BY <1>2, <1>3, Stutters DEF Asked

LEMMA HChangeFeeds ==
  ASSUME IInv, NotBeyond, NEW g \in Watches, HChange(g)
  PROVE  FeedStep
  <1>0. g = cur /\ fpc[cur] = "send" /\ running
    BY DEF HChange
  <1>1. /\ running' = running /\ cur' = cur /\ dpc' = dpc /\ index' = index /\ log' = log
        /\ fpc'[cur] = "select"
    BY <1>0 DEF HChange, etcdVars, dVars, IInv, TypeOK
  <1>2. FeedUp' = FeedUp /\ Asked' = Asked
    BY <1>1 DEF FeedUp, Registered, Asked, Due
  <1>3. Holds = <<held[cur]>> /\ Holds' = <<>> /\ held[cur] \in Positions
    BY <1>0, <1>1, DesiredWatchAssumption DEF Holds, IInv, TypeOK, Ahead, Positions
  <1>4. FeedOut = Holds \o Asked /\ FeedOut' = Holds' \o Asked'
    BY FeedParts DEF FeedOut, Holds, Asked, Changes, Due
  <1>5. Asked \in Seq(Positions)
    BY FeedTypes
  <1>6. FeedOut' = Asked
    BY <1>2, <1>3, <1>4, <1>5, ConcatEmptySeq
  <1>7. FeedOut # <<>> /\ FeedOut' = Tail(FeedOut)
    BY <1>3, <1>4, <1>5, <1>6, Taking
  <1>8. Feed!Take
    BY <1>2, <1>7 DEF Feed!Take
  <1> QED BY <1>8 DEF FeedStep, Feed!FeedNext

LEMMA HErrorFeeds ==
  ASSUME IInv, NotBeyond, NEW g \in Watches, HError(g)
  PROVE  FeedStep
  <1>0. g = cur /\ fpc[cur] \in {"fail", "done"}
    BY DEF HError
  <1>1. /\ running' = running /\ cur' = cur /\ dpc' = dpc /\ index' = index /\ log' = log /\ held' = held
        /\ fpc'[cur] = "done"
    BY <1>0 DEF HError, etcdVars, dVars, IInv, TypeOK
  <1>2. FeedUp' = FeedUp /\ Asked' = Asked /\ Holds' = Holds
    BY <1>0, <1>1 DEF FeedUp, Registered, Asked, Due, Holds
  <1> QED BY <1>2, Stutters

\* The old watch has ended, and the new one has nothing under way.
LEMMA HRewatchFeeds ==
  ASSUME IInv, NotBeyond, HRewatch
  PROVE  FeedStep
  <1>0. dpc[cur] = "done" /\ fpc[cur] = "done" /\ running
    BY DEF HRewatch, IInv, EndsOnError
  <1>1. cur + 1 \in Watches
    BY <1>0, WatchNumbers, DesiredWatchAssumption DEF IInv, TypeOK, EndsOnError, Watches
  <1>2. index[cur + 1] = 0
    <2>1. cur + 1 > cur
      BY WatchNumbers DEF IInv, TypeOK
    <2> QED BY <1>1, <2>1 DEF IInv, OnlyNewest
  <1>3. /\ running' = running /\ cur' = cur + 1 /\ index' = index
        /\ dpc'[cur + 1] = "dial" /\ fpc'[cur + 1] = "select"
    BY <1>1 DEF HRewatch, WatchWithFilter, IInv, TypeOK
  <1>4. FeedUp = FALSE /\ FeedUp' = FALSE
    BY <1>0, <1>2, <1>3 DEF FeedUp, Registered
  <1>5. Holds = <<>> /\ Holds' = <<>>
    BY <1>0, <1>3 DEF Holds
  <1> QED BY <1>4, <1>5, Stutters DEF Asked

LEMMA HSignalFeeds ==
  ASSUME IInv, NotBeyond, HSignal
  PROVE  FeedStep
  <1>1. ~running'
    BY DEF HSignal
  <1>2. Holds' = <<>> /\ Asked' = <<>> /\ FeedUp' = FALSE
    BY <1>1 DEF Holds, Asked, FeedUp
  <1>3. FeedOut' = Holds' \o Asked'
    BY DEF FeedOut, Holds, Asked, Changes, Due
  <1>4. <<>> \o <<>> = <<>>
    OBVIOUS
  <1>5. Feed!Abandon
    BY <1>2, <1>3, <1>4 DEF Feed!Abandon
  <1> QED BY <1>5 DEF FeedStep, Feed!FeedNext

-----------------------------------------------------------------------------
LEMMA NotBeyondStep == IInv /\ NotBeyond /\ [Next]_vars => NotBeyond'
  <1> SUFFICES ASSUME IInv, NotBeyond, [Next]_vars PROVE NotBeyond'
    OBVIOUS
  <1>0. Len(log) \in Nat /\ index[cur] \in Nat /\ index[cur] <= Len(log) + 1 /\ cur \in Watches
    BY FeedTypes
  <1>1. CASE cur' = cur /\ index' = index /\ log' = log
    BY <1>1 DEF NotBeyond
  <1>2. ASSUME NEW action, NEW v, Record(action, v) PROVE NotBeyond'
    <2>1. cur' = cur /\ index' = index /\ Len(log') = Len(log) + 1
      BY <1>2 DEF Record, dVars, hVars, IInv, TypeOK
    <2> QED BY <1>0, <2>1 DEF NotBeyond
  <1>3. ASSUME NEW g \in Watches, DRegister(g) \/ DIndexCleared(g) PROVE NotBeyond'
    <2>1. g = cur
      BY <1>3, ActsNewest DEF DRegister, DIndexCleared
    <2>2. cur' = cur /\ log' = log /\ index'[cur] \in {0, index[cur], Len(log) + 1}
      BY <1>3, <2>1 DEF DRegister, DIndexCleared, DUnchanged, etcdVars, hVars, IInv, TypeOK
    <2> QED BY <1>0, <2>2 DEF NotBeyond
  <1>4. ASSUME NEW g \in Watches, FEvent(g) PROVE NotBeyond'
    <2>1. g = cur /\ dpc[cur] = "send"
      BY <1>4, ActsNewest DEF FEvent
    <2>2. cur' = cur /\ log' = log /\ index'[cur] = index[cur] + 1
      BY <1>4, <2>1 DEF FEvent, etcdVars, hVars, IInv, TypeOK
    <2>3. index[cur] <= Len(log)
      BY <2>1 DEF IInv, Asks
    <2> QED BY <1>0, <2>2, <2>3 DEF NotBeyond
  <1>5. CASE HRewatch
    <2>1. cur + 1 \in Watches
      BY <1>5, WatchNumbers, DesiredWatchAssumption DEF HRewatch, IInv, TypeOK, EndsOnError, Watches
    <2>2. index[cur + 1] = 0
      <3>1. cur + 1 > cur
        BY <1>0, WatchNumbers
      <3> QED BY <2>1, <3>1 DEF IInv, OnlyNewest
    <2>3. cur' = cur + 1 /\ log' = log /\ index' = index
      BY <1>5 DEF HRewatch, etcdVars
    <2> QED BY <1>0, <2>2, <2>3 DEF NotBeyond
  <1>6. ASSUME NEW g \in Watches,
               DEvent(g) \/ DStopped(g) \/ DError(g) \/ FError(g) \/ FStopped(g) \/ HChange(g) \/ HError(g)
        PROVE  cur' = cur /\ index' = index /\ log' = log
    BY <1>6 DEF DEvent, DStopped, DError, DUnchanged, FError, FStopped, HChange, HError, etcdVars, dVars, hVars
  <1>7. CASE ClearHistory \/ HSignal \/ UNCHANGED vars
    BY <1>1, <1>7 DEF ClearHistory, HSignal, vars, etcdVars, dVars, hVars
  <1> QED BY <1>1, <1>2, <1>3, <1>4, <1>5, <1>6, <1>7 DEF Next, Set, Delete, D, F, H

LEMMA FeedSteps == IInv /\ NotBeyond /\ [Next]_vars => FeedStep
  <1> SUFFICES ASSUME IInv, NotBeyond, [Next]_vars PROVE FeedStep
    OBVIOUS
  <1>1. ASSUME NEW action, NEW v, Record(action, v) PROVE FeedStep
    BY <1>1, RecordFeeds
  <1>2. CASE ClearHistory \/ UNCHANGED vars
    BY <1>2, Elsewhere DEF ClearHistory, vars, etcdVars, dVars, fVars, hVars
  <1>3. ASSUME NEW g \in Watches, D(g) \/ DError(g) PROVE FeedStep
    BY <1>3, RegisterFeeds, IndexClearedFeeds, EventFeeds, ErrorFeeds, StoppedFeeds DEF D
  <1>4. ASSUME NEW g \in Watches, F(g) PROVE FeedStep
    BY <1>4, FEventFeeds, FErrorFeeds, StoppedFeeds DEF F
  <1>5. CASE H
    BY <1>5, HRewatchFeeds, HChangeFeeds, HErrorFeeds DEF H
  <1>6. CASE HSignal
    BY <1>6, HSignalFeeds
  <1> QED BY <1>1, <1>2, <1>3, <1>4, <1>5, <1>6 DEF Next, Set, Delete

\* The goroutines of dispatchWatchEvents and WatchWithFilter, their channels
\* and the watches that Run makes anew implement the feed that Handler is
\* composed with, for logs of any length and any number of errors and cleared
\* histories: every step of theirs is a step of the feed or is not seen by
\* the caller.
THEOREM WatchImplementsFeed == Spec => ImplementsFeed
  <1>1. Init => Feed!FeedInit /\ NotBeyond
    <2> SUFFICES ASSUME Init PROVE Feed!FeedInit /\ NotBeyond
      OBVIOUS
    <2>1. cur = 1 /\ 1 \in Watches /\ dpc[1] = "dial" /\ fpc[1] = "select" /\ index[1] = 0 /\ Len(log) = 0
      BY WatchNumbers DEF Init
    <2>2. FeedUp = FALSE /\ Holds = <<>> /\ Asked = <<>>
      BY <2>1 DEF FeedUp, Registered, Holds, Asked
    <2>3. FeedOut = <<>>
      BY <2>2, FeedParts
    <2> QED BY <2>1, <2>2, <2>3 DEF Feed!FeedInit, NotBeyond
  <1>2. Spec => []NotBeyond
    BY <1>1, SpecIInv, NotBeyondStep, PTL DEF Spec
  <1>3. IInv /\ NotBeyond /\ [Next]_vars => [Feed!FeedNext(Positions)]_(Feed!feedVars)
    BY FeedSteps DEF FeedStep
  <1> QED BY <1>1, <1>2, <1>3, SpecIInv, PTL DEF Spec, ImplementsFeed

-----------------------------------------------------------------------------
(* The converger, whose kicks are events on this watch.                    *)

\* A pass changes its fields one by one.
PassOK ==
    conv = [pc |-> conv.pc, alive |-> conv.alive, actuals |-> conv.actuals,
            prune |-> conv.prune, desired |-> conv.desired, fresh |-> conv.fresh]

\* The node listed is the node there is, as long as nobody wrote it: ListDesired
\* read both, Desire ends it, and DeleteInvalid goes on to the stops.
FreshIsDesired == conv.pc = "write" /\ conv.fresh => conv.desired = desired

ConvergeInv == PassOK /\ FreshIsDesired

LEMMA ConvergeInitially == ConvergeInit => ConvergeInv
  BY DEF ConvergeInit, NoPass, ConvergeInv, PassOK, FreshIsDesired

LEMMA DesireStep ==
    ASSUME ConvergeInv, NEW new, Desire(new)
    PROVE  ConvergeInv' /\ conv'.pc = conv.pc
  BY DEF ConvergeInv, PassOK, FreshIsDesired, Desire

\* Nobody else writes the desired LRP or the converger's pass.
OtherStep == UNCHANGED <<desired, conv>>

LEMMA OtherActions ==
    ASSUME ConvergeNext, ~ConvergeLRPs, ~ConvergeFails,
           \A new \in {Absent, Invalid} \cup Counts : ~Desire(new)
    PROVE  OtherStep
  <1>1. ASSUME NEW w \in Workers,
               (\E n \in Counts : HandlerFetch(w, n)) \/ HandlerAct(w) \/ HandlerFails(w)
        PROVE  OtherStep
    BY <1>1 DEF HandlerFetch, HandlerAct, HandlerFails, OtherStep
  <1>2. ASSUME NEW s \in starts, NEW e \in present, HoldStart(s, e) PROVE OtherStep
    BY <1>2 DEF HoldStart, OtherStep
  <1>3. ASSUME NEW i \in stopAuctions, NEW keep \in Guids, HoldStop(i, keep) PROVE OtherStep
    BY <1>3 DEF HoldStop, OtherStep
  <1>4. ASSUME NEW g \in stops, StopInstance(g) PROVE OtherStep
    BY <1>4 DEF StopInstance, OtherStep
  <1>5. ASSUME NEW e \in Executors, Appear(e) PROVE OtherStep
    BY <1>5 DEF Appear, OtherStep
  <1>6. CASE Misfortune
    BY <1>6 DEF Misfortune, OtherStep
  <1> QED BY <1>1, <1>2, <1>3, <1>4, <1>5, <1>6 DEF ConvergeNext

\* What a step of the pass does to the desired LRP and to the pass.
LEMMA ConvergerStep ==
    ASSUME ConvergeInv, ConvergeLRPs \/ ConvergeFails
    PROVE  /\ ConvergeInv'
           /\ conv.pc = "write" => conv'.pc = "stop"
           /\ conv.pc = "write" /\ conv.desired # Invalid => Kick
  <1>1. CASE ConvergeFails
    BY <1>1 DEF ConvergeFails, Pass, NoPass, ConvergeInv, PassOK, FreshIsDesired
  <1>2. CASE ListExecutors
    BY <1>2 DEF ListExecutors, Pass, NoPass, ConvergeInv, PassOK, FreshIsDesired
  <1>3. CASE ListActuals
    BY <1>3 DEF ListActuals, Pass, ConvergeInv, PassOK, FreshIsDesired
  <1>4. CASE Prune
    BY <1>4 DEF Prune, Pass, ConvergeInv, PassOK, FreshIsDesired
  <1>5. CASE ListDesired
    <2> DEFINE next == IF desired = Invalid \/ (desired \in Counts /\ needsReconciliation(desired, conv.actuals))
                       THEN "write" ELSE "stop"
    <2>1. /\ conv' = [conv EXCEPT !.desired = desired, !.fresh = TRUE, !.pc = next]
          /\ desired' = desired /\ conv.pc = "desired"
      BY <1>5 DEF ListDesired, Pass
    <2> HIDE DEF next
    <2> QED BY <2>1 DEF ConvergeInv, PassOK, FreshIsDesired
  <1>6. CASE Kick
    BY <1>6 DEF Kick, Pass, ConvergeInv, PassOK, FreshIsDesired
  <1>7. CASE DeleteInvalid
    BY <1>7 DEF DeleteInvalid, Pass, ConvergeInv, PassOK, FreshIsDesired
  <1>8. CASE RequestStops
    BY <1>8 DEF RequestStops, Pass, NoPass, ConvergeInv, PassOK, FreshIsDesired
  <1> QED BY <1>1, <1>2, <1>3, <1>4, <1>5, <1>6, <1>7, <1>8 DEF ConvergeLRPs

KickChangesNothing ==
    conv.pc = "write" /\ conv'.pc = "stop" /\ conv.desired # Invalid => desired' = desired

LEMMA ConvergeStep ==
    ASSUME ConvergeInv, [ConvergeNext]_convergeVars
    PROVE  ConvergeInv' /\ KickChangesNothing
  <1>1. CASE UNCHANGED convergeVars
    BY <1>1 DEF convergeVars, ConvergeInv, PassOK, FreshIsDesired, KickChangesNothing
  <1>2. ASSUME NEW new \in {Absent, Invalid} \cup Counts, Desire(new)
        PROVE  ConvergeInv' /\ KickChangesNothing
    BY <1>2, DesireStep DEF KickChangesNothing
  <1>3. CASE ConvergeLRPs \/ ConvergeFails
    BY <1>3, ConvergerStep DEF Kick, KickChangesNothing, ConvergeInv, FreshIsDesired
  <1>4. ASSUME OtherStep PROVE ConvergeInv' /\ KickChangesNothing
    BY <1>4 DEF OtherStep, ConvergeInv, PassOK, FreshIsDesired, KickChangesNothing
  <1> QED BY <1>1, <1>2, <1>3, <1>4, OtherActions

LEMMA SpecConvergeInv == ConvergeSpec => []ConvergeInv
  BY ConvergeInitially, ConvergeStep, PTL DEF ConvergeSpec

\* batchCompareAndSwapDesiredLRPs: whatever clients, cells and the other parts do
\* between the listing and the kick, for any number of them, a kick never undoes
\* what a client wrote after the converger listed the desired LRP.
THEOREM KicksUndoNothing == ConvergeSpec => KicksChangeNothing
  <1>1. ConvergeInv /\ [ConvergeNext]_convergeVars
          => [conv.pc = "write" /\ conv'.pc = "stop" /\ conv.desired # Invalid
                => desired' = desired]_convergeVars
    BY ConvergeStep DEF KickChangesNothing
  <1> QED BY <1>1, SpecConvergeInv, PTL DEF ConvergeSpec, KicksChangeNothing

\* The same in the terms of etcd: while the compare of a kick can still succeed,
\* the value it swaps in is the value of the node.
THEOREM KickSwapsSame == ConvergeSpec => []FreshIsDesired
  BY SpecConvergeInv, PTL DEF ConvergeInv
=============================================================================
