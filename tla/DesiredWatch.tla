---------------------------- MODULE DesiredWatch ----------------------------
(***************************************************************************)
(* The watch on desired LRPs, as it is built: for each call of             *)
(* WatchForDesiredLRPChanges a goroutine D (dispatchWatchEvents) that asks *)
(* etcd for one event after the other, and a goroutine F (WatchWithFilter) *)
(* that filters events into changes, connected by unbuffered channels to   *)
(* each other and to the select of Handler.Run, H, which makes a new watch *)
(* when the channel of the old one is closed or had an error.  The watches *)
(* are numbered; H listens to the newest.                                  *)
(*                                                                         *)
(* etcd is the log of the events of one desired LRP, of which it keeps     *)
(* those after position cleared.                                           *)
(***************************************************************************)
EXTENDS Naturals, Sequences, FiniteSets, Models

CONSTANTS
    Writes,      \* what clients do: a subset of {"valid", "invalid",
                 \* "delete", "compareAndDelete"}
    MaxEvents,   \* the length of the log
    MaxErrors,   \* client.Watch fails
    MaxClears    \* etcd clears its history

ASSUME DesiredWatchAssumption ==
    /\ Writes \subseteq {"valid", "invalid", "delete", "compareAndDelete"}
    /\ MaxEvents \in Nat /\ MaxErrors \in Nat /\ MaxClears \in Nat

VARIABLES
    value,      \* the node: "nil", or JSON that is "valid" or "invalid"
    log,        \* etcd's events
    cleared,    \* the last position etcd no longer keeps
    clears,     \* how often it cleared its history
    errors,     \* how often client.Watch failed
    running,    \* H is in its select, not shutting down
    cur,        \* the watch H made last
    listening,  \* desiredChangeChan # nil
    delivered,  \* the positions of the events H received, in order
    dpc,        \* D: "dial", "wait", "send", "fail", "done"
    index,      \* D's index (0: from now on); the event D holds in "send"
    fpc,        \* F: "select", "send", "fail", "done"
    held,       \* the event F holds in "send"
    stopOuter,  \* the watches whose stop channel H closed
    stopInner   \* the watches whose F closed D's stop channel

etcdVars == <<value, log, cleared, clears>>
dVars == <<dpc, index>>
fVars == <<fpc, held>>
hVars == <<running, cur, listening, delivered, stopOuter>>
vars == <<etcdVars, errors, dVars, fVars, hVars, stopInner>>

MaxWatches == MaxErrors + 1
Watches == 1 .. MaxWatches
Positions == 1 .. MaxEvents
Values == {"nil", "valid", "invalid"}
Event == [action : {"set", "delete", "compareAndDelete"}, node : Values, prev : Values]

TypeOK ==
    /\ value \in Values
    /\ log \in Seq(Event) /\ Len(log) <= MaxEvents
    /\ cleared \in 0 .. MaxEvents /\ clears \in 0 .. MaxClears /\ errors \in 0 .. MaxErrors
    /\ running \in BOOLEAN /\ cur \in Watches /\ listening \in BOOLEAN
    /\ delivered \in Seq(Positions)
    /\ dpc \in [Watches -> {"none", "dial", "wait", "send", "fail", "done"}]
    /\ index \in [Watches -> 0 .. MaxEvents + 1]
    /\ fpc \in [Watches -> {"none", "select", "send", "fail", "done"}]
    /\ held \in [Watches -> 0 .. MaxEvents]
    /\ stopOuter \subseteq Watches /\ stopInner \subseteq stopOuter

\* Run makes its first watch before it is ready.
Init ==
    /\ value = "nil" /\ log = <<>> /\ cleared = 0 /\ clears = 0 /\ errors = 0
    /\ running = TRUE /\ cur = 1 /\ listening = TRUE /\ delivered = <<>>
    /\ dpc = [g \in Watches |-> IF g = 1 THEN "dial" ELSE "none"]
    /\ index = [g \in Watches |-> 0]
    /\ fpc = [g \in Watches |-> IF g = 1 THEN "select" ELSE "none"]
    /\ held = [g \in Watches |-> 0]
    /\ stopOuter = {} /\ stopInner = {}

-----------------------------------------------------------------------------
(* etcd and its clients.                                                   *)

Record(action, node) ==
    /\ Len(log) < MaxEvents
    /\ log' = Append(log, [action |-> action, node |-> node, prev |-> value])
    /\ value' = node
    /\ UNCHANGED <<cleared, clears, errors, dVars, fVars, hVars, stopInner>>

\* Anybody may write the key, JSON or not.
Written == {IF NewDesiredLRPFromJSON(p) THEN "valid" ELSE "invalid" : p \in Payload(DesiredLRPFields)}

Set(v) == v \in Writes \cap {"valid", "invalid"} /\ Record("set", v)

Delete(action) ==
    /\ action \in Writes \cap {"delete", "compareAndDelete"}
    /\ value # "nil"
    /\ Record(action, "nil")

\* etcd keeps a limited history: the oldest events go.
ClearHistory ==
    /\ clears < MaxClears
    /\ \E k \in cleared + 1 .. Len(log) : cleared' = k
    /\ clears' = clears + 1
    /\ UNCHANGED <<value, log, errors, dVars, fVars, hVars, stopInner>>

-----------------------------------------------------------------------------
(* D: dispatchWatchEvents.                                                 *)

DUnchanged == UNCHANGED <<etcdVars, fVars, hVars, stopInner>>

\* Mutant of DRegister: without an index it waits from the last event on.
DRegisterLast(g) ==
    /\ dpc[g] = "dial"
    /\ index[g] = 0 \/ index[g] > cleared
    /\ dpc' = [dpc EXCEPT ![g] = "wait"]
    /\ index' = [index EXCEPT ![g] = IF @ = 0 /\ log # <<>> THEN Len(log)
                                ELSE IF @ = 0 THEN 1 ELSE @]
    /\ DUnchanged /\ UNCHANGED errors

\* client.Watch reaches etcd.  Without an index it waits for the next event.
DRegister(g) ==
    /\ dpc[g] = "dial"
    /\ index[g] = 0 \/ index[g] > cleared
    /\ dpc' = [dpc EXCEPT ![g] = "wait"]
    /\ index' = [index EXCEPT ![g] = IF @ = 0 THEN Len(log) + 1 ELSE @]
    /\ DUnchanged /\ UNCHANGED errors

\* Mutant of DIndexCleared: the index is kept.
DIndexClearedKept(g) ==
    /\ dpc[g] = "dial"
    /\ index[g] # 0 /\ index[g] <= cleared
    /\ DUnchanged /\ UNCHANGED <<errors, dpc, index>>

\* Error 401, the event index is cleared: start again from now on.
DIndexCleared(g) ==
    /\ dpc[g] = "dial"
    /\ index[g] # 0 /\ index[g] <= cleared
    /\ index' = [index EXCEPT ![g] = 0]
    /\ DUnchanged /\ UNCHANGED <<errors, dpc>>

DEvent(g) ==
    /\ dpc[g] = "wait"
    /\ index[g] <= Len(log)
    /\ dpc' = [dpc EXCEPT ![g] = "send"]
    /\ DUnchanged /\ UNCHANGED <<errors, index>>

DError(g) ==
    /\ dpc[g] \in {"dial", "wait"}
    /\ errors < MaxErrors
    /\ errors' = errors + 1
    /\ dpc' = [dpc EXCEPT ![g] = "fail"]
    /\ DUnchanged /\ UNCHANGED index

\* ErrWatchStoppedByUser: only a request in progress notices.
DStopped(g) ==
    /\ dpc[g] \in {"dial", "wait"}
    /\ g \in stopInner
    /\ dpc' = [dpc EXCEPT ![g] = "done"]
    /\ DUnchanged /\ UNCHANGED <<errors, index>>

-----------------------------------------------------------------------------
(* F: the goroutine of WatchWithFilter, with the filter of                 *)
(* WatchForDesiredLRPChanges.                                              *)

\* makeWatchEvent: a removal has no Node; an unknown action has no nodes.
makeWatchEvent(e) ==
    IF e.action = "compareAndDelete"
    THEN [node |-> "nil", prev |-> "nil"]
    ELSE [node |-> e.node, prev |-> e.prev]

\* A node that does not parse, the new one or the previous one, drops it.
filter(e) == LET event == makeWatchEvent(e)
             IN  event.node # "invalid" /\ event.prev # "invalid"

\* Mutant of FEvent: the next request repeats the index.
FEventRepeats(g) ==
    /\ dpc[g] = "send" /\ fpc[g] = "select"
    /\ IF filter(log[index[g]])
       THEN /\ fpc' = [fpc EXCEPT ![g] = "send"]
            /\ held' = [held EXCEPT ![g] = index[g]]
       ELSE UNCHANGED fVars
    /\ dpc' = [dpc EXCEPT ![g] = "dial"]
    /\ index' = index
    /\ UNCHANGED <<etcdVars, errors, hVars, stopInner>>

\* events <- in D meets the select of F, which goes on or starts to send.
FEvent(g) ==
    /\ dpc[g] = "send" /\ fpc[g] = "select"
    /\ IF filter(log[index[g]])
       THEN /\ fpc' = [fpc EXCEPT ![g] = "send"]
            /\ held' = [held EXCEPT ![g] = index[g]]
       ELSE UNCHANGED fVars
    /\ dpc' = [dpc EXCEPT ![g] = "dial"]
    /\ index' = [index EXCEPT ![g] = @ + 1]
    /\ UNCHANGED <<etcdVars, errors, hVars, stopInner>>

\* errors <- in D meets the select of F, and D returns; or D has returned,
\* its channels are closed, and F returns without an error.
FError(g) ==
    /\ dpc[g] \in {"fail", "done"} /\ fpc[g] = "select"
    /\ dpc' = [dpc EXCEPT ![g] = "done"]
    /\ fpc' = [fpc EXCEPT ![g] = IF dpc[g] = "fail" THEN "fail" ELSE "done"]
    /\ UNCHANGED <<etcdVars, errors, index, held, hVars, stopInner>>

\* stopOuter is closed: F tells D, closes its channels and returns.
FStopped(g) ==
    /\ fpc[g] = "select" /\ g \in stopOuter
    /\ stopInner' = stopInner \cup {g}
    /\ fpc' = [fpc EXCEPT ![g] = "done"]
    /\ UNCHANGED <<etcdVars, errors, dVars, held, hVars>>

-----------------------------------------------------------------------------
(* H: the select of Handler.Run.                                           *)

\* F's Send meets the select of H.
HChange(g) ==
    /\ running /\ listening /\ g = cur
    /\ fpc[g] = "send"
    /\ delivered' = Append(delivered, held[g])
    /\ fpc' = [fpc EXCEPT ![g] = "select"]
    /\ held' = [held EXCEPT ![g] = 0]
    /\ UNCHANGED <<etcdVars, errors, dVars, running, cur, listening, stopOuter, stopInner>>

\* Mutant of HError: F goes on after the error.
HErrorGoesOn(g) ==
    /\ running /\ listening /\ g = cur
    /\ fpc[g] = "fail"
    /\ fpc' = [fpc EXCEPT ![g] = "select"]
    /\ listening' = FALSE
    /\ UNCHANGED <<etcdVars, errors, dVars, held, running, cur, delivered, stopOuter, stopInner>>

\* errsOuter <- in F meets the select of H, and F returns; or F has returned
\* and its channels are closed.  Either way the channel becomes nil.
HError(g) ==
    /\ running /\ listening /\ g = cur
    /\ fpc[g] \in {"fail", "done"}
    /\ fpc' = [fpc EXCEPT ![g] = "done"]
    /\ listening' = FALSE
    /\ UNCHANGED <<etcdVars, errors, dVars, held, running, cur, delivered, stopOuter, stopInner>>

\* The channels of a new watch and its two goroutines.
WatchWithFilter(g) ==
    /\ dpc' = [dpc EXCEPT ![g] = "dial"]
    /\ fpc' = [fpc EXCEPT ![g] = "select"]

\* desiredChangeChan is nil: WatchForDesiredLRPChanges again.
HRewatch ==
    /\ running /\ ~ listening
    /\ cur' = cur + 1
    /\ listening' = TRUE
    /\ WatchWithFilter(cur + 1)
    /\ UNCHANGED <<etcdVars, errors, index, held, running, delivered, stopOuter, stopInner>>

\* A signal: close(stopChan), and no select any more.
HSignal ==
    /\ running /\ listening
    /\ running' = FALSE
    /\ stopOuter' = stopOuter \cup {cur}
    /\ UNCHANGED <<etcdVars, errors, dVars, fVars, cur, listening, delivered, stopInner>>

-----------------------------------------------------------------------------
D(g) == DRegister(g) \/ DIndexCleared(g) \/ DEvent(g) \/ DStopped(g)
F(g) == FEvent(g) \/ FError(g) \/ FStopped(g)
H == HRewatch \/ \E g \in Watches : HChange(g) \/ HError(g)

Next ==
    \/ \E v \in Written : Set(v)
    \/ \E action \in {"delete", "compareAndDelete"} : Delete(action)
    \/ ClearHistory
    \/ \E g \in Watches : D(g) \/ DError(g) \/ F(g)
    \/ H \/ HSignal

(***************************************************************************)
(* Each goroutine that can go on does; a select takes one of its ready     *)
(* cases.  Nothing is assumed of errors, signals and clients.              *)
(***************************************************************************)
Fairness == WF_vars(H) /\ \A g \in Watches : WF_vars(D(g)) /\ WF_vars(F(g))

Spec == Init /\ [][Next]_vars /\ Fairness

-----------------------------------------------------------------------------
(***************************************************************************)
(* Properties.                                                             *)
(***************************************************************************)

\* H receives events in the order of the log and none twice, across errors,
\* new watches and cleared histories (etcd_store_adapter.go:307,
\* handler.go:47-68).
DeliveredInOrder ==
    \A j, k \in DOMAIN delivered : j < k => delivered[j] < delivered[k]

\* A new watch leaves no goroutine of an older one behind, although Run
\* never closes the stop channel of the older one (handler.go:64-68).  The
\* state is well typed.
OldWatchesEnded ==
    /\ TypeOK
    /\ \A g \in Watches : g < cur => dpc[g] = "done" /\ fpc[g] = "done"

(***************************************************************************)
(* The feed that the goroutines implement: the change F holds, then those  *)
(* D holds or will ask etcd for.                                           *)
(***************************************************************************)
Registered == dpc[cur] \in {"wait", "send"}

FeedUp == running /\ (Registered \/ (dpc[cur] = "dial" /\ index[cur] # 0))

\* The positions of S, in increasing order.
Lists(c, S) ==
    /\ \A i, j \in DOMAIN c : i < j => c[i] < c[j]
    /\ \A k \in S : \E i \in DOMAIN c : c[i] = k
InOrder(S) == CHOOSE c \in UNION {[1 .. n -> S] : n \in 0 .. MaxEvents} : Lists(c, S)

Changes(from) == InOrder({k \in from .. Len(log) : filter(log[k])})

FeedOut == (IF running /\ fpc[cur] = "send" THEN <<held[cur]>> ELSE <<>>)
           \o (IF FeedUp THEN Changes(index[cur]) ELSE <<>>)

Feed == INSTANCE ChangeFeed WITH feed <- FeedOut, up <- FeedUp

\* The two goroutines, their channels and the new watches implement the feed
\* that Handler relies on: in order, nothing twice, gaps only at the end of
\* what is under way.
ImplementsFeed ==
    Feed!FeedInit /\ [][Feed!FeedNext(Positions)]_(Feed!feedVars)

\* While it is not told to stop, Run watches again and again: after an error
\* (handler.go:47) and after a cleared index (etcd_store_adapter.go:296).
KeepsWatching == []<>(Registered \/ ~ running)

\* "closes the events and errors channel when told to stop"
\* (bbs_helpers_test.go:153): F returns once its stop channel is closed.
StopClosesChannels == \A g \in Watches : g \in stopOuter ~> fpc[g] = "done"
=============================================================================
