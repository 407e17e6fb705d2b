---------------------------- MODULE StoreAdapter ----------------------------
(***************************************************************************)
(* The etcd store adapter on its worker pool: every operation schedules    *)
(* its requests, waits for all their results and returns the first error.  *)
(* Callers are goroutines of the program, each in one operation at a time. *)
(* A watch has a goroutine and requests of its own, outside of the pool.   *)
(***************************************************************************)
EXTENDS EtcdClient

CONSTANTS
    Callers, Watcher,
    poolSize,
    KeyOrder,            \* the order of the keys in SetMulti and Delete
    Arguments,           \* the keys each operation is called with
    MaxKeys, MaxCalls    \* bounds

\* A caller has as many requests as its operation has keys.
Slots == 1 .. MaxKeys
ASSUME StoreAdapterAssumption ==
    /\ Requests = (Callers \X Slots) \cup {Watcher}
    /\ MaxKeys \in Nat \ {0} /\ MaxCalls \in Nat /\ poolSize \in Nat \ {0}
    /\ KeyOrder \in [Keys -> Nat] /\ \E k \in Keys : KeyOrder[k] = 1
    /\ \A j, k \in Keys : KeyOrder[j] = KeyOrder[k] => j = k
    /\ DOMAIN Arguments \subseteq {"SetMulti", "Get", "ListRecursively", "Create", "Update",
          "CompareAndSwap", "CompareAndSwapByIndex", "Delete", "CompareAndDelete", "UpdateDirTTL"}
    /\ \A op \in DOMAIN Arguments : /\ Arguments[op] \subseteq Keys /\ IsFiniteSet(Arguments[op])
                                     /\ Cardinality(Arguments[op]) <= MaxKeys

VARIABLES
    closed,    \* workerCloseChannel
    running,   \* the work the workers are at
    exited,    \* how many workers are gone
    stopping,  \* StopWorkers: "no", "waiting", "returned"; then "disconnected"
    call,      \* the operation each caller is in
    calls,
    watch,     \* dispatchWatchEvents: "off", "starting", "watching", "ended"
    stop       \* the stop channel of the watch is closed

poolVars == <<closed, running, exited, stopping>>
callVars == <<call, calls>>
watchVars == <<watch, stop>>
vars == <<clientVars, poolVars, callVars, watchVars>>

NoCall == [op |-> "none", need |-> {}, err |-> 0, ret |-> "none",
           applied |-> TRUE, failed |-> FALSE] \* history: of its requests
Key == CHOOSE k \in Keys : KeyOrder[k] = 1    \* of the operations on one key
Ret == {"none", "nil", "ErrorTimeout", "ErrorKeyNotFound", "ErrorNodeIsDirectory",
        "ErrorNodeIsNotDirectory", "ErrorKeyExists", "ErrorKeyComparisonFailed", "other"}

TypeOK ==
    /\ \A k \in Keys : /\ node[k].kind \in {"absent", "file", "dir"}
                       /\ node[k].kind = "dir" => node[k].value = NoValue
    /\ Leader \in Host /\ elected \in Host
    /\ \A r \in Requests : req[r].attempt < req[r].numReqs \/ ~InFlight(r)
    /\ running \subseteq Requests /\ exited \in 0 .. poolSize
    /\ \A c \in Callers : call[c].ret \in Ret /\ call[c].need \subseteq {c} \X Slots
    /\ stopping \in {"no", "waiting", "returned", "disconnected"}
    /\ closed \in BOOLEAN /\ stop \in BOOLEAN /\ calls \in 0 .. MaxCalls
    /\ watch \in {"off", "starting", "watching", "ended"}

Init ==
    /\ ClientInit
    /\ closed = FALSE /\ running = {} /\ exited = 0 /\ stopping = "no"
    /\ call = [c \in Callers |-> NoCall] /\ calls = 0
    /\ watch = "off" /\ stop = FALSE

-----------------------------------------------------------------------------
(* The worker pool.                                                        *)

\* Work that is scheduled after the close is dropped.
ScheduleWork(op) == [Idle EXCEPT !.op = op, !.pc = IF closed THEN "dropped" ELSE "posted"]

Free == poolSize - exited - Cardinality(running)

\* A worker that is free takes posted work, or sees the close.
startWorker(r) ==
    /\ Free > 0 /\ req[r].pc = "posted"
    /\ running' = running \cup {r}
    /\ req' = [req EXCEPT ![r] = Asked(@.op)]
    /\ UNCHANGED <<node, etcdIndex, elected, down, Leader, faults, closed, exited, stopping, callVars, watchVars>>

\* Mutant of WorkEnds: the result finds no room and is dropped.
WorkEndsDropped(r) ==
    /\ r \in running /\ req[r].pc = "answered"
    /\ req' = [req EXCEPT ![r].pc = "dropped"]
    /\ running' = running \ {r}
    /\ UNCHANGED <<node, etcdIndex, elected, down, Leader, faults, closed, exited, stopping, callVars, watchVars>>

\* The work sends its result, on a channel with room for it.
WorkEnds(r) ==
    /\ r \in running /\ req[r].pc = "answered"
    /\ req' = [req EXCEPT ![r].pc = "result"]
    /\ running' = running \ {r}
    /\ UNCHANGED <<node, etcdIndex, elected, down, Leader, faults, closed, exited, stopping, callVars, watchVars>>

WorkerExits ==
    /\ Free > 0 /\ closed /\ exited' = exited + 1
    /\ UNCHANGED <<clientVars, closed, running, stopping, callVars, watchVars>>

\* Disconnect: StopWorkers, then cancelInflightWatches.
StopWorkers ==
    /\ stopping = "no" /\ ~closed
    /\ closed' = TRUE /\ stopping' = "waiting"
    /\ UNCHANGED <<clientVars, running, exited, callVars, watchVars>>

WorkersStopped ==
    /\ stopping = "waiting" /\ exited = poolSize
    /\ stopping' = "returned"
    /\ UNCHANGED <<clientVars, closed, running, exited, callVars, watchVars>>

\* Closes the stop channels of the watches that are registered, unless closed.
cancelInflightWatches ==
    /\ stopping = "returned"
    /\ stopping' = "disconnected"
    /\ stop' = (stop \/ watch = "watching")
    /\ UNCHANGED <<clientVars, closed, running, exited, callVars, watch>>

-----------------------------------------------------------------------------
(* The operations: the requests they schedule first.                       *)

RequestsOf(op, k, v, i) ==
    CASE op = "SetMulti" -> [key \in Arguments[op] |-> Set(key, v)]
      [] op = "Get" -> [key \in {k} |-> RawGet(k, FALSE)]
      [] op = "ListRecursively" -> [key \in {k} |-> RawGet(k, TRUE)]
      [] op = "Create" -> [key \in {k} |-> Create(k, v)]
      [] op = "Update" -> [key \in {k} |-> Update(k, v)]
      [] op = "CompareAndSwap" -> [key \in {k} |-> RawCompareAndSwap(k, v, v, 0)]
      [] op = "CompareAndSwapByIndex" -> [key \in {k} |-> RawCompareAndSwap(k, v, NoValue, i)]
      [] op = "Delete" -> [key \in Arguments[op] |-> RawDelete(key, TRUE, FALSE)]
      [] op = "CompareAndDelete" -> [key \in {k} |-> RawCompareAndDelete(k, v, 0)]
      [] op = "UpdateDirTTL" -> [key \in {k} |-> RawGet(k, FALSE)]

\* The requests of a caller, numbered in the order of their keys.
Slot(keys, k) == Cardinality({j \in keys : KeyOrder[j] <= KeyOrder[k]})

Begin(c, op, k, v, i) ==
    /\ call[c].need = {} /\ calls < MaxCalls /\ calls' = calls + 1
    /\ LET ops == RequestsOf(op, k, v, i)  new == [key \in DOMAIN ops |-> <<c, Slot(DOMAIN ops, key)>>]
       IN /\ req' = [r \in Requests |->
                        IF \E key \in DOMAIN ops : new[key] = r
                        THEN ScheduleWork(ops[CHOOSE key \in DOMAIN ops : new[key] = r]) ELSE req[r]]
          /\ call' = [call EXCEPT ![c] = [NoCall EXCEPT !.op = op, !.need = {new[key] : key \in DOMAIN ops},
                                                       !.ret = IF DOMAIN ops = {} THEN "nil" ELSE @]]
    /\ UNCHANGED <<node, etcdIndex, elected, down, Leader, faults, poolVars, watchVars>>

convertError(code) ==
    CASE code = 0 -> "nil" [] code = 501 -> "ErrorTimeout" [] code = 100 -> "ErrorKeyNotFound"
      [] code = 102 -> "ErrorNodeIsDirectory" [] code = 105 -> "ErrorKeyExists"
      [] code = 101 -> "ErrorKeyComparisonFailed" [] OTHER -> "other"

\* What the operation returns with its last result.
Returns(op, err, n) ==
    CASE op = "Get" /\ err = 0 /\ n.kind = "dir" -> "ErrorNodeIsDirectory"
      [] op = "ListRecursively" /\ err = 0 /\ n.kind # "dir" -> "ErrorNodeIsNotDirectory"
      [] op = "UpdateDirTTL" /\ err = 0 /\ n.kind = "file" -> "ErrorNodeIsNotDirectory"
      [] OTHER -> convertError(err)

\* Mutants of firstError: the last error wins; a success hides it.
lastError(err, result) == result

firstError(err, result) == IF err = 0 THEN result ELSE err

\* A result is received; with the last one the operation returns, except that
\* UpdateDirTTL goes on when Get says that the node is not a file, or fails.
ReceiveResult(c, r) ==
    /\ r \in call[c].need /\ req[r].pc = "result"
    /\ LET q == req[r]
           err == firstError(call[c].err, q.code)
           left == call[c].need \ {r}
           got == [call[c] EXCEPT !.need = left, !.err = err, !.failed = @ \/ q.code # 0,
                                  !.applied = @ /\ q.applied]
           ttl == call[c].op = "UpdateDirTTL" /\ q.op.method = "GET" /\ ~(q.code = 0 /\ q.node.kind = "file")
       IN /\ call' = [call EXCEPT ![c] =
                        IF ttl THEN [NoCall EXCEPT !.op = "UpdateDirTTL", !.need = {r}]
                        ELSE IF left = {} THEN [got EXCEPT !.ret = Returns(got.op, err, q.node)]
                        ELSE got]
          /\ req' = [req EXCEPT ![r] = IF ttl THEN ScheduleWork(UpdateDir(q.op.key)) ELSE Idle]
    /\ UNCHANGED <<node, etcdIndex, elected, down, Leader, faults, poolVars, calls, watchVars>>

-----------------------------------------------------------------------------
(* Watch and its goroutine.  The receiver reads every event.               *)

Watch ==
    /\ watch = "off" /\ watch' = "starting"
    /\ calls < MaxCalls /\ calls' = calls + 1
    /\ UNCHANGED <<clientVars, poolVars, call, stop>>

WaitFor(k, index) == get(k, IF index = 0 THEN [wait |-> TRUE] ELSE [wait |-> TRUE, waitIndex |-> index])

\* client.Watch without a receiver: one wait.
WatchOnce(k, index) == Asked(WaitFor(k, index))

\* registerInflightWatch.  Without an index etcd answers with the next change.
WatchRegisters(k) ==
    /\ watch = "starting" /\ watch' = "watching"
    /\ req' = [req EXCEPT ![Watcher] = WatchOnce(k, etcdIndex + 1)]
    /\ UNCHANGED <<node, etcdIndex, elected, down, Leader, faults, poolVars, callVars, stop>>

\* An event, and the next wait; a stop or an error ends the goroutine.
dispatchWatchEvents ==
    /\ watch = "watching" /\ req[Watcher].pc = "answered"
    /\ IF req[Watcher].code = 0
       THEN /\ req' = [req EXCEPT ![Watcher] = WatchOnce(@.op.key, @.node.index + 1)]
            /\ watch' = watch
       ELSE req' = [req EXCEPT ![Watcher] = Idle] /\ watch' = "ended"
    /\ UNCHANGED <<node, etcdIndex, elected, down, Leader, faults, poolVars, callVars, stop>>

\* The user closes the stop channel.
CloseStop ==
    /\ watch = "watching" /\ ~stop /\ stop' = TRUE
    /\ UNCHANGED <<clientVars, poolVars, callVars, watch>>

-----------------------------------------------------------------------------
\* Another client deletes the node, or makes a directory by a key below it.
OtherClient(k) ==
    /\ Fault
    /\ node' = [node EXCEPT ![k] = IF @.kind = "absent" THEN After(@, CreateDir(k), etcdIndex + 1) ELSE Absent]
    /\ etcdIndex' = etcdIndex + 1
    /\ UNCHANGED <<elected, down, Leader, req, poolVars, callVars, watchVars>>

Unaware == UNCHANGED <<poolVars, callVars, watchVars>>

Next ==
    \/ \E c \in Callers, op \in DOMAIN Arguments, v \in Values, i \in {0, etcdIndex} : Begin(c, op, Key, v, i)
    \/ \E c \in Callers, r \in Requests : ReceiveResult(c, r)
    \/ \E r \in Requests : startWorker(r) \/ WorkEnds(r)
    \/ WorkerExits
    \/ StopWorkers \/ WorkersStopped \/ cancelInflightWatches
    \/ Watch \/ WatchRegisters(Key) \/ dispatchWatchEvents \/ CloseStop
    \/ Unaware /\ ((\E r \in Requests : ClientStep(r)) \/ (stop /\ Cancel(Watcher)))
    \/ Unaware /\ (\E h \in Host : Dies(h) \/ Elect(h))
    \/ OtherClient(Key)

\* The goroutines run on; a machine that is up answers; the machines that are
\* left elect a leader.
Fairness ==
    /\ \A r \in Requests :
          /\ WF_vars(startWorker(r)) /\ WF_vars(WorkEnds(r))
          /\ WF_vars(\E c \in Callers : ReceiveResult(c, r))
          /\ WF_vars(Unaware /\ ClientStep(r))
    /\ WF_vars(WorkerExits) /\ WF_vars(WorkersStopped) /\ WF_vars(cancelInflightWatches)
    /\ WF_vars(dispatchWatchEvents) /\ WF_vars(Unaware /\ stop /\ Cancel(Watcher))
    /\ WF_vars(Unaware /\ \E h \in Host : Elect(h))

Spec == Init /\ [][Next]_vars /\ Fairness

-----------------------------------------------------------------------------
\* SetMulti, Delete and the rest: nil is returned only when etcd applied every
\* request of the operation, and never when one of them failed, whichever
\* order the workers end in.  The state is well typed.
NilMeansApplied ==
    /\ TypeOK
    /\ \A c \in Callers : call[c].ret = "nil" => call[c].applied /\ ~call[c].failed

\* SendRequest: etcd applies a request twice only after a lost answer; a retry
\* after a redirect or a refused status never repeats what was done.
AppliedOnce == \A r \in Requests : req[r].again => req[r].lost

\* DefaultCheckRetry: a request gives the cluster up only when it has tried
\* every machine, unless it was sent elsewhere: redirected, refused with a
\* status, or by another request's change of the leader.  (Of three machines
\* one may remain untried after a redirect.)
NotReachableMeansTried ==
    \A r \in Requests :
        req[r].pc = "answered" /\ req[r].code = ErrCodeEtcdNotReachable /\ req[r].undisturbed
        => req[r].tried = Host

\* A call returns, machines dying or not, as long as the pool is not stopped;
\* Disconnect waits for the workers, retrying or not, and returns; it and the
\* user's stop end the goroutine of the watch.
CallsReturn ==
    /\ \A c \in Callers : call[c].need # {} ~> (call[c].need = {} \/ closed)
    /\ closed ~> (running = {} /\ stopping = "disconnected")
    /\ stop ~> watch = "ended"
=============================================================================
