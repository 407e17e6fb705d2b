----------------------------- MODULE EtcdClient -----------------------------
(***************************************************************************)
(* go-etcd: what its operations ask of etcd, and SendRequest, which tries  *)
(* the machines of the cluster until one answers.  Requests run side by    *)
(* side (a worker of the adapter's pool each) and share cluster.Leader.    *)
(* The client is the adapter's: STRONG_CONSISTENCY and DefaultCheckRetry,  *)
(* so that every request goes to the leader.                               *)
(***************************************************************************)
EXTENDS Naturals, Sequences, FiniteSets

CONSTANTS
    Keys, Values, NoValue,
    Machines,    \* cluster.Machines, a sequence
    FirstLeader, \* the machine that leads at first
    Requests,
    MaxFaults    \* bound: lost and bad answers, machines that die

Host == {Machines[i] : i \in 1 .. Len(Machines)}

ASSUME EtcdClientAssumption ==
    /\ Machines \in Seq(Host) /\ Len(Machines) > 0 /\ FirstLeader \in Host
    /\ NoValue \notin Values /\ MaxFaults \in Nat

VARIABLES
    node,     \* etcd: the node of each key
    etcdIndex,
    elected,  \* etcd: the machine that leads
    down,     \* etcd: the machines that do not answer
    Leader,   \* cluster.Leader
    req,      \* the requests
    faults

clientVars == <<node, etcdIndex, elected, down, Leader, req, faults>>

Absent == [kind |-> "absent", value |-> NoValue, index |-> 0]

-----------------------------------------------------------------------------
(* What an operation sends: the options of Set, Create, Update and so on.  *)

VALID_OPTIONS == [GET    |-> {"recursive", "consistent", "sorted", "wait", "waitIndex"},
                  PUT    |-> {"prevValue", "prevIndex", "prevExist", "dir"},
                  POST   |-> {},
                  DELETE |-> {"recursive", "dir", "prevValue", "prevIndex"}]

\* An option that the method does not have is an error, before anything is sent.
toParameters(op) == DOMAIN op.options \subseteq VALID_OPTIONS[op.method]

None == [x \in {} |-> x]
Request(method, key, value, options) ==
    [method |-> method, key |-> key, value |-> value, options |-> options]

put(key, value, options) == Request("PUT", key, value, options)
delete(key, options) == Request("DELETE", key, NoValue, options)
get(key, options) == Request("GET", key, NoValue, options)

Set(key, value) == put(key, value, None)
Create(key, value) == put(key, value, [prevExist |-> FALSE])
Update(key, value) == put(key, value, [prevExist |-> TRUE])
CreateDir(key) == put(key, NoValue, [prevExist |-> FALSE, dir |-> TRUE])
UpdateDir(key) == put(key, NoValue, [prevExist |-> TRUE, dir |-> TRUE])
RawGet(key, recursive) ==
    get(key, [recursive |-> recursive, sorted |-> FALSE, consistent |-> TRUE])
RawDelete(key, recursive, dir) == delete(key, [recursive |-> recursive, dir |-> dir])

\* prevValue and prevIndex are sent when they are not "" and 0.
Prev(prevValue, prevIndex) ==
    IF prevValue # NoValue /\ prevIndex # 0
    THEN [prevValue |-> prevValue, prevIndex |-> prevIndex]
    ELSE IF prevValue # NoValue THEN [prevValue |-> prevValue]
    ELSE IF prevIndex # 0 THEN [prevIndex |-> prevIndex] ELSE None

\* "You must give either prevValue or prevIndex": an error, nothing is sent.
Refused == Request("POST", CHOOSE k \in Keys : TRUE, NoValue, [refused |-> TRUE])

RawCompareAndSwap(key, value, prevValue, prevIndex) ==
    IF Prev(prevValue, prevIndex) = None THEN Refused
    ELSE put(key, value, Prev(prevValue, prevIndex))
RawCompareAndDelete(key, prevValue, prevIndex) ==
    IF Prev(prevValue, prevIndex) = None THEN Refused
    ELSE delete(key, Prev(prevValue, prevIndex))

-----------------------------------------------------------------------------
(* etcd's side: the error code of a request on a node, 0 for success, and  *)
(* the node it leaves.                                                     *)

Has(op, name) == name \in DOMAIN op.options
Is(op, name) == Has(op, name) /\ op.options[name] = TRUE

Code(n, op) ==
    CASE n.kind = "absent" /\ (op.method # "PUT" \/ Is(op, "prevExist")) -> 100
      [] n.kind # "absent" /\ Has(op, "prevExist") /\ ~Is(op, "prevExist") -> 105
      [] Has(op, "prevValue") \/ Has(op, "prevIndex") ->
           IF n.kind = "absent" THEN 100
           ELSE IF n.kind = "dir" THEN 102
           ELSE IF \/ Has(op, "prevValue") /\ op.options.prevValue # n.value
                   \/ Has(op, "prevIndex") /\ op.options.prevIndex # n.index THEN 101
           ELSE 0
      [] n.kind = "dir" /\ op.method = "PUT" ->
           IF Is(op, "prevExist") /\ Is(op, "dir") THEN 0 ELSE 102
      [] n.kind = "dir" /\ op.method = "DELETE" ->
           IF Is(op, "recursive") \/ Is(op, "dir") THEN 0 ELSE 102
      [] OTHER -> 0

\* The update of a directory that finds a file clears its value.
After(n, op, index) ==
    CASE op.method = "DELETE" -> Absent
      [] op.method = "PUT" ->
           [kind |-> IF Is(op, "dir") /\ n.kind # "file" THEN "dir" ELSE "file",
            value |-> op.value, index |-> index]
      [] OTHER -> n

-----------------------------------------------------------------------------
(***************************************************************************)
(* SendRequest.  The outcome of a request is an etcd error code, 0 when it *)
(* succeeded; the other errors have codes of their own here.               *)
(***************************************************************************)
ErrCodeEtcdNotReachable == 501
OtherError == 1             \* an option or a body that is not understood
ErrRequestCancelled == 2

Idle == [pc |-> "none", op |-> Refused, attempt |-> 0, numReqs |-> 1, at |-> Machines[1],
         tried |-> {}, code |-> 0, node |-> Absent, cancelled |-> FALSE,
         applied |-> FALSE, again |-> FALSE, lost |-> FALSE, undisturbed |-> TRUE] \* history
InFlight(r) == req[r].pc \in {"sleep", "send", "sent"}
Fault == faults < MaxFaults /\ faults' = faults + 1

\* What the client may find at first.
Found == {Absent} \cup [kind : {"file"}, value : Values, index : {1}]
                  \cup [kind : {"dir"}, value : {NoValue}, index : {1}]

ClientInit ==
    /\ \E n \in Found : node = [k \in Keys |-> n]
    /\ etcdIndex = 1 /\ faults = 0
    /\ elected = FirstLeader /\ down = {} /\ Leader = Machines[1]
    /\ req = [r \in Requests |-> Idle]

\* What is asked for with an option the method does not have is not sent.
Asked(op) == IF toParameters(op) THEN [Idle EXCEPT !.pc = "send", !.op = op]
             ELSE [Idle EXCEPT !.pc = "answered", !.op = op, !.code = OtherError]

\* Every request goes to the leader, the adapter's client being STRONG.
getHttpPath == Leader

Send(r) ==
    /\ req[r].pc = "send"
    /\ req' = [req EXCEPT ![r] = [req[r] EXCEPT !.pc = "sent", !.at = getHttpPath, !.numReqs = @ + 1,
                                               !.tried = @ \cup {getHttpPath}]]
    /\ UNCHANGED <<node, etcdIndex, elected, down, Leader, faults>>

\* Between attempts, unless the request is cancelled meanwhile.
Sleep(r) ==
    /\ req[r].pc = "sleep"
    /\ req' = [req EXCEPT ![r] = IF @.cancelled THEN [@ EXCEPT !.pc = "answered", !.code = ErrRequestCancelled]
                                ELSE [@ EXCEPT !.pc = "send"]]
    /\ UNCHANGED <<node, etcdIndex, elected, down, Leader, faults>>

\* httpClient.Do returned: unless the request was cancelled, it ends as q and
\* the cluster's leader is to.  Requests under way go there from now on.
Returned(r, q, to) ==
    LET end == IF q.cancelled THEN [q EXCEPT !.pc = "answered", !.code = ErrRequestCancelled] ELSE q
    IN /\ Leader' = IF q.cancelled THEN Leader ELSE to
       /\ req' = [s \in Requests |-> IF s = r THEN end
                                     ELSE IF InFlight(s) /\ Leader' # Leader
                                     THEN [req[s] EXCEPT !.undisturbed = FALSE] ELSE req[s]]

\* The cluster is given up when each machine may have been tried twice.
DefaultCheckRetry(q) == q.numReqs >= 2 * Len(Machines)
NotReachable(q) == [q EXCEPT !.pc = "answered", !.code = ErrCodeEtcdNotReachable]
Again(q) == [q EXCEPT !.pc = "sleep", !.attempt = @ + 1]

\* Mutant of switchLeader: the leader that does not answer is kept.
switchLeaderNot(attempt) == Leader

switchLeader(attempt) == Machines[1 + (attempt % Len(Machines))]

\* etcd applies the request, whatever becomes of the answer.
Applies(r) ==
    LET op == req[r].op  done == Code(node[op.key], op) = 0 /\ op.method # "GET"
    IN /\ node' = IF done THEN [node EXCEPT ![op.key] = After(@, op, etcdIndex + 1)] ELSE node
       /\ etcdIndex' = IF done THEN etcdIndex + 1 ELSE etcdIndex
Applied(r) ==
    LET op == req[r].op  n == node[op.key]
    IN [req[r] EXCEPT !.code = Code(n, op), !.node = n,
                      !.applied = @ \/ Code(n, op) = 0,
                      !.again = req[r].applied /\ Code(n, op) = 0 /\ op.method # "GET"]

Status(r) ==
    LET op == req[r].op  n == node[op.key]
    IN CASE Code(n, op) = 100 -> 404 [] Code(n, op) \in {101, 105} -> 412
         [] Code(n, op) = 102 -> 403
         [] Code(n, op) = 0 -> IF op.method = "PUT" /\ n.kind = "absent" THEN 201 ELSE 200

\* Mutant of validHttpStatusCode: 201 is forgotten.
validHttpStatusCodeOK == {200, 400, 404, 412, 403}

validHttpStatusCode == {201, 200, 400, 404, 412, 403}

\* A wait is answered once the node has changed.
Answers(r) == /\ req[r].pc = "sent" /\ req[r].at = elected /\ elected \notin down
              /\ Has(req[r].op, "waitIndex") =>
                    node[req[r].op.key].index >= req[r].op.options.waitIndex

\* A status that is not valid is retried.
Answered(r) ==
    /\ Answers(r) /\ Applies(r)
    /\ \/ Returned(r, IF Status(r) \in validHttpStatusCode THEN [Applied(r) EXCEPT !.pc = "answered"]
                      ELSE IF DefaultCheckRetry(req[r]) THEN NotReachable(Applied(r))
                      ELSE Again(Applied(r)), Leader) /\ faults' = faults
       \/ Fault /\ Returned(r, [Applied(r) EXCEPT !.pc = "answered", !.code = OtherError], Leader)
    /\ UNCHANGED <<elected, down>>

\* A network error: the next machine.  etcd may have applied the request.
Unreachable(r, q) ==
    /\ IF DefaultCheckRetry(q) THEN Returned(r, NotReachable(q), Leader)
       ELSE Returned(r, Again(q), switchLeader(q.attempt))
    /\ UNCHANGED <<elected, down>>

NetworkError(r) ==
    /\ req[r].pc = "sent" /\ req[r].at \in down /\ Unreachable(r, req[r])
    /\ UNCHANGED <<node, etcdIndex, faults>>

AnswerLost(r) ==
    /\ Fault /\ Answers(r) /\ Applies(r) /\ Unreachable(r, [Applied(r) EXCEPT !.lost = TRUE])

\* A follower redirects to the leader.
updateLeaderFromURL(r) ==
    /\ req[r].pc = "sent" /\ req[r].at # elected /\ req[r].at \notin down
    /\ Returned(r, Again([req[r] EXCEPT !.undisturbed = FALSE]), elected)
    /\ UNCHANGED <<node, etcdIndex, elected, down, faults>>

\* Any other status: the same machine again.
UnexpectedStatus(r) ==
    /\ Fault /\ req[r].pc = "sent" /\ req[r].at \notin down
    /\ LET q == [req[r] EXCEPT !.undisturbed = FALSE]
       IN Returned(r, IF DefaultCheckRetry(q) THEN NotReachable(q) ELSE Again(q), Leader)
    /\ UNCHANGED <<node, etcdIndex, elected, down>>

\* The goroutine of SendRequest takes the stop and cancels until Do returns.
Cancel(r) ==
    /\ InFlight(r) /\ ~req[r].cancelled
    /\ req' = [req EXCEPT ![r].cancelled = TRUE]
    /\ UNCHANGED <<node, etcdIndex, elected, down, Leader, faults>>

CancelRequest(r) ==
    /\ req[r].pc = "sent" /\ req[r].cancelled
    /\ Returned(r, req[r], Leader)
    /\ UNCHANGED <<node, etcdIndex, elected, down, faults>>

\* A machine dies; the others elect a leader.
Dies(h) ==
    /\ Fault /\ down' = down \cup {h}
    /\ UNCHANGED <<node, etcdIndex, elected, Leader, req>>

Elect(h) ==
    /\ h \notin down /\ elected \in down /\ elected' = h
    /\ UNCHANGED <<node, etcdIndex, down, Leader, req, faults>>

ClientStep(r) ==
    \/ Send(r) \/ Sleep(r) \/ Answered(r) \/ NetworkError(r) \/ AnswerLost(r)
    \/ updateLeaderFromURL(r) \/ UnexpectedStatus(r) \/ CancelRequest(r)
=============================================================================
