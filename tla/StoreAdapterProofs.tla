------------------------- MODULE StoreAdapterProofs -------------------------
(***************************************************************************)
(* The adapter and its etcd client for any cluster, pool, callers and      *)
(* number of faults: nil means applied, a request is applied twice only    *)
(* after a lost answer, and a cluster is given up only when every machine  *)
(* was tried.                                                              *)
(*                                                                         *)
(* What matters of a request is said of its record q and the leader L it   *)
(* goes to next, so that each step has to be looked at for one request.    *)
(***************************************************************************)
EXTENDS StoreAdapter, MaintainNode, FiniteSetTheorems, TLAPS

Fields == {"pc", "op", "attempt", "numReqs", "at", "tried", "code", "node", "cancelled",
           "applied", "again", "lost", "undisturbed"}
Pcs == {"none", "posted", "dropped", "sleep", "send", "sent", "answered", "result"}
Flying(q) == q.pc \in {"sleep", "send", "sent"}

\* Only a directory is put without a value.
DirOp(op) == op.method = "PUT" /\ Is(op, "dir") => op.value = NoValue

\* A record of a request.  What was done again was lost before.
Basic(q) ==
    /\ DOMAIN q = Fields /\ q.pc \in Pcs
    /\ q.attempt \in Nat /\ q.numReqs \in Nat /\ q.tried \subseteq Host
    /\ q.cancelled \in BOOLEAN /\ q.applied \in BOOLEAN /\ q.again \in BOOLEAN
    /\ q.lost \in BOOLEAN /\ q.undisturbed \in BOOLEAN
    /\ DirOp(q.op)
    /\ q.again => q.lost

\* A request that is retried although etcd applied it had its answer lost.
Retried(q) == Flying(q) /\ q.applied => q.lost

Counted(q) ==
    /\ q.pc \in {"sleep", "send"} => q.numReqs = q.attempt + 1
    /\ q.pc = "sent" => q.numReqs = q.attempt + 2 /\ q.at \in q.tried

\* Attempt j + 1 goes to this machine, if nobody interferes.
Turn(j) == Machines[1 + (j % Len(Machines))]

Tries(q, L) ==
    q.undisturbed =>
        /\ q.pc \in {"sleep", "send"} =>
              /\ q.attempt > 0 => L = Turn(q.attempt - 1)
              /\ \A j \in Nat : j + 1 < q.attempt => Turn(j) \in q.tried
        /\ q.pc = "sent" => \A j \in Nat : j < q.attempt => Turn(j) \in q.tried

Ends(q) ==
    /\ q.pc \in {"answered", "result"} /\ q.code = 0 => q.applied
    /\ q.pc = "answered" /\ q.code = ErrCodeEtcdNotReachable /\ q.undisturbed => q.tried = Host

RequestOK(q, L) ==
    /\ Basic(q)
    /\ Retried(q)
    /\ Counted(q)
    /\ Tries(q, L)
    /\ Ends(q)

RequestsOK == DOMAIN req = Requests /\ \A r \in Requests : RequestOK(req[r], Leader)
LeadersOK == Leader \in Host /\ elected \in Host
NodesOK ==
    /\ DOMAIN node = Keys
    /\ \A k \in Keys : /\ node[k].kind \in {"absent", "file", "dir"}
                       /\ node[k].kind = "dir" => node[k].value = NoValue

\* A call has an error from its first failed result on, and returns last.
CallOK(c, x) ==
    /\ DOMAIN x = {"op", "need", "err", "ret", "applied", "failed"}
    /\ x.need \subseteq {c} \X Slots /\ x.ret \in Ret
    /\ x.applied \in BOOLEAN /\ x.failed \in BOOLEAN
    /\ x.failed \/ ~x.applied => x.err # 0
    /\ x.need # {} => x.ret = "none"
    /\ x.ret = "nil" => x.err = 0
CallsOK == DOMAIN call = Callers /\ \A c \in Callers : CallOK(c, call[c])

PoolOK ==
    /\ running \subseteq Requests /\ IsFiniteSet(running) /\ exited \in 0 .. poolSize
    /\ stopping \in {"no", "waiting", "returned", "disconnected"} /\ closed \in BOOLEAN
OthersOK ==
    /\ stop \in BOOLEAN /\ calls \in 0 .. MaxCalls
    /\ watch \in {"off", "starting", "watching", "ended"}

IInv ==
    /\ RequestsOK
    /\ LeadersOK
    /\ NodesOK
    /\ CallsOK
    /\ PoolOK
    /\ OthersOK

-----------------------------------------------------------------------------
(* A request.                                                              *)

LEMMA Cluster ==
    /\ Len(Machines) \in Nat /\ Len(Machines) > 0 /\ Machines[1] \in Host
    /\ \A j \in Nat : Turn(j) \in Host
  <1>1. Len(Machines) \in Nat /\ Len(Machines) > 0
    BY EtcdClientAssumption
  <1>2. Machines[1] \in Host
    BY <1>1 DEF Host
  <1>3. ASSUME NEW j \in Nat PROVE Turn(j) \in Host
    <2>1. 1 + (j % Len(Machines)) \in 1 .. Len(Machines)
      BY <1>1
    <2> QED BY <2>1 DEF Turn, Host
  <1> QED BY <1>1, <1>2, <1>3

\* Two rounds less one are enough.
LEMMA EveryTurn ==
    ASSUME NEW h \in Host, Len(Machines) > 1
    PROVE  \E j \in Nat : j < 2 * Len(Machines) - 2 /\ h = Turn(j)
  <1>1. PICK i \in 1 .. Len(Machines) : h = Machines[i]
    BY DEF Host
  <1>2. (i - 1) % Len(Machines) = i - 1
    BY Cluster
  <1>3. i - 1 \in Nat /\ i - 1 < 2 * Len(Machines) - 2 /\ 1 + (i - 1) = i
    BY Cluster
  <1> QED BY <1>1, <1>2, <1>3 DEF Turn

LEMMA CodeRange ==
    ASSUME NEW n, NEW op
    PROVE  Code(n, op) \in {0, 100, 101, 102, 105}
  BY DEF Code

LEMMA StatusValid ==
    ASSUME NEW r
    PROVE  Status(r) \in validHttpStatusCode
  BY CodeRange DEF Status, validHttpStatusCode

LEMMA IdleOK == Basic(Idle) /\ Idle.pc = "none" /\ Idle.attempt = 0 /\ Idle.numReqs = 1
                /\ Idle.applied = FALSE /\ Idle.again = FALSE
  BY DEF Idle, Basic, Fields, Pcs, DirOp, Refused, Request

LEMMA IdleRequest ==
    ASSUME NEW L
    PROVE  RequestOK(Idle, L)
  BY IdleOK DEF RequestOK, Retried, Flying, Counted, Tries, Ends

LEMMA AskedOK ==
    ASSUME NEW L, NEW op, DirOp(op)
    PROVE  RequestOK(Asked(op), L)
  <1>1. CASE toParameters(op)
    <2>1. Asked(op) = [Idle EXCEPT !.pc = "send", !.op = op]
      BY <1>1 DEF Asked
    <2> QED BY <2>1, IdleOK
            DEF RequestOK, Basic, Fields, Pcs, Retried, Flying, Counted, Tries, Ends
  <1>2. CASE ~toParameters(op)
    <2>1. Asked(op) = [Idle EXCEPT !.pc = "answered", !.op = op, !.code = OtherError]
      BY <1>2 DEF Asked
    <2> QED BY <2>1, IdleOK DEF RequestOK, Basic, Fields, Pcs, Retried, Flying, Counted, Tries, Ends,
                                OtherError, ErrCodeEtcdNotReachable
  <1> QED BY <1>1, <1>2

LEMMA ScheduleWorkOK ==
    ASSUME NEW L, NEW op, DirOp(op)
    PROVE  RequestOK(ScheduleWork(op), L)
  <1>1. ScheduleWork(op) = [Idle EXCEPT !.op = op, !.pc = "dropped"]
        \/ ScheduleWork(op) = [Idle EXCEPT !.op = op, !.pc = "posted"]
    BY DEF ScheduleWork
  <1> QED BY <1>1, IdleOK DEF RequestOK, Basic, Fields, Pcs, Retried, Flying, Counted, Tries, Ends

LEMMA SendOK ==
    ASSUME NEW L \in Host, NEW q, RequestOK(q, L), q.pc = "send"
    PROVE  RequestOK([q EXCEPT !.pc = "sent", !.at = L, !.numReqs = @ + 1, !.tried = @ \cup {L}], L)
  <1> DEFINE p == [q EXCEPT !.pc = "sent", !.at = L, !.numReqs = @ + 1, !.tried = @ \cup {L}]
  <1>1. /\ DOMAIN p = Fields /\ p.pc = "sent" /\ p.at = L /\ p.numReqs = q.numReqs + 1
        /\ p.tried = q.tried \cup {L} /\ p.op = q.op /\ p.attempt = q.attempt /\ p.code = q.code
        /\ p.cancelled = q.cancelled /\ p.applied = q.applied /\ p.again = q.again
        /\ p.lost = q.lost /\ p.undisturbed = q.undisturbed
    BY DEF RequestOK, Basic, Fields
  <1> HIDE DEF p
  <1>2. Basic(p) /\ Retried(p) /\ Counted(p) /\ Ends(p)
    BY <1>1 DEF RequestOK, Basic, Pcs, Retried, Flying, Counted, Ends
  <1>3. Tries(p, L)
    <2> SUFFICES ASSUME p.undisturbed, NEW j \in Nat, j < p.attempt PROVE Turn(j) \in p.tried
      BY <1>1 DEF Tries
    <2>1. CASE j + 1 < q.attempt
      BY <1>1, <2>1 DEF RequestOK, Tries
    <2>2. CASE j = q.attempt - 1
      BY <1>1, <2>2 DEF RequestOK, Basic, Tries
    <2> QED BY <1>1, <2>1, <2>2 DEF RequestOK, Basic
  <1>4. RequestOK(p, L)
    BY <1>2, <1>3 DEF RequestOK
  <1> QED BY <1>4 DEF p

LEMMA CancelledOK ==
    ASSUME NEW L, NEW q, Basic(q)
    PROVE  RequestOK([q EXCEPT !.pc = "answered", !.code = ErrRequestCancelled], L)
  BY DEF RequestOK, Basic, Fields, Pcs, Retried, Flying, Counted, Tries, Ends,
         ErrRequestCancelled, ErrCodeEtcdNotReachable

LEMMA SleepOK ==
    ASSUME NEW L, NEW q, RequestOK(q, L), q.pc = "sleep"
    PROVE  RequestOK([q EXCEPT !.pc = "send"], L)
  BY DEF RequestOK, Basic, Fields, Pcs, Retried, Flying, Counted, Tries, Ends

\* The next attempt goes to the machine whose turn it is, or is disturbed.
LEMMA AgainOK ==
    ASSUME NEW L, NEW to, NEW q, RequestOK(q, L), q.pc = "sent",
           q.undisturbed => to = Turn(q.attempt)
    PROVE  RequestOK(Again(q), to)
  <1> DEFINE p == Again(q)
  <1>1. /\ DOMAIN p = Fields /\ p.pc = "sleep" /\ p.attempt = q.attempt + 1
        /\ p.numReqs = q.numReqs /\ p.at = q.at /\ p.code = q.code
        /\ p.tried = q.tried /\ p.op = q.op
        /\ p.cancelled = q.cancelled /\ p.applied = q.applied /\ p.again = q.again
        /\ p.lost = q.lost /\ p.undisturbed = q.undisturbed
    BY DEF RequestOK, Basic, Fields, Again
  <1> HIDE DEF p
  <1>2. Basic(p) /\ Retried(p) /\ Counted(p) /\ Ends(p)
    BY <1>1 DEF RequestOK, Basic, Pcs, Retried, Flying, Counted, Ends
  <1>3. Tries(p, to)
    BY <1>1 DEF RequestOK, Basic, Tries
  <1>4. RequestOK(p, to)
    BY <1>2, <1>3 DEF RequestOK
  <1> QED BY <1>4 DEF p

\* A request that gives up undisturbed has had every machine's turn.
LEMMA NotReachableOK ==
    ASSUME NEW L, NEW M, NEW q, RequestOK(q, M), q.pc = "sent", DefaultCheckRetry(q)
    PROVE  RequestOK(NotReachable(q), L)
  <1> DEFINE p == NotReachable(q)
  <1>1. /\ DOMAIN p = Fields /\ p.pc = "answered" /\ p.attempt = q.attempt
        /\ p.numReqs = q.numReqs /\ p.at = q.at /\ p.code = ErrCodeEtcdNotReachable
        /\ p.tried = q.tried /\ p.op = q.op
        /\ p.cancelled = q.cancelled /\ p.applied = q.applied /\ p.again = q.again
        /\ p.lost = q.lost /\ p.undisturbed = q.undisturbed
    BY DEF RequestOK, Basic, Fields, NotReachable
  <1> HIDE DEF p
  <1>2. Basic(p) /\ Retried(p) /\ Counted(p) /\ Tries(p, L)
    BY <1>1 DEF RequestOK, Basic, Pcs, Retried, Flying, Counted, Tries
  <1>3. ASSUME q.undisturbed PROVE Host \subseteq q.tried
    <2> SUFFICES ASSUME NEW h \in Host PROVE h \in q.tried
      OBVIOUS
    <2>1. q.attempt \in Nat /\ q.attempt >= 2 * Len(Machines) - 2 /\ q.at \in q.tried
          /\ q.tried \subseteq Host
      BY Cluster DEF RequestOK, Basic, Counted, DefaultCheckRetry
    <2>2. CASE Len(Machines) > 1
      <3>1. PICK j \in Nat : j < 2 * Len(Machines) - 2 /\ h = Turn(j)
        BY <2>2, EveryTurn
      <3>2. j < q.attempt
        BY <2>1, <3>1, Cluster
      <3> QED BY <1>3, <3>1, <3>2 DEF RequestOK, Tries
    <2>3. CASE Len(Machines) = 1
      <3>1. Host = {Machines[1]}
        BY <2>3 DEF Host
      <3> QED BY <2>1, <3>1
    <2>4. Len(Machines) > 1 \/ Len(Machines) = 1
      BY Cluster
    <2> QED BY <2>2, <2>3, <2>4
  <1>4. Ends(p)
    <2>1. q.undisturbed => q.tried = Host
      BY <1>3 DEF RequestOK, Basic
    <2> QED BY <1>1, <2>1 DEF Ends, ErrCodeEtcdNotReachable
  <1>5. RequestOK(p, L)
    BY <1>2, <1>4 DEF RequestOK
  <1> QED BY <1>5 DEF p

\* The answer that etcd gives, sent or lost.
LEMMA AppliedOK ==
    ASSUME NEW L, NEW r, RequestOK(req[r], L), req[r].pc = "sent"
    PROVE  /\ Basic(Applied(r)) /\ Counted(Applied(r)) /\ Tries(Applied(r), L)
           /\ Applied(r).pc = "sent" /\ Applied(r).attempt = req[r].attempt
           /\ Applied(r).code \in {0, 100, 101, 102, 105}
           /\ Applied(r).code = 0 => Applied(r).applied
           /\ Applied(r).cancelled = req[r].cancelled
           /\ Applied(r).undisturbed = req[r].undisturbed
           /\ Applied(r).numReqs = req[r].numReqs
  <1> DEFINE q == req[r]
             op == q.op
             n == node[op.key]
             c == Code(n, op)
             p == Applied(r)
  <1>1. c \in {0, 100, 101, 102, 105}
    BY CodeRange
  <1>2. p = [q EXCEPT !.code = c, !.node = n, !.applied = @ \/ c = 0,
                      !.again = q.applied /\ c = 0 /\ op.method # "GET"]
    BY DEF Applied
  <1> HIDE DEF c, n, p
  <1>3. /\ DOMAIN p = Fields /\ p.pc = "sent" /\ p.attempt = q.attempt
        /\ p.numReqs = q.numReqs /\ p.at = q.at /\ p.code = c /\ p.tried = q.tried /\ p.op = q.op
        /\ p.cancelled = q.cancelled /\ p.lost = q.lost /\ p.undisturbed = q.undisturbed
        /\ p.applied = (q.applied \/ c = 0) /\ p.again = (q.applied /\ c = 0 /\ op.method # "GET")
    BY <1>2 DEF RequestOK, Basic, Fields
  <1>4. p.again => p.lost
    BY <1>3 DEF RequestOK, Retried, Flying
  <1>5. Basic(p)
    BY <1>3, <1>4 DEF RequestOK, Basic, Pcs
  <1>6. Counted(p) /\ Tries(p, L)
    BY <1>3 DEF RequestOK, Counted, Tries
  <1> QED BY <1>1, <1>3, <1>5, <1>6 DEF p

-----------------------------------------------------------------------------
(* etcd and the client.                                                    *)

LEMMA Sizes == MaxCalls \in Nat /\ poolSize \in Nat /\ poolSize > 0 /\ Watcher \in Requests
  <1>1. MaxCalls \in Nat /\ poolSize \in Nat \ {0} /\ Watcher \in Requests
    BY StoreAdapterAssumption, Zenon
  <1> QED BY <1>1

LEMMA Initially == Init => IInv
  <1> SUFFICES ASSUME Init PROVE IInv
    OBVIOUS
  <1>1. DOMAIN req = Requests /\ \A r \in Requests : req[r] = Idle
    BY DEF Init, ClientInit
  <1>2. RequestsOK
    BY <1>1, IdleRequest DEF RequestsOK
  <1>3. LeadersOK
    BY Cluster, EtcdClientAssumption DEF Init, ClientInit, LeadersOK
  <1>4. NodesOK
    <2>1. PICK n \in Found : node = [k \in Keys |-> n]
      BY DEF Init, ClientInit
    <2>2. n.kind \in {"absent", "file", "dir"} /\ (n.kind = "dir" => n.value = NoValue)
      BY DEF Found, Absent
    <2> QED BY <2>1, <2>2 DEF NodesOK
  <1>5. CallsOK
    BY DEF Init, CallsOK, CallOK, NoCall, Ret
  <1>6. PoolOK
    <2>1. IsFiniteSet({})
      BY FS_EmptySet
    <2>2. exited \in 0 .. poolSize
      BY Sizes DEF Init
    <2> QED BY <2>1, <2>2 DEF Init, PoolOK
  <1>7. OthersOK
    <2>1. calls \in 0 .. MaxCalls
      BY Sizes DEF Init
    <2> QED BY <2>1 DEF Init, OthersOK
  <1> QED BY <1>2, <1>3, <1>4, <1>5, <1>6, <1>7 DEF IInv

\* One request changes; the leader does not.
LEMMA OneRequest ==
    ASSUME RequestsOK, NEW r \in Requests, NEW q, RequestOK(q, Leader),
           req' = [req EXCEPT ![r] = q], Leader' = Leader
    PROVE  RequestsOK'
  BY DEF RequestsOK

\* Do returned: the requests that are under way go to the new leader, too.
LEMMA ReturnedOK ==
    ASSUME RequestsOK, LeadersOK, NEW r \in Requests, NEW q, NEW to \in Host, Basic(q),
           ~q.cancelled => RequestOK(q, to), Returned(r, q, to)
    PROVE  RequestsOK' /\ Leader' \in Host
  <1> DEFINE end == IF q.cancelled THEN [q EXCEPT !.pc = "answered", !.code = ErrRequestCancelled]
                    ELSE q
  <1>1. Leader' = (IF q.cancelled THEN Leader ELSE to) /\ Leader' \in Host
    BY DEF Returned, LeadersOK
  <1>2. RequestOK(end, Leader')
    <2>1. CASE q.cancelled
      <3>1. end = [q EXCEPT !.pc = "answered", !.code = ErrRequestCancelled]
        BY <2>1
      <3> QED BY <3>1, CancelledOK
    <2>2. CASE ~q.cancelled
      BY <1>1, <2>2
    <2> QED BY <2>1, <2>2
  <1>3. req' = [s \in Requests |-> IF s = r THEN end
                                   ELSE IF InFlight(s) /\ Leader' # Leader
                                   THEN [req[s] EXCEPT !.undisturbed = FALSE] ELSE req[s]]
    BY DEF Returned
  <1> HIDE DEF end
  <1>4. ASSUME NEW s \in Requests, s # r PROVE RequestOK(req'[s], Leader')
    <2>1. RequestOK(req[s], Leader)
      BY DEF RequestsOK
    <2>2. CASE InFlight(s) /\ Leader' # Leader
      <3>1. req'[s] = [req[s] EXCEPT !.undisturbed = FALSE]
        BY <1>3, <1>4, <2>2
      <3> QED BY <2>1, <2>2, <3>1 DEF RequestOK, Basic, Fields, Pcs, Retried, Flying, Counted,
                                      Tries, Ends, InFlight
    <2>3. CASE Leader' = Leader
      <3>1. req'[s] = req[s]
        BY <1>3, <1>4, <2>3
      <3> QED BY <2>1, <2>3, <3>1
    <2>4. CASE ~InFlight(s)
      <3>1. req'[s] = req[s]
        BY <1>3, <1>4, <2>4
      <3> QED BY <2>1, <2>4, <3>1 DEF RequestOK, Tries, InFlight
    <2> QED BY <2>2, <2>3, <2>4
  <1>5. DOMAIN req' = Requests /\ RequestOK(req'[r], Leader')
    BY <1>2, <1>3
  <1> QED BY <1>1, <1>4, <1>5 DEF RequestsOK

LEMMA AppliesOK ==
    ASSUME NodesOK, NEW r, DirOp(req[r].op), Applies(r)
    PROVE  NodesOK'
  <1> DEFINE op == req[r].op
             n == node[op.key]
             a == After(n, op, etcdIndex + 1)
  <1>1. \/ node' = node
        \/ node' = [node EXCEPT ![op.key] = a]
    BY DEF Applies
  <1>2. CASE node' = node
    BY <1>2 DEF NodesOK
  <1>3. CASE node' = [node EXCEPT ![op.key] = a]
    <2> SUFFICES ASSUME NEW k \in Keys
                 PROVE  /\ node'[k].kind \in {"absent", "file", "dir"}
                        /\ node'[k].kind = "dir" => node'[k].value = NoValue
      BY <1>3 DEF NodesOK
    <2>1. CASE k # op.key
      BY <1>3, <2>1 DEF NodesOK
    <2>2. CASE k = op.key
      <3>1. node'[k] = a /\ n.kind \in {"absent", "file", "dir"}
            /\ (n.kind = "dir" => n.value = NoValue)
        BY <1>3, <2>2 DEF NodesOK
      <3>2. a.kind \in {"absent", "file", "dir"} /\ (a.kind = "dir" => a.value = NoValue)
        <4>1. CASE op.method = "DELETE"
          <5>1. a = Absent
            BY <4>1 DEF After
          <5> QED BY <5>1 DEF Absent
        <4>2. CASE op.method = "PUT"
          <5>1. a = [kind |-> IF Is(op, "dir") /\ n.kind # "file" THEN "dir" ELSE "file",
                     value |-> op.value, index |-> etcdIndex + 1]
            BY <4>2 DEF After
          <5> QED BY <4>2, <5>1 DEF DirOp
        <4>3. CASE op.method \notin {"PUT", "DELETE"}
          <5>1. a = n
            BY <4>3 DEF After
          <5> QED BY <3>1, <5>1
        <4> QED BY <4>1, <4>2, <4>3
      <3> QED BY <3>1, <3>2
    <2> QED BY <2>1, <2>2
  <1> QED BY <1>1, <1>2, <1>3

ClientOK == RequestsOK /\ LeadersOK /\ NodesOK

LEMMA SendStep ==
    ASSUME ClientOK, NEW r \in Requests, Send(r)
    PROVE  ClientOK'
  <1> DEFINE p == [req[r] EXCEPT !.pc = "sent", !.at = Leader, !.numReqs = @ + 1,
                                 !.tried = @ \cup {Leader}]
  <1>1. RequestOK(p, Leader)
    BY SendOK DEF ClientOK, RequestsOK, LeadersOK, Send
  <1> HIDE DEF p
  <1>2. req' = [req EXCEPT ![r] = p]
    BY DEF Send, getHttpPath, p
  <1> QED BY <1>1, <1>2, OneRequest DEF ClientOK, LeadersOK, NodesOK, Send

LEMMA SleepStep ==
    ASSUME ClientOK, NEW r \in Requests, Sleep(r)
    PROVE  ClientOK'
  <1> DEFINE q == req[r]
             x == [q EXCEPT !.pc = "answered", !.code = ErrRequestCancelled]
             y == [q EXCEPT !.pc = "send"]
  <1>1. RequestOK(q, Leader) /\ q.pc = "sleep"
    BY DEF ClientOK, RequestsOK, Sleep
  <1>2. RequestOK(x, Leader) /\ RequestOK(y, Leader)
    BY <1>1, CancelledOK, SleepOK DEF RequestOK
  <1> HIDE DEF x, y
  <1>3. req' = [req EXCEPT ![r] = x] \/ req' = [req EXCEPT ![r] = y]
    BY DEF Sleep, x, y, ClientOK, RequestsOK
  <1> QED BY <1>2, <1>3, OneRequest DEF ClientOK, LeadersOK, NodesOK, Sleep

\* The answer ends the request: its status is always a valid one.
LEMMA AnsweredStep ==
    ASSUME ClientOK, NEW r \in Requests, Answered(r)
    PROVE  ClientOK'
  <1> DEFINE q == Applied(r)
             x == [q EXCEPT !.pc = "answered"]
             y == [q EXCEPT !.pc = "answered", !.code = OtherError]
  <1>1. RequestOK(req[r], Leader) /\ req[r].pc = "sent"
    BY DEF ClientOK, RequestsOK, Answered, Answers
  <1>2. Basic(q) /\ q.code \in {0, 100, 101, 102, 105} /\ (q.code = 0 => q.applied)
    BY <1>1, AppliedOK
  <1> HIDE DEF q
  <1>3. RequestOK(x, Leader)
    BY <1>2 DEF RequestOK, Basic, Fields, Pcs, Retried, Flying, Counted, Tries, Ends,
                ErrCodeEtcdNotReachable
  <1>4. RequestOK(y, Leader)
    BY <1>2 DEF RequestOK, Basic, Fields, Pcs, Retried, Flying, Counted, Tries, Ends,
                ErrCodeEtcdNotReachable, OtherError
  <1> HIDE DEF x, y
  <1>5. Returned(r, x, Leader) \/ Returned(r, y, Leader)
    BY StatusValid DEF Answered, q, x, y
  <1>6. RequestsOK' /\ Leader' \in Host
    <2>1. Basic(x) /\ Basic(y) /\ Leader \in Host
      BY <1>3, <1>4 DEF RequestOK, ClientOK, LeadersOK
    <2> QED BY <1>3, <1>4, <1>5, <2>1, ReturnedOK DEF ClientOK
  <1>7. NodesOK'
    BY <1>1, AppliesOK DEF ClientOK, Answered, RequestOK, Basic
  <1> QED BY <1>6, <1>7 DEF ClientOK, LeadersOK, Answered

\* A network error moves on to the machine whose turn it is.
LEMMA UnreachableOK ==
    ASSUME ClientOK, NEW r \in Requests, NEW q, RequestOK(q, Leader), q.pc = "sent",
           Unreachable(r, q)
    PROVE  RequestsOK' /\ LeadersOK'
  <1>1. RequestsOK /\ LeadersOK /\ Leader \in Host /\ q.attempt \in Nat
    BY DEF ClientOK, LeadersOK, RequestOK, Basic
  <1>2. elected' = elected
    BY DEF Unreachable
  <1>3. CASE DefaultCheckRetry(q)
    <2> DEFINE p == NotReachable(q)
    <2>1. RequestOK(p, Leader)
      BY <1>3, NotReachableOK
    <2>2. Returned(r, p, Leader)
      BY <1>3 DEF Unreachable
    <2> HIDE DEF p
    <2>3. Basic(p)
      BY <2>1 DEF RequestOK
    <2> QED BY <1>1, <1>2, <2>1, <2>2, <2>3, ReturnedOK DEF LeadersOK
  <1>4. CASE ~DefaultCheckRetry(q)
    <2> DEFINE p == Again(q)
               to == Turn(q.attempt)
    <2>1. RequestOK(p, to)
      BY AgainOK
    <2>2. Returned(r, p, to)
      BY <1>4 DEF Unreachable, switchLeader, Turn
    <2>3. to \in Host
      BY <1>1, Cluster
    <2> HIDE DEF p, to
    <2>4. Basic(p)
      BY <2>1 DEF RequestOK
    <2> QED BY <1>1, <1>2, <2>1, <2>2, <2>3, <2>4, ReturnedOK DEF LeadersOK
  <1> QED BY <1>3, <1>4

LEMMA NetworkErrorStep ==
    ASSUME ClientOK, NEW r \in Requests, NetworkError(r)
    PROVE  ClientOK'
  <1>1. RequestOK(req[r], Leader) /\ req[r].pc = "sent"
    BY DEF ClientOK, RequestsOK, NetworkError
  <1>2. RequestsOK' /\ LeadersOK'
    BY <1>1, UnreachableOK DEF NetworkError
  <1> QED BY <1>2 DEF ClientOK, NodesOK, NetworkError

LEMMA AnswerLostStep ==
    ASSUME ClientOK, NEW r \in Requests, AnswerLost(r)
    PROVE  ClientOK'
  <1> DEFINE q == Applied(r)
             p == [q EXCEPT !.lost = TRUE]
  <1>1. RequestOK(req[r], Leader) /\ req[r].pc = "sent"
    BY DEF ClientOK, RequestsOK, AnswerLost, Answers
  <1>2. /\ Basic(q) /\ Counted(q) /\ Tries(q, Leader) /\ q.pc = "sent"
    BY <1>1, AppliedOK
  <1> HIDE DEF q
  <1>3. RequestOK(p, Leader) /\ p.pc = "sent"
    BY <1>2 DEF RequestOK, Basic, Fields, Pcs, Retried, Flying, Counted, Tries, Ends
  <1>4. Unreachable(r, p)
    BY DEF AnswerLost, q
  <1> HIDE DEF p
  <1>5. RequestsOK' /\ LeadersOK'
    BY <1>3, <1>4, UnreachableOK
  <1>6. NodesOK'
    BY <1>1, AppliesOK DEF ClientOK, AnswerLost, RequestOK, Basic
  <1> QED BY <1>5, <1>6 DEF ClientOK

LEMMA DisturbedOK ==
    ASSUME NEW L, NEW q, RequestOK(q, L), q.pc = "sent"
    PROVE  /\ RequestOK([q EXCEPT !.undisturbed = FALSE], L)
           /\ [q EXCEPT !.undisturbed = FALSE].pc = "sent"
           /\ ~[q EXCEPT !.undisturbed = FALSE].undisturbed
  BY DEF RequestOK, Basic, Fields, Pcs, Retried, Flying, Counted, Tries, Ends

LEMMA RedirectStep ==
    ASSUME ClientOK, NEW r \in Requests, updateLeaderFromURL(r)
    PROVE  ClientOK'
  <1> DEFINE q == [req[r] EXCEPT !.undisturbed = FALSE]
             p == Again(q)
  <1>1. RequestOK(req[r], Leader) /\ req[r].pc = "sent"
    BY DEF ClientOK, RequestsOK, updateLeaderFromURL
  <1>2. RequestOK(q, Leader) /\ q.pc = "sent" /\ ~q.undisturbed
    BY <1>1, DisturbedOK
  <1> HIDE DEF q
  <1>3. RequestOK(p, elected)
    BY <1>2, AgainOK
  <1>4. Returned(r, p, elected)
    BY DEF updateLeaderFromURL, q
  <1> HIDE DEF p
  <1>5. RequestsOK' /\ Leader' \in Host
    <2>1. Basic(p) /\ elected \in Host
      BY <1>3 DEF RequestOK, ClientOK, LeadersOK
    <2> QED BY <1>3, <1>4, <2>1, ReturnedOK DEF ClientOK
  <1> QED BY <1>5 DEF ClientOK, LeadersOK, NodesOK, updateLeaderFromURL

LEMMA UnexpectedStatusStep ==
    ASSUME ClientOK, NEW r \in Requests, UnexpectedStatus(r)
    PROVE  ClientOK'
  <1> DEFINE q == [req[r] EXCEPT !.undisturbed = FALSE]
             p == IF DefaultCheckRetry(q) THEN NotReachable(q) ELSE Again(q)
  <1>1. RequestOK(req[r], Leader) /\ req[r].pc = "sent"
    BY DEF ClientOK, RequestsOK, UnexpectedStatus
  <1>2. RequestOK(q, Leader) /\ q.pc = "sent" /\ ~q.undisturbed
    BY <1>1, DisturbedOK
  <1>3. Returned(r, p, Leader)
    BY DEF UnexpectedStatus
  <1> HIDE DEF q
  <1>4. RequestOK(p, Leader)
    <2>1. RequestOK(Again(q), Leader)
      BY <1>2, AgainOK
    <2>2. CASE DefaultCheckRetry(q)
      BY <1>2, <2>2, NotReachableOK
    <2> QED BY <2>1, <2>2
  <1> HIDE DEF p
  <1>5. RequestsOK' /\ Leader' \in Host
    <2>1. Basic(p) /\ Leader \in Host
      BY <1>4 DEF RequestOK, ClientOK, LeadersOK
    <2> QED BY <1>3, <1>4, <2>1, ReturnedOK DEF ClientOK
  <1> QED BY <1>5 DEF ClientOK, LeadersOK, NodesOK, UnexpectedStatus

LEMMA CancelStep ==
    ASSUME ClientOK, NEW r \in Requests, Cancel(r)
    PROVE  ClientOK'
  <1> DEFINE p == [req[r] EXCEPT !.cancelled = TRUE]
  <1>1. RequestOK(p, Leader)
    BY DEF ClientOK, RequestsOK, RequestOK, Basic, Fields, Pcs, Retried, Flying, Counted, Tries, Ends
  <1> HIDE DEF p
  <1>2. req' = [req EXCEPT ![r] = p]
    BY DEF Cancel, p, ClientOK, RequestsOK
  <1> QED BY <1>1, <1>2, OneRequest DEF ClientOK, LeadersOK, NodesOK, Cancel

LEMMA CancelRequestStep ==
    ASSUME ClientOK, NEW r \in Requests, CancelRequest(r)
    PROVE  ClientOK'
  <1> DEFINE q == req[r]
  <1>1. Basic(q) /\ q.cancelled /\ Returned(r, q, Leader) /\ Leader \in Host
    BY DEF ClientOK, RequestsOK, LeadersOK, RequestOK, CancelRequest
  <1>2. RequestsOK' /\ Leader' \in Host
    BY <1>1, ReturnedOK DEF ClientOK
  <1> QED BY <1>2 DEF ClientOK, LeadersOK, NodesOK, CancelRequest

LEMMA ClientStepOK ==
    ASSUME ClientOK, NEW r \in Requests, ClientStep(r)
    PROVE  ClientOK'
  BY SendStep, SleepStep, AnsweredStep, NetworkErrorStep, AnswerLostStep, RedirectStep,
     UnexpectedStatusStep, CancelRequestStep DEF ClientStep

-----------------------------------------------------------------------------
(* The pool.                                                               *)

LEMMA FreeWorker ==
    ASSUME PoolOK, Free > 0
    PROVE  exited < poolSize
  <1>1. Cardinality(running) \in Nat
    BY FS_CardinalityType DEF PoolOK
  <1> QED BY <1>1, Sizes DEF PoolOK, Free

LEMMA startWorkerStep ==
    ASSUME IInv, NEW r \in Requests, startWorker(r)
    PROVE  IInv'
  <1> DEFINE p == Asked(req[r].op)
  <1>1. RequestOK(p, Leader)
    <2>1. DirOp(req[r].op)
      BY DEF IInv, RequestsOK, RequestOK, Basic
    <2> QED BY <2>1, AskedOK
  <1> HIDE DEF p
  <1>2. req' = [req EXCEPT ![r] = p] /\ Leader' = Leader
    BY DEF startWorker, p
  <1>3. RequestsOK'
    BY <1>1, <1>2, OneRequest DEF IInv
  <1>4. IsFiniteSet(running')
    BY FS_AddElement DEF startWorker, IInv, PoolOK
  <1>5. PoolOK'
    BY <1>4 DEF startWorker, IInv, PoolOK
  <1> QED BY <1>3, <1>5 DEF startWorker, IInv, LeadersOK, NodesOK, CallsOK, OthersOK, callVars, watchVars

LEMMA WorkEndsStep ==
    ASSUME IInv, NEW r \in Requests, WorkEnds(r)
    PROVE  IInv'
  <1> DEFINE p == [req[r] EXCEPT !.pc = "result"]
  <1>1. RequestOK(p, Leader)
    <2>1. RequestOK(req[r], Leader) /\ req[r].pc = "answered"
      BY DEF IInv, RequestsOK, WorkEnds
    <2> QED BY <2>1 DEF RequestOK, Basic, Fields, Pcs, Retried, Flying, Counted, Tries, Ends
  <1> HIDE DEF p
  <1>2. req' = [req EXCEPT ![r] = p] /\ Leader' = Leader
    BY DEF WorkEnds, p
  <1>3. RequestsOK'
    BY <1>1, <1>2, OneRequest DEF IInv
  <1>4. IsFiniteSet(running')
    BY FS_RemoveElement DEF WorkEnds, IInv, PoolOK
  <1>5. PoolOK'
    BY <1>4 DEF WorkEnds, IInv, PoolOK
  <1> QED BY <1>3, <1>5 DEF WorkEnds, IInv, LeadersOK, NodesOK, CallsOK, OthersOK, callVars, watchVars

\* Workers exit, and Disconnect goes on: no request and no call changes.
LEMMA PoolSteps ==
    ASSUME IInv, WorkerExits \/ StopWorkers \/ WorkersStopped \/ cancelInflightWatches
    PROVE  IInv'
  <1>1. UNCHANGED <<req, Leader, elected, node, call, calls, watch, running>>
    BY DEF WorkerExits, StopWorkers, WorkersStopped, cancelInflightWatches, clientVars,
           callVars, watchVars
  <1>2. RequestsOK' /\ LeadersOK' /\ NodesOK' /\ CallsOK'
    BY <1>1 DEF IInv, RequestsOK, LeadersOK, NodesOK, CallsOK
  <1>3. exited' \in 0 .. poolSize
    <2>1. CASE WorkerExits
      <3>1. exited < poolSize /\ exited' = exited + 1
        BY <2>1, FreeWorker DEF IInv, WorkerExits
      <3> QED BY <3>1, Sizes DEF IInv, PoolOK
    <2>2. CASE ~WorkerExits
      BY <2>2 DEF StopWorkers, WorkersStopped, cancelInflightWatches, IInv, PoolOK
    <2> QED BY <2>1, <2>2
  <1>4. stopping' \in {"no", "waiting", "returned", "disconnected"} /\ closed' \in BOOLEAN
        /\ stop' \in BOOLEAN
    BY Zenon DEF IInv, PoolOK, OthersOK, WorkerExits, StopWorkers, WorkersStopped,
                 cancelInflightWatches, watchVars
  <1>5. PoolOK' /\ OthersOK'
    BY <1>1, <1>3, <1>4 DEF IInv, PoolOK, OthersOK
  <1> QED BY <1>2, <1>5 DEF IInv

-----------------------------------------------------------------------------
(* The operations.                                                         *)

LEMMA TheKey == Key \in Keys /\ KeyOrder \in [Keys -> Nat]
  <1>1. KeyOrder \in [Keys -> Nat] /\ \E k \in Keys : KeyOrder[k] = 1
    BY StoreAdapterAssumption, Zenon
  <1> QED BY <1>1 DEF Key

LEMMA KeyCount == MaxKeys \in Nat /\ MaxKeys >= 1
  BY StoreAdapterAssumption

LEMMA TheArguments ==
    ASSUME NEW op \in DOMAIN Arguments
    PROVE  /\ op \in {"SetMulti", "Get", "ListRecursively", "Create", "Update", "CompareAndSwap",
                      "CompareAndSwapByIndex", "Delete", "CompareAndDelete", "UpdateDirTTL"}
           /\ Arguments[op] \subseteq Keys /\ IsFiniteSet(Arguments[op])
           /\ Cardinality(Arguments[op]) <= MaxKeys
  BY StoreAdapterAssumption, Zenon

LEMMA DirOps ==
    ASSUME NEW k, NEW v, NEW w, NEW i, NEW b
    PROVE  /\ DirOp(Set(k, v)) /\ DirOp(RawGet(k, b)) /\ DirOp(Create(k, v)) /\ DirOp(Update(k, v))
           /\ DirOp(RawCompareAndSwap(k, v, w, i)) /\ DirOp(RawDelete(k, TRUE, FALSE))
           /\ DirOp(RawCompareAndDelete(k, w, i)) /\ DirOp(UpdateDir(k)) /\ DirOp(WaitFor(k, i))
  <1> USE DEF DirOp, Is, Has, Request, put, get, delete
  <1>1. DirOp(Set(k, v)) /\ DirOp(Create(k, v)) /\ DirOp(Update(k, v)) /\ DirOp(UpdateDir(k))
    BY DEF Set, Create, Update, UpdateDir, None
  <1>2. DirOp(RawGet(k, b)) /\ DirOp(RawDelete(k, TRUE, FALSE)) /\ DirOp(WaitFor(k, i))
    BY DEF RawGet, RawDelete, WaitFor
  <1>3. DirOp(RawCompareAndDelete(k, w, i))
    BY DEF RawCompareAndDelete, Refused
  <1>4. DirOp(RawCompareAndSwap(k, v, w, i))
    <2>1. "dir" \notin DOMAIN Prev(w, i)
      BY DEF Prev, None
    <2> QED BY <2>1 DEF RawCompareAndSwap, Refused
  <1> QED BY <1>1, <1>2, <1>3, <1>4

LEMMA OperationsOK ==
    ASSUME NEW op \in DOMAIN Arguments, NEW v, NEW i
    PROVE  LET ops == RequestsOf(op, Key, v, i)
           IN /\ \A key \in DOMAIN ops : DirOp(ops[key])
              /\ DOMAIN ops \subseteq Keys /\ IsFiniteSet(DOMAIN ops) /\ Cardinality(DOMAIN ops) <= MaxKeys
  <1> DEFINE ops == RequestsOf(op, Key, v, i)
  <1>1. IsFiniteSet({Key}) /\ Cardinality({Key}) <= MaxKeys /\ {Key} \subseteq Keys
    BY FS_Singleton, TheKey, KeyCount
  <1>2. DOMAIN ops \in {{Key}, Arguments[op]}
    BY TheArguments DEF RequestsOf
  <1>3. ASSUME NEW key \in DOMAIN ops PROVE DirOp(ops[key])
    BY TheArguments, DirOps DEF RequestsOf
  <1>4. DOMAIN ops \subseteq Keys /\ IsFiniteSet(DOMAIN ops) /\ Cardinality(DOMAIN ops) <= MaxKeys
    BY <1>1, <1>2, TheArguments
  <1> QED BY <1>3, <1>4

LEMMA SlotOK ==
    ASSUME NEW S \in SUBSET Keys, IsFiniteSet(S), Cardinality(S) <= MaxKeys, NEW k \in S
    PROVE  Slot(S, k) \in Slots
  <1> DEFINE T == {j \in S : KeyOrder[j] <= KeyOrder[k]}
  <1>1. IsFiniteSet(T) /\ Cardinality(T) <= Cardinality(S)
    BY FS_Subset
  <1>2. Cardinality(T) \in Nat /\ Cardinality(S) \in Nat
    BY <1>1, FS_CardinalityType
  <1>3. k \in T
    BY TheKey
  <1>4. Cardinality(T) # 0
    BY <1>1, <1>3, FS_EmptySet
  <1>5. Cardinality(T) \in Slots
    <2> HIDE DEF T
    <2> QED BY <1>1, <1>2, <1>4, KeyCount DEF Slots
  <1> QED BY <1>5 DEF Slot

\* Two keys of an operation have two requests.
LEMMA SlotsDiffer ==
    ASSUME NEW S \in SUBSET Keys, IsFiniteSet(S), NEW j \in S, NEW k \in S, KeyOrder[j] < KeyOrder[k]
    PROVE  Slot(S, j) # Slot(S, k)
  <1> DEFINE T(i) == {l \in S : KeyOrder[l] <= KeyOrder[i]}
  <1>1. T(j) \subseteq T(k) /\ k \in T(k) /\ k \notin T(j)
    BY TheKey
  <1>2. IsFiniteSet(T(k))
    BY FS_Subset
  <1>3. Cardinality(T(j)) # Cardinality(T(k))
    <2> HIDE DEF T
    <2> QED BY <1>1, <1>2, FS_Subset
  <1> QED BY <1>3 DEF Slot

\* An operation begins: its requests are scheduled, the others are left alone.
LEMMA BeginStep ==
    ASSUME IInv, NEW c \in Callers, NEW op \in DOMAIN Arguments, NEW v, NEW i,
           Begin(c, op, Key, v, i)
    PROVE  IInv'
  <1> DEFINE ops == RequestsOf(op, Key, v, i)
             new == [key \in DOMAIN ops |-> <<c, Slot(DOMAIN ops, key)>>]
             need == {new[key] : key \in DOMAIN ops}
             x == [NoCall EXCEPT !.op = op, !.need = need,
                                 !.ret = IF DOMAIN ops = {} THEN "nil" ELSE @]
  <1>1. /\ \A key \in DOMAIN ops : DirOp(ops[key])
        /\ DOMAIN ops \subseteq Keys /\ IsFiniteSet(DOMAIN ops) /\ Cardinality(DOMAIN ops) <= MaxKeys
    BY OperationsOK
  <1>2. /\ req' = [r \in Requests |->
                     IF \E key \in DOMAIN ops : new[key] = r
                     THEN ScheduleWork(ops[CHOOSE key \in DOMAIN ops : new[key] = r]) ELSE req[r]]
        /\ call' = [call EXCEPT ![c] = x]
        /\ calls < MaxCalls /\ calls' = calls + 1
        /\ UNCHANGED <<node, elected, Leader, closed, running, exited, stopping, watch, stop>>
    BY DEF Begin, poolVars, watchVars
  <1> HIDE DEF ops
  <1>3. need \subseteq {c} \X Slots
    BY <1>1, SlotOK
  <1>a. DOMAIN ops = {} => need = {}
    OBVIOUS
  <1> HIDE DEF new, need
  <1>4. RequestsOK'
    <2>1. DOMAIN req' = Requests
      BY <1>2
    <2>2. ASSUME NEW r \in Requests PROVE RequestOK(req'[r], Leader)
      <3>1. CASE \E key \in DOMAIN ops : new[key] = r
        <4> DEFINE k == CHOOSE key \in DOMAIN ops : new[key] = r
        <4>1. k \in DOMAIN ops
          BY <3>1
        <4>2. req'[r] = ScheduleWork(ops[k])
          BY <1>2, <3>1
        <4> HIDE DEF k
        <4>3. DirOp(ops[k])
          BY <1>1, <4>1
        <4> QED BY <4>2, <4>3, ScheduleWorkOK
      <3>2. CASE ~\E key \in DOMAIN ops : new[key] = r
        BY <1>2, <3>2 DEF IInv, RequestsOK
      <3> QED BY <3>1, <3>2
    <2> QED BY <1>2, <2>1, <2>2 DEF RequestsOK
  <1>5. CallOK(c, x)
    BY <1>3, <1>a DEF CallOK, NoCall, Ret
  <1> HIDE DEF x
  <1>6. CallsOK'
    BY <1>2, <1>5 DEF IInv, CallsOK
  <1>7. calls' \in 0 .. MaxCalls
    BY <1>2, Sizes DEF IInv, OthersOK
  <1> QED BY <1>2, <1>4, <1>6, <1>7 DEF IInv, LeadersOK, NodesOK, PoolOK, OthersOK

\* nil is returned for no error.
LEMMA ReturnsOK ==
    ASSUME NEW op, NEW err, NEW n
    PROVE  Returns(op, err, n) \in Ret /\ (Returns(op, err, n) = "nil" => err = 0)
  <1>1. convertError(err) \in Ret /\ (convertError(err) = "nil" => err = 0)
    BY DEF convertError, Ret
  <1>2. Returns(op, err, n) \in {"ErrorNodeIsDirectory", "ErrorNodeIsNotDirectory", convertError(err)}
    BY DEF Returns
  <1> QED BY <1>1, <1>2 DEF Ret

LEMMA ReceiveResultStep ==
    ASSUME IInv, NEW c \in Callers, NEW r \in Requests, ReceiveResult(c, r)
    PROVE  IInv'
  <1> DEFINE q == req[r]
             x == call[c]
             err == firstError(x.err, q.code)
             left == x.need \ {r}
             got == [x EXCEPT !.need = left, !.err = err, !.failed = @ \/ q.code # 0,
                              !.applied = @ /\ q.applied]
             dirTTL == x.op = "UpdateDirTTL" /\ q.op.method = "GET" /\ ~(q.code = 0 /\ q.node.kind = "file")
             ret == Returns(got.op, err, q.node)
             y == IF dirTTL THEN [NoCall EXCEPT !.op = "UpdateDirTTL", !.need = {r}]
                  ELSE IF left = {} THEN [got EXCEPT !.ret = ret] ELSE got
             p == IF dirTTL THEN ScheduleWork(UpdateDir(q.op.key)) ELSE Idle
  <1>1. /\ call' = [call EXCEPT ![c] = y] /\ req' = [req EXCEPT ![r] = p]
        /\ r \in x.need /\ q.pc = "result"
        /\ UNCHANGED <<node, elected, Leader, closed, running, exited, stopping, calls, watch, stop>>
    BY DEF ReceiveResult, poolVars, watchVars
  <1>2. CallOK(c, x) /\ RequestOK(q, Leader)
    BY DEF IInv, CallsOK, RequestsOK
  <1>3. RequestOK(p, Leader)
    BY IdleRequest, DirOps, ScheduleWorkOK
  <1>4. q.code = 0 => q.applied
    BY <1>1, <1>2 DEF RequestOK, Ends
  <1>5. err = (IF x.err = 0 THEN q.code ELSE x.err)
    BY DEF firstError
  <1>6. q.applied \in BOOLEAN
    BY <1>2 DEF RequestOK, Basic
  <1>7. ret \in Ret /\ (ret = "nil" => err = 0)
    BY ReturnsOK
  <1> HIDE DEF err, ret, dirTTL
  <1>8. CallOK(c, [NoCall EXCEPT !.op = "UpdateDirTTL", !.need = {r}])
    BY <1>1, <1>2 DEF CallOK, NoCall, Ret
  <1>9. /\ DOMAIN got = {"op", "need", "err", "ret", "applied", "failed"}
        /\ got.need = left /\ got.err = err /\ got.ret = x.ret /\ x.ret = "none"
        /\ got.failed = (x.failed \/ q.code # 0) /\ got.applied = (x.applied /\ q.applied)
    BY <1>1, <1>2 DEF CallOK
  <1>10. left \subseteq {c} \X Slots /\ (got.failed \/ ~got.applied => err # 0)
         /\ got.failed \in BOOLEAN /\ got.applied \in BOOLEAN
    BY <1>2, <1>4, <1>5, <1>6, <1>9 DEF CallOK
  <1> HIDE DEF got
  <1>11. CallOK(c, got)
    BY <1>9, <1>10 DEF CallOK, Ret
  <1>12. CallOK(c, y)
    <2>1. left = {} => CallOK(c, [got EXCEPT !.ret = ret])
      BY <1>7, <1>9, <1>10 DEF CallOK
    <2> QED BY <1>8, <1>11, <2>1
  <1> HIDE DEF y, p, x, q
  <1>13. CallsOK'
    BY <1>1, <1>12 DEF IInv, CallsOK
  <1>14. RequestsOK'
    BY <1>1, <1>3, OneRequest DEF IInv
  <1> QED BY <1>1, <1>13, <1>14 DEF IInv, LeadersOK, NodesOK, PoolOK, OthersOK

-----------------------------------------------------------------------------
(* The watch and the others.                                               *)

LEMMA WatchSteps ==
    ASSUME IInv, Watch \/ WatchRegisters(Key) \/ dispatchWatchEvents \/ CloseStop
    PROVE  IInv'
  <1>1. UNCHANGED <<Leader, elected, node, call, running, closed, exited, stopping>>
    BY DEF Watch, WatchRegisters, dispatchWatchEvents, CloseStop, clientVars, callVars, poolVars
  <1>2. LeadersOK' /\ NodesOK' /\ CallsOK' /\ PoolOK'
    BY <1>1 DEF IInv, LeadersOK, NodesOK, CallsOK, PoolOK
  <1>3. RequestsOK'
    <2>1. CASE req' = req
      BY <1>1, <2>1 DEF IInv, RequestsOK
    <2>2. ASSUME NEW k, NEW i, req' = [req EXCEPT ![Watcher] = WatchOnce(k, i)] PROVE RequestsOK'
      <3> DEFINE p == WatchOnce(k, i)
      <3>1. RequestOK(p, Leader)
        BY DirOps, AskedOK DEF WatchOnce
      <3> HIDE DEF p
      <3>2. req' = [req EXCEPT ![Watcher] = p]
        BY <2>2 DEF p
      <3> QED BY <1>1, <3>1, <3>2, OneRequest, Sizes DEF IInv
    <2>3. CASE req' = [req EXCEPT ![Watcher] = Idle]
      BY <1>1, <2>3, IdleRequest, OneRequest, Sizes DEF IInv
    <2>4. \/ req' = req \/ req' = [req EXCEPT ![Watcher] = Idle]
          \/ req' = [req EXCEPT ![Watcher] = WatchOnce(Key, etcdIndex + 1)]
          \/ req' = [req EXCEPT ![Watcher] = WatchOnce(req[Watcher].op.key, req[Watcher].node.index + 1)]
      BY DEF Watch, WatchRegisters, dispatchWatchEvents, CloseStop, clientVars
    <2> QED BY <2>1, <2>2, <2>3, <2>4
  <1>4. calls' \in 0 .. MaxCalls
    BY Sizes DEF Watch, WatchRegisters, dispatchWatchEvents, CloseStop, callVars, IInv, OthersOK
  <1>5. stop' \in BOOLEAN /\ watch' \in {"off", "starting", "watching", "ended"}
    BY DEF Watch, WatchRegisters, dispatchWatchEvents, CloseStop, IInv, OthersOK
  <1> QED BY <1>2, <1>3, <1>4, <1>5 DEF IInv, OthersOK

\* Another client, and what befalls the machines.
LEMMA OthersSteps ==
    ASSUME IInv,
           OtherClient(Key) \/ (Unaware /\ \E h \in Host : Dies(h) \/ Elect(h))
    PROVE  IInv'
  <1>1. UNCHANGED <<req, Leader, call, calls, watch, stop, running, closed, exited, stopping>>
    BY DEF OtherClient, Unaware, Dies, Elect, poolVars, callVars, watchVars
  <1>2. RequestsOK' /\ CallsOK' /\ PoolOK' /\ OthersOK'
    BY <1>1 DEF IInv, RequestsOK, CallsOK, PoolOK, OthersOK
  <1>3. LeadersOK'
    BY <1>1 DEF OtherClient, Dies, Elect, IInv, LeadersOK
  <1>4. NodesOK'
    <2>1. CASE node' = node
      BY <2>1 DEF IInv, NodesOK
    <2>2. CASE OtherClient(Key)
      <3> DEFINE a == IF node[Key].kind = "absent"
                      THEN After(node[Key], CreateDir(Key), etcdIndex + 1) ELSE Absent
      <3>1. a.kind \in {"absent", "file", "dir"} /\ (a.kind = "dir" => a.value = NoValue)
        BY DEF After, CreateDir, put, Request, Absent
      <3> HIDE DEF a
      <3>2. node' = [node EXCEPT ![Key] = a]
        BY <2>2 DEF OtherClient, a
      <3> QED BY <3>1, <3>2 DEF IInv, NodesOK
    <2> QED BY <2>1, <2>2 DEF Dies, Elect
  <1> QED BY <1>2, <1>3, <1>4 DEF IInv

LEMMA ClientSteps ==
    ASSUME IInv, Unaware, (\E r \in Requests : ClientStep(r)) \/ Cancel(Watcher)
    PROVE  IInv'
  <1>1. ClientOK
    BY DEF IInv, ClientOK
  <1>2. ClientOK'
    BY <1>1, ClientStepOK, CancelStep, Sizes
  <1>3. CallsOK' /\ PoolOK' /\ OthersOK'
    BY DEF Unaware, poolVars, callVars, watchVars, IInv, CallsOK, PoolOK, OthersOK
  <1> QED BY <1>2, <1>3 DEF IInv, ClientOK

LEMMA IInvStep == IInv /\ [Next]_vars => IInv'
  <1> SUFFICES ASSUME IInv, [Next]_vars PROVE IInv'
    OBVIOUS
  <1>1. ASSUME NEW c \in Callers, NEW op \in DOMAIN Arguments, NEW v, NEW i, Begin(c, op, Key, v, i)
        PROVE  IInv'
    BY <1>1, BeginStep
  <1>2. ASSUME NEW c \in Callers, NEW r \in Requests, ReceiveResult(c, r) PROVE IInv'
    BY <1>2, ReceiveResultStep
  <1>3. ASSUME NEW r \in Requests, startWorker(r) \/ WorkEnds(r) PROVE IInv'
    BY <1>3, startWorkerStep, WorkEndsStep
  <1>4. CASE WorkerExits \/ StopWorkers \/ WorkersStopped \/ cancelInflightWatches
    BY <1>4, PoolSteps
  <1>5. CASE Watch \/ WatchRegisters(Key) \/ dispatchWatchEvents \/ CloseStop
    BY <1>5, WatchSteps
  <1>6. CASE Unaware /\ ((\E r \in Requests : ClientStep(r)) \/ Cancel(Watcher))
    BY <1>6, ClientSteps
  <1>7. CASE OtherClient(Key) \/ (Unaware /\ \E h \in Host : Dies(h) \/ Elect(h))
    BY <1>7, OthersSteps
  <1>8. CASE UNCHANGED vars
    BY <1>8 DEF vars, clientVars, poolVars, callVars, watchVars, IInv, RequestsOK, LeadersOK,
                NodesOK, CallsOK, PoolOK, OthersOK
  <1> QED BY <1>1, <1>2, <1>3, <1>4, <1>5, <1>6, <1>7, <1>8 DEF Next

LEMMA SpecIInv == Spec => []IInv
  BY Initially, IInvStep, PTL DEF Spec

-----------------------------------------------------------------------------
\* The operations of the adapter, whatever the cluster, the pool and the
\* callers: nil is returned only when etcd applied every request of the
\* operation and none failed; the state is well typed.
THEOREM StoreNilMeansApplied == Spec => []NilMeansApplied
  <1>1. IInv => NilMeansApplied
    <2> SUFFICES ASSUME IInv PROVE NilMeansApplied
      OBVIOUS
    <2>1. ASSUME NEW r \in Requests PROVE req[r].attempt < req[r].numReqs \/ ~InFlight(r)
      <3>1. RequestOK(req[r], Leader)
        BY DEF IInv, RequestsOK
      <3> QED BY <3>1 DEF RequestOK, Basic, Counted, InFlight
    <2>2. ASSUME NEW c \in Callers
          PROVE  /\ call[c].ret \in Ret /\ call[c].need \subseteq {c} \X Slots
                 /\ call[c].ret = "nil" => call[c].applied /\ ~call[c].failed
      BY DEF IInv, CallsOK, CallOK
    <2>3. TypeOK
      BY <2>1, <2>2, Zenon DEF IInv, TypeOK, LeadersOK, NodesOK, PoolOK, OthersOK
    <2> QED BY <2>2, <2>3 DEF NilMeansApplied
  <1> QED BY <1>1, SpecIInv, PTL

\* SendRequest: etcd applies a request twice only after a lost answer.
THEOREM StoreAppliedOnce == Spec => []AppliedOnce
  <1>1. IInv => AppliedOnce
    BY DEF IInv, RequestsOK, RequestOK, Basic, AppliedOnce
  <1> QED BY <1>1, SpecIInv, PTL

\* DefaultCheckRetry: a request that nobody interfered with has tried every
\* machine when it gives the cluster up, however many machines there are.
THEOREM StoreTriesAll == Spec => []NotReachableMeansTried
  <1>1. IInv => NotReachableMeansTried
    BY DEF IInv, RequestsOK, RequestOK, Ends, NotReachableMeansTried
  <1> QED BY <1>1, SpecIInv, PTL

-----------------------------------------------------------------------------
(* MaintainNode, which runs beside the other operations on a goroutine of  *)
(* its own, for every set of maintainers, every TTL and however late       *)
(* requests, answers and readers are.                                      *)

\* Who is gone holds nothing and was told nothing.
GoneHoldsNothing ==
    \A m \in Maintainers : pc[m] = "off" => ~told[m] /\ ~owned[m]

\* A client that called Remove holds nothing any more.
RemovingGaveUp == \A m \in Maintainers : removing[m] => ~told[m]

\* Who was told so owns the node, or is about to be told that it does not;
\* TRUE is sent by an owner, and an owner renews rather than creates.
ToldByOwner == \A m \in Maintainers : told[m] => owned[m] \/ BeingTold(m)
SentByOwner == \A m \in Maintainers : pc[m] = "send" => sending[m] = owned[m]
OwnerCreated == \A m \in Maintainers : owned[m] => created[m]

\* A round begins when the timer has fired, which is set again at its end.
TimerHasFired ==
    \A m \in Maintainers :
        pc[m] \in {"request", "answer"} \/ BeingTold(m) => timer[m] <= 0

\* Unless its slack is used up, the owner's value is in the store, and outlives
\* the next round by that slack.
OwnerHasTime ==
    \A m \in Maintainers :
        owned[m] /\ slack[m] > 0
        => holder = m /\ ttl >= slack[m] /\ ttl >= slack[m] + timer[m]

\* A request that etcd applied will make an owner.
AppliedHasTime ==
    \A m \in Maintainers :
        /\ answer[m] = "ok" => pc[m] = "answer"
        /\ answer[m] = "ok" /\ slack[m] > 0
           => holder = m /\ ttl >= slack[m] + maintenanceInterval

LockInv ==
    /\ MaintainTypeOK
    /\ GoneHoldsNothing /\ RemovingGaveUp /\ ToldByOwner /\ SentByOwner /\ OwnerCreated
    /\ TimerHasFired
    /\ OwnerHasTime /\ AppliedHasTime

\* What is said of the goroutines and their clients, and of the time they have.
Sayings == GoneHoldsNothing /\ RemovingGaveUp /\ ToldByOwner /\ SentByOwner /\ OwnerCreated /\ TimerHasFired

-----------------------------------------------------------------------------
LEMMA Durations ==
    /\ TTL \in Nat /\ MaxDelay \in Nat
    /\ maintenanceInterval \in Nat /\ maintenanceInterval > 0
    /\ Slack \in Nat /\ Slack + maintenanceInterval = TTL
    /\ 0 \in -MaxDelay .. maintenanceInterval
    /\ retryBackOff \subseteq -MaxDelay .. maintenanceInterval
    /\ 0 \in 0 .. Slack /\ Slack \in 0 .. Slack
  BY MaintainNodeAssumption, SMT DEF maintenanceInterval, frequency, Slack, retryBackOff

LEMMA FirstCycle == 0 \in 0 .. frequency - 1
  BY DEF frequency

\* The variables that no maintainer's step but its own changes.
Own(m) == <<pc[m], answer[m], timer[m], owned[m], created[m], sending[m], told[m], slack[m]>>

LEMMA LockInitially == MaintainInit => LockInv
  <1> SUFFICES ASSUME MaintainInit PROVE LockInv
    OBVIOUS
  <1>1. ttl \in 0 .. TTL /\ failures \in 0 .. MaxFailures /\ starts \in 0 .. MaxStarts
    BY MaintainNodeAssumption DEF MaintainInit
  <1>2. MaintainTypeOK
    BY <1>1, Durations, FirstCycle, Zenon DEF MaintainInit, MaintainTypeOK, EtcdAnswers
  <1> QED BY <1>2 DEF MaintainInit, LockInv, GoneHoldsNothing, RemovingGaveUp, ToldByOwner, SentByOwner,
                      OwnerCreated, TimerHasFired, OwnerHasTime, AppliedHasTime, BeingTold

-----------------------------------------------------------------------------
(* The client.                                                             *)

LEMMA MaintainStep ==
    ASSUME LockInv, NEW m \in Maintainers, Maintain(m)
    PROVE  LockInv'
  <1>1. MaintainTypeOK'
    BY MaintainNodeAssumption DEF LockInv, MaintainTypeOK, Maintain, store, locals
  <1> QED BY <1>1 DEF LockInv, MaintainTypeOK, GoneHoldsNothing, RemovingGaveUp, ToldByOwner, SentByOwner,
            OwnerCreated, TimerHasFired, OwnerHasTime, AppliedHasTime, BeingTold, Maintain, store, locals

LEMMA RemoveStep ==
    ASSUME LockInv, NEW m \in Maintainers, Remove(m)
    PROVE  LockInv'
  <1>1. MaintainTypeOK'
    BY DEF LockInv, MaintainTypeOK, Remove, store, locals
  <1> QED BY <1>1 DEF LockInv, MaintainTypeOK, GoneHoldsNothing, RemovingGaveUp, ToldByOwner, SentByOwner,
            OwnerCreated, TimerHasFired, OwnerHasTime, AppliedHasTime, BeingTold, Remove, store, locals

\* What was read becomes what was told; a back-off is for one who owns nothing.
LEMMA ReceiveStep ==
    ASSUME LockInv, NEW m \in Maintainers, Receive(m)
    PROVE  LockInv'
  <1>1. PICK t \in -MaxDelay .. maintenanceInterval :
            /\ timer' = [timer EXCEPT ![m] = t]
            /\ t = timer[m] \/ (~sending[m] /\ created[m])
    BY Durations DEF Receive, LockInv, MaintainTypeOK
  <1>2. MaintainTypeOK'
    BY <1>1 DEF LockInv, MaintainTypeOK, Receive, store, locals
  <1>3. Sayings'
    BY <1>1 DEF LockInv, MaintainTypeOK, Sayings, GoneHoldsNothing, RemovingGaveUp, ToldByOwner, SentByOwner,
         OwnerCreated, TimerHasFired, BeingTold, Receive, store, locals
  <1>4. OwnerHasTime' /\ AppliedHasTime'
    BY <1>1 DEF LockInv, MaintainTypeOK, SentByOwner, OwnerHasTime, AppliedHasTime, Receive, store, locals
  <1> QED BY <1>2, <1>3, <1>4 DEF LockInv, Sayings

\* A goroutine that is gone leaves nothing to say of it.
LEMMA GoneOK ==
    ASSUME LockInv, NEW m \in Maintainers, Gone(m),
           holder' \in Maintainers \cup {NoOne}, ttl' \in 0 .. TTL,
           (holder' = holder /\ ttl' = ttl) \/ holder = m,
           told' = [told EXCEPT ![m] = FALSE], removing' = [removing EXCEPT ![m] = FALSE],
           failures' \in 0 .. MaxFailures, starts' = starts
    PROVE  LockInv'
  <1>1. MaintainTypeOK'
    BY Durations, FirstCycle DEF LockInv, MaintainTypeOK, Gone, EtcdAnswers
  <1>2. Sayings'
    BY DEF LockInv, MaintainTypeOK, Sayings, GoneHoldsNothing, RemovingGaveUp, ToldByOwner, SentByOwner,
         OwnerCreated, TimerHasFired, BeingTold, Gone
  <1>3. OwnerHasTime' /\ AppliedHasTime'
    BY DEF LockInv, MaintainTypeOK, OwnerHasTime, AppliedHasTime, Gone
  <1> QED BY <1>1, <1>2, <1>3 DEF LockInv, Sayings

LEMMA DieStep ==
    ASSUME LockInv, NEW m \in Maintainers, Die(m)
    PROVE  LockInv'
  <1>1. failures' \in 0 .. MaxFailures
    BY MaintainNodeAssumption DEF LockInv, MaintainTypeOK, Die, Failure
  <1> QED BY <1>1, GoneOK DEF LockInv, MaintainTypeOK, Die, store

-----------------------------------------------------------------------------
(* The goroutine: maintainNode.                                            *)

LEMMA TimerFiresStep ==
    ASSUME LockInv, NEW m \in Maintainers, TimerFires(m)
    PROVE  LockInv'
  <1>1. MaintainTypeOK'
    BY DEF LockInv, MaintainTypeOK, TimerFires, store, locals, client
  <1> QED BY <1>1 DEF LockInv, MaintainTypeOK, GoneHoldsNothing, RemovingGaveUp, ToldByOwner, SentByOwner,
            OwnerCreated, TimerHasFired, OwnerHasTime, AppliedHasTime, BeingTold, TimerFires,
            store, locals, client

\* Who is removed gave up what it was told.
LEMMA ReleaseStep ==
    ASSUME LockInv, NEW m \in Maintainers, Release(m)
    PROVE  LockInv'
  <1>1. failures' \in 0 .. MaxFailures
    BY MaintainNodeAssumption DEF LockInv, MaintainTypeOK, Release, Failure
  <1>2. told' = [told EXCEPT ![m] = FALSE]
    BY DEF LockInv, MaintainTypeOK, RemovingGaveUp, Release
  <1>3. /\ holder' \in Maintainers \cup {NoOne} /\ ttl' \in 0 .. TTL
        /\ (holder' = holder /\ ttl' = ttl) \/ holder = m
    BY Durations DEF LockInv, MaintainTypeOK, Release, store
  <1> QED BY <1>1, <1>2, <1>3, GoneOK DEF Release

\* A request that etcd applies starts its slack anew: it is of the holder, or
\* nobody holds the node.
LEMMA ReachesEtcdStep ==
    ASSUME LockInv, NEW m \in Maintainers, ReachesEtcd(m)
    PROVE  LockInv'
  <1>0. (IF Applicable(m) THEN "ok" ELSE Refusal(m)) \in EtcdAnswers
    BY DEF EtcdAnswers, Refusal
  <1>1. MaintainTypeOK'
    <2>1. /\ holder' \in Maintainers \cup {NoOne} /\ ttl' \in 0 .. TTL
          /\ slack' \in [Maintainers -> 0 .. Slack]
      BY Durations DEF LockInv, MaintainTypeOK, ReachesEtcd, store
    <2> QED BY <1>0, <2>1 DEF LockInv, MaintainTypeOK, ReachesEtcd, locals, client
  <1>2. Sayings'
    BY DEF LockInv, MaintainTypeOK, Sayings, GoneHoldsNothing, RemovingGaveUp, ToldByOwner, SentByOwner,
         OwnerCreated, TimerHasFired, BeingTold, ReachesEtcd, locals, client
  <1>3. timer[m] <= 0 /\ timer[m] \in Int
    BY Durations DEF LockInv, MaintainTypeOK, TimerHasFired, ReachesEtcd
  <1>4. ASSUME NEW n \in Maintainers, n # m
        PROVE  Own(n)' = Own(n)
    BY <1>4 DEF LockInv, MaintainTypeOK, Own, ReachesEtcd, locals, client
  <1>5. CASE Applicable(m)
    <2>1. ASSUME NEW n \in Maintainers, n # m, owned[n] \/ answer[n] = "ok" PROVE ~(slack[n] > 0)
      BY <1>5, <2>1, MaintainNodeAssumption DEF LockInv, OwnerHasTime, AppliedHasTime, Applicable
    <2>2. holder' = m /\ ttl' = TTL /\ slack'[m] = Slack /\ timer'[m] = timer[m] /\ pc'[m] = "answer"
      BY <1>5 DEF LockInv, MaintainTypeOK, ReachesEtcd
    <2> QED BY <1>1, <1>2, <1>3, <1>4, <2>1, <2>2, Durations
            DEF LockInv, Sayings, OwnerHasTime, AppliedHasTime, Own
  <1>6. CASE ~Applicable(m)
    <2>1. UNCHANGED <<holder, ttl, slack, timer, owned>> /\ answer'[m] # "ok" /\ pc'[m] = "answer"
      BY <1>6 DEF LockInv, MaintainTypeOK, ReachesEtcd, Refusal, store, locals
    <2> QED BY <1>1, <1>2, <1>4, <2>1 DEF LockInv, Sayings, OwnerHasTime, AppliedHasTime, Own
  <1> QED BY <1>5, <1>6

\* An answer that is lost leaves the node as it is.
LEMMA LostStep ==
    ASSUME LockInv, NEW m \in Maintainers, SentAgain(m) \/ GivenUp(m)
    PROVE  LockInv'
  <1>0. failures' \in 0 .. MaxFailures
    BY MaintainNodeAssumption DEF LockInv, MaintainTypeOK, SentAgain, GivenUp, Failure
  <1>1. MaintainTypeOK'
    BY <1>0 DEF LockInv, MaintainTypeOK, SentAgain, GivenUp, EtcdAnswers, store, locals, client
  <1> QED BY <1>1 DEF LockInv, MaintainTypeOK, GoneHoldsNothing, RemovingGaveUp, ToldByOwner, SentByOwner,
            OwnerCreated, TimerHasFired, OwnerHasTime, AppliedHasTime, BeingTold, SentAgain, GivenUp,
            store, locals, client

\* A successful round: what etcd applied makes an owner.
LEMMA SucceedsStep ==
    ASSUME LockInv, NEW m \in Maintainers, Renewed(m) \/ Created(m)
    PROVE  LockInv'
  <1>1. /\ answer[m] = "ok" /\ pc[m] = "answer"
        /\ answer' = [answer EXCEPT ![m] = "none"] /\ owned' = [owned EXCEPT ![m] = TRUE]
        /\ timer' = [timer EXCEPT ![m] = maintenanceInterval]
        /\ created' \in [Maintainers -> BOOLEAN] /\ created'[m]
        /\ \A n \in Maintainers \ {m} : created'[n] = created[n]
        /\ UNCHANGED <<holder, ttl, told, removing, starts, failures, slack>>
    BY DEF LockInv, MaintainTypeOK, Renewed, Created, GoesOn, store, client
  <1>a. frequencyCycle' \in [Maintainers -> 0 .. frequency - 1]
    BY DEF LockInv, MaintainTypeOK, Renewed, Created, frequency
  <1>b. PICK s \in BOOLEAN : /\ pc' = [pc EXCEPT ![m] = IF s THEN "send" ELSE "select"]
                             /\ sending' = [sending EXCEPT ![m] = s]
    <2>1. CASE Renewed(m)
      BY <2>1 DEF Renewed, GoesOn
    <2>2. CASE Created(m)
      BY <2>2 DEF Created, GoesOn
    <2> QED BY <2>1, <2>2
  <1>2. MaintainTypeOK'
    <2>1. maintenanceInterval \in -MaxDelay .. maintenanceInterval
      BY Durations
    <2> QED BY <1>1, <1>a, <1>b, <2>1 DEF LockInv, MaintainTypeOK, EtcdAnswers
  <1>3. Sayings'
    BY <1>1, <1>b DEF LockInv, MaintainTypeOK, Sayings, GoneHoldsNothing, RemovingGaveUp, ToldByOwner, SentByOwner,
         OwnerCreated, TimerHasFired, BeingTold
  <1>4. OwnerHasTime' /\ AppliedHasTime'
    BY <1>1, <1>b, Durations DEF LockInv, MaintainTypeOK, OwnerHasTime, AppliedHasTime
  <1> QED BY <1>2, <1>3, <1>4 DEF LockInv, Sayings

\* A round that fails: nobody owns the node, and an owner is told so.
LEMMA FailsStep ==
    ASSUME LockInv, NEW m \in Maintainers, RenewFails(m) \/ Vanished(m)
    PROVE  LockInv'
  <1>1. PICK t \in -MaxDelay .. maintenanceInterval :
            /\ timer' = [timer EXCEPT ![m] = t]
            /\ t = timer[m] \/ (~owned[m] /\ RenewFails(m))
    <2>1. CASE timer' = timer
      BY <2>1 DEF LockInv, MaintainTypeOK
    <2>2. CASE timer' # timer
      BY <2>2, Durations DEF RenewFails, Vanished
    <2> QED BY <2>1, <2>2
  <1>2. /\ pc[m] = "answer"
        /\ answer' = [answer EXCEPT ![m] = "none"] /\ owned' = [owned EXCEPT ![m] = FALSE]
        /\ created' \in [Maintainers -> BOOLEAN]
        /\ \A n \in Maintainers \ {m} : created'[n] = created[n]
        /\ frequencyCycle' = [frequencyCycle EXCEPT ![m] = 0]
        /\ sending' = [sending EXCEPT ![m] = FALSE]
        /\ \/ owned[m] /\ pc' = [pc EXCEPT ![m] = "send"]
           \/ ~owned[m] /\ RenewFails(m) /\ pc' = [pc EXCEPT ![m] = "select"]
           \/ ~owned[m] /\ t = timer[m] /\ pc' = [pc EXCEPT ![m] = "request"]
        /\ slack' = [slack EXCEPT ![m] = Slack]
        /\ UNCHANGED <<holder, ttl, told, removing, starts, failures>>
    BY <1>1 DEF LockInv, MaintainTypeOK, RenewFails, Vanished, GoesOn, store, client
  <1>3. MaintainTypeOK'
    BY <1>1, <1>2, Durations, FirstCycle DEF LockInv, MaintainTypeOK, EtcdAnswers
  <1>4. /\ pc'[m] # "off" /\ owned'[m] = FALSE /\ sending'[m] = FALSE /\ timer'[m] = t
        /\ owned[m] => pc'[m] = "send"
        /\ pc'[m] # "select" => t = timer[m]
        /\ \A n \in Maintainers \ {m} : /\ pc'[n] = pc[n] /\ owned'[n] = owned[n]
                                        /\ sending'[n] = sending[n] /\ timer'[n] = timer[n]
    BY <1>1, <1>2 DEF LockInv, MaintainTypeOK
  <1>5. GoneHoldsNothing' /\ RemovingGaveUp' /\ ToldByOwner' /\ SentByOwner' /\ OwnerCreated'
    <2>1. GoneHoldsNothing' /\ RemovingGaveUp'
      BY <1>2, <1>4 DEF LockInv, MaintainTypeOK, GoneHoldsNothing, RemovingGaveUp
    <2>2. ToldByOwner'
      BY <1>2, <1>4 DEF LockInv, MaintainTypeOK, ToldByOwner, BeingTold
    <2>3. SentByOwner'
      <3> SUFFICES ASSUME NEW n \in Maintainers, pc'[n] = "send"
                   PROVE  sending'[n] = owned'[n]
        BY DEF SentByOwner
      <3>1. CASE n = m
        BY <1>4, <3>1, Zenon
      <3>2. CASE n # m
        BY <1>4, <3>2 DEF LockInv, SentByOwner
      <3> QED BY <3>1, <3>2
    <2>4. OwnerCreated'
      BY <1>2, <1>4 DEF LockInv, MaintainTypeOK, OwnerCreated
    <2> QED BY <2>1, <2>2, <2>3, <2>4
  <1>6. TimerHasFired'
    BY <1>2, <1>4 DEF LockInv, TimerHasFired, BeingTold
  <1>7. OwnerHasTime' /\ AppliedHasTime'
    BY <1>1, <1>2 DEF LockInv, MaintainTypeOK, OwnerHasTime, AppliedHasTime
  <1> QED BY <1>3, <1>5, <1>6, <1>7 DEF LockInv

\* A Create that is refused: the maintainer owns nothing, before and after.
LEMMA RefusedStep ==
    ASSUME LockInv, NEW m \in Maintainers, KeyExists(m) \/ CreateFails(m)
    PROVE  LockInv'
  <1>1. PICK t \in -MaxDelay .. maintenanceInterval :
            /\ timer' = [timer EXCEPT ![m] = t]
            /\ t = timer[m] \/ CreateFails(m)
    BY Durations DEF KeyExists, CreateFails, LockInv, MaintainTypeOK
  <1>2. /\ pc[m] = "answer" /\ ~owned[m]
        /\ answer' = [answer EXCEPT ![m] = "none"]
        /\ created' \in [Maintainers -> BOOLEAN]
        /\ \A n \in Maintainers \ {m} : created'[n] = created[n]
        /\ frequencyCycle' = [frequencyCycle EXCEPT ![m] = 0]
        /\ \/ CreateFails(m) /\ pc' = [pc EXCEPT ![m] = "select"]
           \/ t = timer[m] /\ pc' = [pc EXCEPT ![m] = "request"]
        /\ UNCHANGED <<holder, ttl, owned, sending, slack, told, removing, starts, failures>>
    BY <1>1 DEF LockInv, MaintainTypeOK, OwnerCreated, KeyExists, CreateFails,
                GoesOn, store, client
  <1>3. MaintainTypeOK'
    BY <1>1, <1>2, FirstCycle DEF LockInv, MaintainTypeOK, EtcdAnswers
  <1>4. Sayings'
    BY <1>1, <1>2 DEF LockInv, MaintainTypeOK, Sayings, GoneHoldsNothing, RemovingGaveUp, ToldByOwner, SentByOwner,
         OwnerCreated, TimerHasFired, BeingTold
  <1>5. OwnerHasTime' /\ AppliedHasTime'
    BY <1>1, <1>2 DEF LockInv, MaintainTypeOK, OwnerHasTime, AppliedHasTime
  <1> QED BY <1>3, <1>4, <1>5 DEF LockInv, Sayings

-----------------------------------------------------------------------------
\* A tick takes a tick of the owner's interval or of its slack, and of its node.
LEMMA TickStep ==
    ASSUME LockInv, Tick
    PROVE  LockInv'
  <1>1. \A m \in Maintainers : timer[m] \in -MaxDelay .. maintenanceInterval /\ slack[m] \in 0 .. Slack
    BY DEF LockInv, MaintainTypeOK
  <1>2. ttl \in 0 .. TTL
    BY DEF LockInv, MaintainTypeOK
  <1>3. timer' \in [Maintainers -> -MaxDelay .. maintenanceInterval]
    <2> SUFFICES ASSUME NEW m \in Maintainers
                 PROVE  (IF pc[m] = "off" \/ timer[m] = -MaxDelay THEN timer[m] ELSE timer[m] - 1)
                           \in -MaxDelay .. maintenanceInterval
      BY DEF Tick
    <2> QED BY <1>1, Durations
  <1>4. slack' \in [Maintainers -> 0 .. Slack]
    <2> SUFFICES ASSUME NEW m \in Maintainers
                 PROVE  (IF Due(m) /\ slack[m] > 0 THEN slack[m] - 1 ELSE slack[m]) \in 0 .. Slack
      BY DEF Tick
    <2> QED BY <1>1, Durations
  <1>5. ttl' \in 0 .. TTL /\ holder' \in Maintainers \cup {NoOne} /\ failures' \in 0 .. MaxFailures
    BY <1>2, Durations, MaintainNodeAssumption DEF LockInv, MaintainTypeOK, Tick, Failure
  <1>6. MaintainTypeOK'
    BY <1>3, <1>4, <1>5 DEF LockInv, MaintainTypeOK, Tick, locals, client
  <1>7. \A m \in Maintainers :
          /\ timer'[m] = IF pc[m] = "off" \/ timer[m] = -MaxDelay THEN timer[m] ELSE timer[m] - 1
          /\ slack'[m] = IF Due(m) /\ slack[m] > 0 THEN slack[m] - 1 ELSE slack[m]
          /\ timer'[m] \in Int /\ timer[m] \in Int /\ slack[m] \in Nat
    BY <1>1, <1>3, Durations DEF Tick
  <1>8. Sayings'
    <2>1. GoneHoldsNothing' /\ RemovingGaveUp' /\ ToldByOwner' /\ SentByOwner' /\ OwnerCreated'
      BY DEF LockInv, GoneHoldsNothing, RemovingGaveUp, ToldByOwner, SentByOwner, OwnerCreated,
             BeingTold, Tick, locals, client
    <2>2. TimerHasFired'
      BY <1>7 DEF LockInv, TimerHasFired, BeingTold, Tick
    <2> QED BY <2>1, <2>2 DEF Sayings
  <1>9. ASSUME NEW m \in Maintainers, owned[m], slack'[m] > 0
        PROVE  holder' = m /\ ttl' >= slack'[m] /\ ttl' >= slack'[m] + timer'[m]
    <2>1. slack[m] > 0 /\ pc[m] # "off"
      BY <1>7, <1>9 DEF LockInv, GoneHoldsNothing
    <2>2. holder = m /\ ttl >= slack[m] /\ ttl >= slack[m] + timer[m]
      BY <1>9, <2>1 DEF LockInv, OwnerHasTime
    <2>3. ttl > 1
      BY <1>2, <1>7, <1>9, <2>1, <2>2 DEF Due
    <2>4. holder' = m /\ ttl' = ttl - 1
      BY <1>2, <2>2, <2>3 DEF Tick
    <2> QED BY <1>2, <1>7, <2>1, <2>2, <2>4, Durations DEF Due
  <1>10. ASSUME NEW m \in Maintainers, answer[m] = "ok", slack'[m] > 0
         PROVE  holder' = m /\ ttl' >= slack'[m] + maintenanceInterval
    <2>1. slack[m] > 0 /\ pc[m] = "answer" /\ timer[m] <= 0
      BY <1>7, <1>10 DEF LockInv, AppliedHasTime, TimerHasFired
    <2>2. holder = m /\ ttl >= slack[m] + maintenanceInterval
      BY <1>10, <2>1 DEF LockInv, AppliedHasTime
    <2>3. slack'[m] = slack[m] - 1
      BY <1>7, <2>1 DEF Due
    <2>4. holder' = m /\ ttl' = ttl - 1
      BY <1>2, <1>7, <2>1, <2>2, Durations DEF Tick
    <2> QED BY <1>2, <1>7, <2>2, <2>3, <2>4, Durations
  <1>11. OwnerHasTime' /\ AppliedHasTime'
    BY <1>9, <1>10 DEF LockInv, OwnerHasTime, AppliedHasTime, Tick, locals
  <1> QED BY <1>6, <1>8, <1>11 DEF LockInv, Sayings

LEMMA ResetStep ==
    ASSUME LockInv, Reset
    PROVE  LockInv'
  <1>1. MaintainTypeOK'
    BY Durations, MaintainNodeAssumption DEF LockInv, MaintainTypeOK, Reset, Failure, locals, client
  <1>2. Sayings'
    BY DEF LockInv, Sayings, GoneHoldsNothing, RemovingGaveUp, ToldByOwner, SentByOwner,
           OwnerCreated, TimerHasFired, BeingTold, Reset, locals, client
  <1>3. OwnerHasTime' /\ AppliedHasTime'
    BY DEF LockInv, OwnerHasTime, AppliedHasTime, Reset, locals
  <1> QED BY <1>1, <1>2, <1>3 DEF LockInv, Sayings

LEMMA LockInvStep == LockInv /\ [MaintainNext]_maintainVars => LockInv'
  <1> SUFFICES ASSUME LockInv, [MaintainNext]_maintainVars PROVE LockInv'
    OBVIOUS
  <1>1. ASSUME NEW m \in Maintainers,
               \/ Maintain(m) \/ Remove(m) \/ Receive(m) \/ maintainNode(m)
               \/ SentAgain(m) \/ GivenUp(m) \/ Die(m)
        PROVE  LockInv'
    BY <1>1, MaintainStep, RemoveStep, ReceiveStep, DieStep, TimerFiresStep, ReleaseStep,
       ReachesEtcdStep, LostStep, SucceedsStep, FailsStep, RefusedStep DEF maintainNode
  <1>2. CASE Tick
    BY <1>2, TickStep
  <1>3. CASE Reset
    BY <1>3, ResetStep
  <1>4. CASE UNCHANGED maintainVars
    BY <1>4 DEF maintainVars, LockInv, MaintainTypeOK, GoneHoldsNothing, RemovingGaveUp, ToldByOwner,
                SentByOwner, OwnerCreated, TimerHasFired, OwnerHasTime, AppliedHasTime, BeingTold
  <1> QED BY <1>1, <1>2, <1>3, <1>4 DEF MaintainNext

LEMMA SpecLockInv == MaintainSpec => []LockInv
  BY LockInitially, LockInvStep, PTL DEF MaintainSpec

-----------------------------------------------------------------------------
\* Whoever was told that it holds the node does hold it, unless it is being told
\* otherwise, or it was late by the slack that the interval leaves of the TTL, or
\* the store was reset: for any number of maintainers, any TTL, and however late
\* requests, answers and readers are.
THEOREM LockHeld == MaintainSpec => []ToldMeansHeld
  <1>1. LockInv => ToldMeansHeld
    BY DEF LockInv, MaintainTypeOK, ToldByOwner, OwnerHasTime, ToldMeansHeld
  <1> QED BY SpecLockInv, <1>1, PTL

\* Both are told that they hold the node, and neither is being told otherwise.
Both(m, n) == told[m] /\ told[n] /\ ~BeingTold(m) /\ ~BeingTold(n)

Exclusive == \A m, n \in Maintainers : Both(m, n) /\ slack[m] > 0 /\ slack[n] > 0 => m = n

\* maintainNode and its status channel: of two clients of a lock that both were
\* told last that they hold it, one has used up its slack (or the store was
\* reset), or is about to be told otherwise.
THEOREM LockExclusive == MaintainSpec => []Exclusive
  <1>1. ToldMeansHeld => Exclusive
    BY DEF ToldMeansHeld, Exclusive, Both, MaintainTypeOK
  <1> QED BY LockHeld, <1>1, PTL
=============================================================================
