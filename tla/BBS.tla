-------------------------------- MODULE BBS --------------------------------
(***************************************************************************)
(* The bulletin board as app-manager and its peers use it: the nodes that  *)
(* runtime-schema keeps in etcd for desired LRPs, actual LRPs, start and   *)
(* stop auctions and requests to stop one instance.  A node is a record;   *)
(* JSON values are abstracted to the fields that decisions depend on.      *)
(*                                                                         *)
(* A request ends in one of the Outcomes below.  The store adapter turns   *)
(* "etcd not reachable" (501) into ErrorTimeout, after which nobody knows  *)
(* whether the write was applied, and RetryIndefinitelyOnStoreTimeout      *)
(* sends the same write again.                                             *)
(***************************************************************************)
EXTENDS Integers

CONSTANTS
    Processes,     \* process guids
    Guids,         \* instance guids
    MaxInstances,  \* the largest number of instances that is desired
    Leftovers      \* the actual LRPs there may be when app-manager starts

ASSUME MaxInstancesAssumption == MaxInstances \in Nat

VARIABLES
    desired,       \* the node of each process under DesiredLRPSchemaRoot
    modifiedIndex, \* etcd's index of the last write to a desired LRP
    actual,        \* nodes under ActualLRPSchemaRoot
    startAuctions, \* nodes under LRPStartAuctionSchemaRoot
    stopAuctions,  \* nodes under LRPStopAuctionSchemaRoot
    stopInstances  \* nodes under StopLRPInstanceSchemaRoot

bbsVars == <<desired, modifiedIndex, actual, startAuctions, stopAuctions, stopInstances>>

Counts  == 0 .. MaxInstances
Indices == 0 .. MaxInstances - 1

\* A desired LRP: absent has no instances.  index is the node's ModifiedIndex,
\* kept after a removal as that of the removal.
DesiredLRP == [present : BOOLEAN, instances : Counts, index : Nat]
ActualLRP == [process : Processes, index : Indices, instance : Guids]
\* The auction carries the desired LRP it was made from: of is its index.
LRPStartAuction ==
    [process : Processes, index : Indices, instance : Guids, of : Nat]
LRPStopAuction == [process : Processes, index : Indices]

\* An instance guid is drawn for one index of one process.
ASSUME LeftoversAssumption ==
    /\ Leftovers \subseteq SUBSET ActualLRP
    /\ \A S \in Leftovers : \A a, b \in S : a.instance = b.instance => a = b

BBSTypeOK ==
    /\ desired \in [Processes -> DesiredLRP]
    /\ modifiedIndex \in Nat
    /\ actual \subseteq ActualLRP
    /\ startAuctions \subseteq LRPStartAuction
    /\ stopAuctions \subseteq LRPStopAuction
    /\ stopInstances \subseteq ActualLRP

BBSInit ==
    /\ desired = [p \in Processes |-> [present |-> FALSE, instances |-> 0, index |-> 0]]
    /\ modifiedIndex = 0
    /\ actual \in Leftovers
    /\ startAuctions = {}
    /\ stopAuctions = {}
    /\ stopInstances = {}

-----------------------------------------------------------------------------
(***************************************************************************)
(* The outcome of a request, as the caller of the store adapter sees it.   *)
(*   "ok"       applied and acknowledged                                   *)
(*   "exists"   Create of a key that is there: ErrorKeyExists              *)
(*   "timeout"  not applied, ErrorTimeout                                  *)
(*   "late"     applied, but the answer is lost: ErrorTimeout              *)
(*   "error"    not applied, any other error                               *)
(***************************************************************************)
Outcomes == {"ok", "exists", "timeout", "late", "error"}

Applied(o) == o \in {"ok", "late"}

\* convertError: which errors RetryIndefinitelyOnStoreTimeout retries.
IsTimeout(o) == o \in {"timeout", "late"}

\* client.Create: taken says that a node with the key exists.
Create(taken) == IF taken THEN {"exists", "timeout", "error"}
                          ELSE {"ok", "late", "timeout", "error"}

\* client.Set, through SetMulti of a single node.
SetMulti == {"ok", "late", "timeout", "error"}

\* LRPStartAuctionSchemaPath: the key is the process and the index.
SameStartKey(a, b) == a.process = b.process /\ a.index = b.index

-----------------------------------------------------------------------------
(* Requests of app-manager, one attempt each.                              *)

RequestLRPStartAuction(a, o) ==
    /\ o \in Create(\E b \in startAuctions : SameStartKey(a, b))
    /\ startAuctions' = IF Applied(o) THEN startAuctions \cup {a} ELSE startAuctions
    /\ UNCHANGED <<desired, modifiedIndex, actual, stopAuctions, stopInstances>>

RequestStopLRPInstance(a, o) ==
    /\ o \in SetMulti
    /\ stopInstances' = IF Applied(o) THEN stopInstances \cup {a} ELSE stopInstances
    /\ UNCHANGED <<desired, modifiedIndex, actual, startAuctions, stopAuctions>>

RequestLRPStopAuction(a, o) ==
    /\ o \in Create(a \in stopAuctions)
    /\ stopAuctions' = IF Applied(o) THEN stopAuctions \cup {a} ELSE stopAuctions
    /\ UNCHANGED <<desired, modifiedIndex, actual, startAuctions, stopInstances>>

\* GetActualLRPsByProcessGuid: a missing directory is an empty list.
GetActualLRPsByProcessGuid(p) == {a \in actual : a.process = p}

-----------------------------------------------------------------------------
(* Writes of desired LRPs, by the clients of the system and the converger. *)

WriteDesired(p, present, n) ==
    /\ modifiedIndex' = modifiedIndex + 1
    /\ desired' = [desired EXCEPT ![p] =
            [present |-> present, instances |-> n, index |-> modifiedIndex + 1]]
    /\ UNCHANGED <<actual, startAuctions, stopAuctions, stopInstances>>

\* DesireLRP sets the node whether or not it exists.
DesireLRP(p, n) == WriteDesired(p, TRUE, n)

\* A missing node is no error, and no event.
RemoveDesiredLRPByProcessGuid(p) ==
    /\ desired[p].present
    /\ WriteDesired(p, FALSE, 0)

\* ChangeDesiredLRP with Before only: CompareAndDelete.  Its other branches,
\* CompareAndSwap and Create, write the node and are announced as DesireLRP.
ChangeDesiredLRP(p) ==
    /\ desired[p].present
    /\ WriteDesired(p, FALSE, 0)

-----------------------------------------------------------------------------
(* Writes of the auctioneers and the cells.                                *)

\* The cell that wins an auction reports the instance: as starting, and later
\* as running, which sets the same node again.
ReportActualLRPAsStarting(a) ==
    /\ a \in startAuctions
    /\ actual' = actual \cup {[process |-> a.process, index |-> a.index,
                               instance |-> a.instance]}
    /\ UNCHANGED <<desired, modifiedIndex, startAuctions, stopAuctions, stopInstances>>

\* The auctioneer deletes the auction, won or failed.
ResolveLRPStartAuction(a) ==
    /\ a \in startAuctions
    /\ startAuctions' = startAuctions \ {a}
    /\ UNCHANGED <<desired, modifiedIndex, actual, stopAuctions, stopInstances>>

\* An instance ends: its cell stopped it, or it crashed.
RemoveActualLRP(a) ==
    /\ a \in actual
    /\ actual' = actual \ {a}
    /\ UNCHANGED <<desired, modifiedIndex, startAuctions, stopAuctions, stopInstances>>

\* The cell resolves a stop request, or its TTL of 60 seconds expires.
ResolveStopLRPInstance(a) ==
    /\ a \in stopInstances
    /\ stopInstances' = stopInstances \ {a}
    /\ UNCHANGED <<desired, modifiedIndex, actual, startAuctions, stopAuctions>>

\* A stop auction: all instances at the index but keep are stopped.
ResolveLRPStopAuction(s, keep) ==
    /\ s \in stopAuctions
    /\ stopAuctions' = stopAuctions \ {s}
    /\ actual' = {a \in actual : a.process = s.process /\ a.index = s.index => a = keep}
    /\ UNCHANGED <<desired, modifiedIndex, startAuctions, stopInstances>>
=============================================================================
