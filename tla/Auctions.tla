------------------------------ MODULE Auctions ------------------------------
(***************************************************************************)
(* An auction on the bulletin board, under the key of one process and      *)
(* index: requested, claimed by an auctioneer, resolved, and looked after  *)
(* by the converger.  Written from start_auction_bbs; stop_auction_bbs is  *)
(* line by line the same protocol: what differs is the key, the JSON and   *)
(* that a stop auction has no guid of its own.                             *)
(*                                                                         *)
(* Auctions have numbers: two of them differ in InstanceGuid or UpdatedAt, *)
(* so their JSON does.  A claim compares the value, a kick the index, and  *)
(* a deletion nothing.                                                     *)
(***************************************************************************)
EXTENDS Naturals, FiniteSets, Models

CONSTANTS
    Auctioneers,
    KickPendingDuration, ExpireClaimedDuration, \* in ticks
    MaxAuctions,  \* bounds: requests,
    MaxFaults     \*         lost answers, lost watches and errors

ASSUME AuctionsAssumption ==
    /\ KickPendingDuration \in Nat /\ ExpireClaimedDuration \in Nat
    /\ MaxAuctions \in Nat /\ MaxFaults \in Nat

VARIABLES
    kind,     \* a start or a stop auction
    node,     \* the node of the key
    last,     \* the number of the last auction requested
    offered,  \* per auctioneer, the pending auctions its watch announced
    call,     \* per auctioneer, the request it is retrying
    holds,    \* per auctioneer, the auction it was told it claimed, or 0
    conv,     \* the converger's pass: what it listed
    claims,   \* history: how often each auction was claimed
    faults

vars == <<kind, node, last, offered, call, holds, conv, claims, faults>>

Numbers == 1 .. MaxAuctions
Older(d) == 0 .. d + 1    \* ticks since UpdatedAt, up to "more than d"
Node == [state : {"absent", "invalid", "pending", "claimed"}, id : 0 .. MaxAuctions,
         age : Older(KickPendingDuration) \cup Older(ExpireClaimedDuration)]
Absent == [state |-> "absent", id |-> 0, age |-> 0]
NoCall == [op |-> "none", id |-> 0]
NoPass == [pc |-> "idle", listed |-> Absent, fresh |-> FALSE]

TypeOK ==
    /\ kind \in {"start", "stop"}
    /\ node \in Node /\ last \in 0 .. MaxAuctions
    /\ offered \in [Auctioneers -> SUBSET Numbers]
    /\ call \in [Auctioneers -> [op : {"none", "claim", "resolve", "resolveAgain"}, id : 0 .. MaxAuctions]]
    /\ holds \in [Auctioneers -> 0 .. MaxAuctions]
    /\ conv \in [pc : {"idle", "listed", "delete", "swap"}, listed : Node, fresh : BOOLEAN]
    /\ claims \in [Numbers -> Nat] /\ faults \in 0 .. MaxFaults

Init ==
    /\ kind \in {"start", "stop"}
    /\ node = Absent /\ last = 0 /\ faults = 0
    /\ offered = [a \in Auctioneers |-> {}]
    /\ call = [a \in Auctioneers |-> NoCall]
    /\ holds = [a \in Auctioneers |-> 0]
    /\ conv = NoPass
    /\ claims = [n \in Numbers |-> 0]

Fault == faults < MaxFaults /\ faults' = faults + 1

\* A write of the node: what the converger listed is no longer fresh.
Put(new) == node' = new /\ conv' = [conv EXCEPT !.fresh = FALSE]

\* The filter of WatchForLRPStartAuction passes pending auctions on, created
\* or written again, to every auctioneer.
Announce(id) == offered' = [a \in Auctioneers |-> offered[a] \cup {id}]

-----------------------------------------------------------------------------
\* What can be requested: an auction without its guid parses nowhere.
StartRequests == {IF NewLRPStartAuctionFromJSON(ToJSON(set)) THEN "pending" ELSE "invalid" :
                     set \in SUBSET LRPStartAuctionFields}
StopRequests == {IF NewLRPStopAuctionFromJSON(ToJSON(set)) THEN "pending" ELSE "invalid" :
                    set \in SUBSET LRPStopAuctionFields}

\* Create; a key that exists is an error.
RequestLRPStartAuction(state) ==
    /\ last < MaxAuctions /\ node = Absent
    /\ last' = last + 1
    /\ Put([state |-> state, id |-> last + 1, age |-> 0])
    /\ IF state = "pending" THEN Announce(last + 1) ELSE UNCHANGED offered
    /\ UNCHANGED <<call, holds, claims, faults>>

\* An event is lost with its watch.
LoseEvent(a, id) ==
    /\ Fault /\ id \in offered[a]
    /\ offered' = [offered EXCEPT ![a] = @ \ {id}]
    /\ UNCHANGED <<node, last, call, holds, conv, claims>>

\* The auctioneer takes an announced auction and claims it.
TakeEvent(a, id) ==
    /\ call[a] = NoCall /\ holds[a] = 0 /\ id \in offered[a]
    /\ offered' = [offered EXCEPT ![a] = @ \ {id}]
    /\ call' = [call EXCEPT ![a] = [op |-> "claim", id |-> id]]
    /\ UNCHANGED <<node, last, holds, conv, claims, faults>>

\* Mutant of Matches: the claim compares the key only.
MatchesKey(a) == node.state # "absent"

\* CompareAndSwap: the value is the pending auction that was announced.
Matches(a) == node.state = "pending" /\ node.id = call[a].id

\* The claim is applied; its answer arrives, or is lost and the claim retried.
ClaimLRPStartAuction(a) ==
    /\ call[a].op = "claim" /\ Matches(a)
    /\ Put([node EXCEPT !.state = "claimed", !.id = call[a].id, !.age = 0])
    /\ claims' = [claims EXCEPT ![call[a].id] = @ + 1]
    /\ \/ /\ holds' = [holds EXCEPT ![a] = call[a].id]
          /\ call' = [call EXCEPT ![a] = NoCall] /\ faults' = faults
       \/ Fault /\ UNCHANGED <<holds, call>>
    /\ UNCHANGED <<last, offered>>

ClaimFails(a) ==
    /\ call[a].op = "claim" /\ ~Matches(a)
    /\ call' = [call EXCEPT ![a] = NoCall]
    /\ UNCHANGED <<node, last, offered, holds, conv, claims, faults>>

\* The auction is over, won or not: the auctioneer resolves it.
AuctionOver(a) ==
    /\ call[a] = NoCall /\ holds[a] # 0
    /\ call' = [call EXCEPT ![a] = [op |-> "resolve", id |-> holds[a]]]
    /\ UNCHANGED <<node, last, offered, holds, conv, claims, faults>>

\* Delete of the key, whoever's auction is there; sent again if the answer
\* is lost.
ResolveLRPStartAuction(a) ==
    /\ call[a].op \in {"resolve", "resolveAgain"}
    /\ IF node = Absent THEN UNCHANGED <<node, conv>> ELSE Put(Absent)
    /\ \/ /\ call' = [call EXCEPT ![a] = NoCall] /\ faults' = faults
          /\ holds' = [holds EXCEPT ![a] = 0]
       \/ Fault /\ call' = [call EXCEPT ![a].op = "resolveAgain"] /\ UNCHANGED holds
    /\ UNCHANGED <<last, offered, claims>>

\* The auctioneer dies; its watch starts anew.
AuctioneerDies(a) ==
    /\ Fault
    /\ call' = [call EXCEPT ![a] = NoCall] /\ holds' = [holds EXCEPT ![a] = 0]
    /\ offered' = [offered EXCEPT ![a] = {}]
    /\ UNCHANGED <<node, last, conv, claims>>

-----------------------------------------------------------------------------
(* ConvergeLRPStartAuctions.                                               *)

ConvergeList ==
    /\ conv.pc = "idle" /\ node # Absent
    /\ conv' = [pc |-> "listed", listed |-> node, fresh |-> TRUE]
    /\ UNCHANGED <<node, last, offered, call, holds, claims, faults>>

\* Mutants: claims never expire; pending auctions expire too.
keysToDeleteInvalid(n) == n.state = "invalid"
keysToDeletePending(n) ==
    n.state = "invalid" \/ (n.state # "absent" /\ n.age > ExpireClaimedDuration)

keysToDelete(n) ==
    n.state = "invalid" \/ (n.state = "claimed" /\ n.age > ExpireClaimedDuration)

auctionsToCAS(n) == n.state = "pending" /\ n.age > KickPendingDuration

ConvergeDecide ==
    /\ conv.pc = "listed"
    /\ conv' = IF keysToDelete(conv.listed) THEN [conv EXCEPT !.pc = "delete"]
               ELSE IF auctionsToCAS(conv.listed) THEN [conv EXCEPT !.pc = "swap"]
               ELSE NoPass
    /\ UNCHANGED <<node, last, offered, call, holds, claims, faults>>

\* Delete by key, one attempt.
ConvergeDelete ==
    /\ conv.pc = "delete" /\ conv' = NoPass
    /\ \/ node' = Absent /\ faults' = faults
       \/ Fault /\ UNCHANGED node
    /\ UNCHANGED <<last, offered, call, holds, claims>>

\* Mutant of batchCompareAndSwap: the index is not compared.
KickAnyway ==
    /\ conv.pc = "swap" /\ conv' = NoPass
    /\ node' = [conv.listed EXCEPT !.age = node.age] /\ Announce(conv.listed.id)
    /\ UNCHANGED <<last, call, holds, claims, faults>>

\* The same value is written again, UpdatedAt included, which announces it.
batchCompareAndSwap ==
    /\ conv.pc = "swap" /\ conv' = NoPass
    /\ \/ conv.fresh /\ Announce(node.id) /\ faults' = faults
       \/ ~conv.fresh /\ UNCHANGED <<offered, faults>>
       \/ Fault /\ UNCHANGED offered
    /\ UNCHANGED <<node, last, call, holds, claims>>

\* The time since UpdatedAt grows.
Tick ==
    /\ node # Absent
    /\ \E d \in {KickPendingDuration, ExpireClaimedDuration} : node.age < d + 1
    /\ node' = [node EXCEPT !.age = @ + 1]
    /\ conv' = [conv EXCEPT !.listed.age = IF conv.fresh THEN @ + 1 ELSE @]
    /\ UNCHANGED <<last, offered, call, holds, claims, faults>>

ConvergeLRPStartAuctions ==
    kind = "start" /\ (ConvergeList \/ ConvergeDecide \/ ConvergeDelete \/ batchCompareAndSwap)
ConvergeLRPStopAuctions ==
    kind = "stop" /\ (ConvergeList \/ ConvergeDecide \/ ConvergeDelete \/ batchCompareAndSwap)

-----------------------------------------------------------------------------
(* The operations of stop_auction_bbs.                                     *)

RequestLRPStopAuction(state) == kind = "stop" /\ RequestLRPStartAuction(state)
WatchForLRPStopAuction(a, id) == kind = "stop" /\ (LoseEvent(a, id) \/ TakeEvent(a, id))
ClaimLRPStopAuction(a) == kind = "stop" /\ (ClaimLRPStartAuction(a) \/ ClaimFails(a))
ResolveLRPStopAuction(a) == kind = "stop" /\ (AuctionOver(a) \/ ResolveLRPStartAuction(a))

StopAuctions ==
    \/ \E state \in StopRequests : RequestLRPStopAuction(state)
    \/ \E a \in Auctioneers, id \in Numbers : WatchForLRPStopAuction(a, id)
    \/ \E a \in Auctioneers : ClaimLRPStopAuction(a) \/ ResolveLRPStopAuction(a)
    \/ ConvergeLRPStopAuctions

StartAuctions ==
    /\ kind = "start"
    /\ \/ \E state \in StartRequests : RequestLRPStartAuction(state)
       \/ \E a \in Auctioneers, id \in Numbers : LoseEvent(a, id) \/ TakeEvent(a, id)
       \/ \E a \in Auctioneers : \/ ClaimLRPStartAuction(a) \/ ClaimFails(a)
                                 \/ AuctionOver(a) \/ ResolveLRPStartAuction(a)
       \/ ConvergeLRPStartAuctions

Next ==
    /\ UNCHANGED kind
    /\ StartAuctions \/ StopAuctions \/ (\E a \in Auctioneers : AuctioneerDies(a)) \/ Tick

Spec == Init /\ [][Next]_vars

-----------------------------------------------------------------------------
(* The clock advances, the converger runs, auctioneers serve their watch   *)
(* and finish their calls.                                                 *)
Fairness ==
    /\ WF_vars(UNCHANGED kind /\ Tick)
    /\ WF_vars(UNCHANGED kind /\ (ConvergeLRPStartAuctions \/ ConvergeLRPStopAuctions))
    /\ \A a \in Auctioneers :
         /\ WF_vars(UNCHANGED kind /\ \E id \in Numbers : TakeEvent(a, id))
         /\ WF_vars(UNCHANGED kind /\ (ClaimLRPStartAuction(a) \/ ClaimFails(a)))
         /\ WF_vars(UNCHANGED kind /\ (AuctionOver(a) \/ ResolveLRPStartAuction(a)))

FairSpec == Spec /\ Fairness

-----------------------------------------------------------------------------
\* ClaimLRPStartAuction: every auctioneer is offered every auction, again after
\* each kick, and claims and kicks race; in every (well-typed) state an auction
\* was claimed at most once.
ClaimedAtMostOnce ==
    /\ TypeOK
    /\ \A n \in Numbers : claims[n] <= 1
    /\ \A a, b \in Auctioneers : holds[a] = holds[b] /\ holds[a] # 0 => a = b

\* Deletions are by key.  A pending auction, which nobody held, is deleted only
\* by someone who is late: a Resolve of an auction that expired or is sent
\* again, or a converger that listed an earlier auction.
PendingDeletedOnlyByLate ==
    [][node.state = "pending" /\ node' = Absent =>
         \/ \E a \in Auctioneers : /\ call[a].op \in {"resolve", "resolveAgain"}
                                   /\ call[a].id < node.id
         \/ conv.pc = "delete" /\ conv.listed.id < node.id]_vars

\* ConvergeLRPStartAuctions, ConvergeLRPStopAuctions and the Resolve of each:
\* no auction stays on the board, although events and answers are lost and
\* auctioneers die.
AuctionsEnd == \A n \in Numbers : node.id = n ~> node.id # n
=============================================================================
