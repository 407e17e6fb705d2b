--------------------------- MODULE AuctionsProofs ---------------------------
(***************************************************************************)
(* Auctions for any number of auctioneers, requests and faults and any     *)
(* durations: an auction is claimed at most once, and a pending one is     *)
(* deleted only by someone who is late.                                    *)
(*                                                                         *)
(* The argument: the node is the last auction requested or absent; a claim *)
(* finds it pending, when nobody has claimed it; and it is never pending   *)
(* again.                                                                  *)
(***************************************************************************)
EXTENDS Auctions, TLAPS

Ops == {"none", "claim", "resolve", "resolveAgain"}
Call == [op : Ops, id : 0 .. MaxAuctions]
Pass == [pc : {"idle", "listed", "delete", "swap"}, listed : Node, fresh : BOOLEAN]

\* A node that is there is that of the last request.
NodeIsLast ==
    /\ node.state = "absent" => node = Absent
    /\ node.state # "absent" => node.id = last /\ last # 0

FreshIsNode == conv.fresh => conv.listed = node

\* What the converger listed was requested, and if that is the node that is
\* pending now, then it was pending when it was listed.
ListedEarlier ==
    /\ conv.listed.id <= last
    /\ conv.pc # "idle" /\ node.state = "pending" /\ conv.listed.id = node.id
         => conv.listed.state = "pending"
DecidesByState ==
    /\ conv.pc = "delete" => conv.listed.state \in {"claimed", "invalid"}
    /\ conv.pc = "swap" => conv.listed.state = "pending"

Unclaimed ==
    /\ \A n \in Numbers : n > last => claims[n] = 0
    /\ node.state = "pending" => claims[node.id] = 0
ClaimedOnce == \A n \in Numbers : claims[n] <= 1

HeldIsClaimed == \A a \in Auctioneers : holds[a] # 0 => claims[holds[a]] # 0
HeldByOne == \A a, b \in Auctioneers : holds[a] = holds[b] /\ holds[a] # 0 => a = b
ResolvesHeld ==
    \A a \in Auctioneers :
        call[a].op \in {"resolve", "resolveAgain"} => holds[a] # 0 /\ call[a].id = holds[a]

IInv ==
    /\ TypeOK
    /\ NodeIsLast
    /\ FreshIsNode
    /\ ListedEarlier
    /\ DecidesByState
    /\ Unclaimed
    /\ ClaimedOnce
    /\ HeldIsClaimed
    /\ HeldByOne
    /\ ResolvesHeld

-----------------------------------------------------------------------------
LEMMA AbsentType == Absent \in Node /\ Absent.state = "absent" /\ Absent.id = 0
  <1>1. 0 \in 0 .. MaxAuctions /\ 0 \in Older(KickPendingDuration)
    BY AuctionsAssumption DEF Older
  <1> QED BY <1>1 DEF Absent, Node

LEMMA NoCallType == NoCall \in Call /\ NoCall.op = "none"
  BY AuctionsAssumption DEF NoCall, Call, Ops

LEMMA NoPassType ==
    /\ NoPass \in Pass /\ ~NoPass.fresh /\ NoPass.pc = "idle"
    /\ NoPass.listed = Absent
  BY AbsentType DEF NoPass, Pass

\* The type invariant in the form the proofs use.
LEMMA Types ==
    ASSUME TypeOK
    PROVE  /\ node \in Node /\ conv \in Pass /\ conv.listed \in Node
           /\ call \in [Auctioneers -> Call] /\ holds \in [Auctioneers -> 0 .. MaxAuctions]
           /\ last \in 0 .. MaxAuctions
           /\ claims \in [Numbers -> Nat] /\ offered \in [Auctioneers -> SUBSET Numbers]
           /\ node.id \in 0 .. MaxAuctions /\ conv.listed.id \in 0 .. MaxAuctions
  BY DEF TypeOK, Pass, Call, Ops, Node

LEMMA Initially == Init => IInv
  <1> SUFFICES ASSUME Init PROVE IInv
    OBVIOUS
  <1>1. last \in 0 .. MaxAuctions /\ faults \in 0 .. MaxFaults
    BY AuctionsAssumption DEF Init
  <1>2. /\ offered \in [Auctioneers -> SUBSET Numbers]
        /\ holds \in [Auctioneers -> 0 .. MaxAuctions] /\ claims \in [Numbers -> Nat]
    BY AuctionsAssumption DEF Init
  <1>3. call \in [Auctioneers -> Call] /\ conv \in Pass /\ node \in Node
    BY NoCallType, NoPassType, AbsentType DEF Init
  <1>4. TypeOK
    BY <1>1, <1>2, <1>3, Zenon DEF Init, TypeOK, Call, Ops, Pass
  <1>5. NodeIsLast /\ FreshIsNode /\ ListedEarlier /\ DecidesByState
    BY AbsentType, NoPassType DEF Init, NodeIsLast, FreshIsNode, ListedEarlier, DecidesByState
  <1>6. Unclaimed /\ ClaimedOnce
    BY AbsentType DEF Init, Unclaimed, ClaimedOnce
  <1>7. HeldIsClaimed /\ HeldByOne /\ ResolvesHeld
    BY NoCallType DEF Init, HeldIsClaimed, HeldByOne, ResolvesHeld
  <1> QED BY <1>4, <1>5, <1>6, <1>7 DEF IInv

-----------------------------------------------------------------------------
(* Steps that leave the node, and steps that leave the claims.             *)

\* The board and the converger's list stay.
LEMMA BoardKept ==
    ASSUME IInv, UNCHANGED <<node, last, conv, claims>>
    PROVE  NodeIsLast' /\ FreshIsNode' /\ ListedEarlier' /\ DecidesByState' /\ Unclaimed'
           /\ ClaimedOnce'
  BY DEF IInv, NodeIsLast, FreshIsNode, ListedEarlier, DecidesByState, Unclaimed, ClaimedOnce

\* The auctioneers stay.
LEMMA ClaimsKept ==
    ASSUME IInv, UNCHANGED <<call, holds, claims>>
    PROVE  ClaimedOnce' /\ HeldIsClaimed' /\ HeldByOne' /\ ResolvesHeld'
  BY DEF IInv, ClaimedOnce, HeldIsClaimed, HeldByOne, ResolvesHeld

\* The node is put anew: another pass may list it.
LEMMA AfterPut ==
    ASSUME TypeOK, NEW new, Put(new)
    PROVE  /\ node' = new /\ conv' \in Pass /\ ~conv'.fresh
           /\ conv'.pc = conv.pc /\ conv'.listed = conv.listed
  BY Types DEF Put, Pass

LEMMA RequestStep ==
    ASSUME IInv, kind' = kind, NEW state \in {"pending", "invalid"},
           RequestLRPStartAuction(state)
    PROVE  IInv'
  <1> DEFINE new == [state |-> state, id |-> last + 1, age |-> 0]
  <1>1. last \in 0 .. MaxAuctions /\ last + 1 \in Numbers /\ last' = last + 1
        /\ last' \in 0 .. MaxAuctions
    BY Types, AuctionsAssumption DEF IInv, RequestLRPStartAuction, Numbers
  <1>2. new \in Node /\ new.state = state /\ new.id = last + 1
    <2>1. 0 \in Older(KickPendingDuration)
      BY AuctionsAssumption DEF Older
    <2> QED BY <1>1, <2>1 DEF Node
  <1>3. Put(new)
    BY DEF RequestLRPStartAuction
  <1> HIDE DEF new
  <1>4. /\ node' = new /\ conv' \in Pass /\ ~conv'.fresh
        /\ conv'.pc = conv.pc /\ conv'.listed = conv.listed
    BY <1>3, AfterPut DEF IInv
  <1>5. offered' \in [Auctioneers -> SUBSET Numbers]
    BY <1>1, Types DEF IInv, RequestLRPStartAuction, Announce
  <1>6. TypeOK'
    BY <1>1, <1>2, <1>4, <1>5, Zenon DEF IInv, TypeOK, Pass, RequestLRPStartAuction
  <1>7. NodeIsLast' /\ FreshIsNode' /\ DecidesByState'
    BY <1>1, <1>2, <1>4 DEF IInv, NodeIsLast, FreshIsNode, DecidesByState
  <1>8. ListedEarlier'
    BY <1>1, <1>2, <1>4, Types DEF IInv, ListedEarlier
  <1>9. Unclaimed'
    <2>1. claims' = claims /\ \A n \in Numbers : n > last => claims[n] = 0
      BY DEF IInv, Unclaimed, RequestLRPStartAuction
    <2> QED BY <1>1, <1>2, <1>4, <2>1 DEF Unclaimed, Numbers
  <1>10. ClaimedOnce' /\ HeldIsClaimed' /\ HeldByOne' /\ ResolvesHeld'
    BY ClaimsKept DEF RequestLRPStartAuction
  <1> QED BY <1>6, <1>7, <1>8, <1>9, <1>10 DEF IInv

LEMMA LoseEventStep ==
    ASSUME IInv, kind' = kind, NEW a \in Auctioneers, NEW id \in Numbers, LoseEvent(a, id)
    PROVE  IInv'
  <1>1. offered' \in [Auctioneers -> SUBSET Numbers] /\ faults' \in 0 .. MaxFaults
    BY AuctionsAssumption DEF IInv, TypeOK, LoseEvent, Fault
  <1>2. TypeOK'
    BY <1>1, Zenon DEF IInv, TypeOK, LoseEvent
  <1> QED BY <1>2, BoardKept, ClaimsKept DEF IInv, LoseEvent

LEMMA TakeEventStep ==
    ASSUME IInv, kind' = kind, NEW a \in Auctioneers, NEW id \in Numbers, TakeEvent(a, id)
    PROVE  IInv'
  <1>1. offered' \in [Auctioneers -> SUBSET Numbers]
    BY DEF IInv, TypeOK, TakeEvent
  <1>2. [op |-> "claim", id |-> id] \in Call
    BY DEF Call, Ops, Numbers
  <1>3. call' \in [Auctioneers -> Call]
    BY <1>2, Types DEF IInv, TakeEvent
  <1>4. TypeOK'
    BY <1>1, <1>3, Zenon DEF IInv, TypeOK, TakeEvent, Call, Ops
  <1>5. HeldIsClaimed' /\ HeldByOne' /\ ResolvesHeld'
    BY Types DEF IInv, HeldIsClaimed, HeldByOne, ResolvesHeld, TakeEvent
  <1> QED BY <1>4, <1>5, BoardKept DEF IInv, TakeEvent

\* A claim finds the auction pending, so nobody claimed or holds it.
LEMMA ClaimStep ==
    ASSUME IInv, kind' = kind, NEW a \in Auctioneers, ClaimLRPStartAuction(a)
    PROVE  IInv'
  <1> DEFINE id == call[a].id
             new == [node EXCEPT !.state = "claimed", !.id = id, !.age = 0]
  <1>1. node.state = "pending" /\ node.id = id /\ id = last /\ id \in Numbers
        /\ claims[id] = 0
    BY Types DEF IInv, NodeIsLast, Unclaimed, ClaimLRPStartAuction, Matches, Numbers
  <1>2. new \in Node /\ new.state = "claimed" /\ new.id = id
    <2>1. 0 \in Older(KickPendingDuration) /\ id \in 0 .. MaxAuctions /\ node \in Node
      BY <1>1, Types, AuctionsAssumption DEF IInv, Older, Numbers
    <2> HIDE DEF id
    <2> QED BY <2>1 DEF Node
  <1>3. Put(new) /\ claims' = [claims EXCEPT ![id] = @ + 1] /\ last' = last /\ offered' = offered
    BY DEF ClaimLRPStartAuction
  <1>4. \/ holds' = [holds EXCEPT ![a] = id] /\ call' = [call EXCEPT ![a] = NoCall] /\ faults' = faults
        \/ Fault /\ holds' = holds /\ call' = call
    BY DEF ClaimLRPStartAuction
  <1> HIDE DEF id, new
  <1>5. /\ node' = new /\ conv' \in Pass /\ ~conv'.fresh
        /\ conv'.pc = conv.pc /\ conv'.listed = conv.listed
    BY <1>3, AfterPut DEF IInv
  <1>6. claims' \in [Numbers -> Nat] /\ claims'[id] = 1
        /\ \A n \in Numbers \ {id} : claims'[n] = claims[n]
    BY <1>1, <1>3, Types DEF IInv
  <1>7. holds' \in [Auctioneers -> 0 .. MaxAuctions] /\ faults' \in 0 .. MaxFaults
    BY <1>1, <1>4, AuctionsAssumption DEF IInv, TypeOK, Fault, Numbers
  <1>8. call' \in [Auctioneers -> Call]
    BY <1>4, Types, NoCallType DEF IInv
  <1>9. TypeOK'
    BY <1>2, <1>3, <1>5, <1>6, <1>7, <1>8, Zenon DEF IInv, TypeOK, Call, Ops, Pass
  <1>10. NodeIsLast' /\ FreshIsNode' /\ ListedEarlier' /\ DecidesByState'
    BY <1>1, <1>2, <1>3, <1>5, Types
       DEF IInv, NodeIsLast, FreshIsNode, ListedEarlier, DecidesByState, Numbers
  <1>11. Unclaimed' /\ ClaimedOnce'
    BY <1>1, <1>2, <1>3, <1>5, <1>6, Types DEF IInv, Unclaimed, ClaimedOnce, Numbers
  <1>12. \A b \in Auctioneers : holds[b] # id
    BY <1>1 DEF IInv, HeldIsClaimed, Numbers
  <1>13. HeldIsClaimed'
    BY <1>1, <1>4, <1>6, Types DEF IInv, HeldIsClaimed, Numbers
  <1>14. HeldByOne'
    BY <1>4, <1>12, Types DEF IInv, HeldByOne
  <1>15. ResolvesHeld'
    BY <1>4, Types, NoCallType DEF IInv, ResolvesHeld, ClaimLRPStartAuction
  <1> QED BY <1>9, <1>10, <1>11, <1>13, <1>14, <1>15 DEF IInv

LEMMA ClaimFailsStep ==
    ASSUME IInv, kind' = kind, NEW a \in Auctioneers, ClaimFails(a)
    PROVE  IInv'
  <1>1. call' \in [Auctioneers -> Call]
    BY Types, NoCallType DEF IInv, ClaimFails
  <1>2. TypeOK'
    BY <1>1, Zenon DEF IInv, TypeOK, ClaimFails, Call, Ops
  <1>3. HeldIsClaimed' /\ HeldByOne' /\ ResolvesHeld'
    BY Types, NoCallType DEF IInv, HeldIsClaimed, HeldByOne, ResolvesHeld, ClaimFails
  <1> QED BY <1>2, <1>3, BoardKept DEF IInv, ClaimFails

LEMMA AuctionOverStep ==
    ASSUME IInv, kind' = kind, NEW a \in Auctioneers, AuctionOver(a)
    PROVE  IInv'
  <1>1. [op |-> "resolve", id |-> holds[a]] \in Call
    BY Types DEF IInv, Call, Ops
  <1>2. call' \in [Auctioneers -> Call]
    BY <1>1, Types DEF IInv, AuctionOver
  <1>3. TypeOK'
    BY <1>2, Zenon DEF IInv, TypeOK, AuctionOver, Call, Ops
  <1>4. HeldIsClaimed' /\ HeldByOne' /\ ResolvesHeld'
    BY Types DEF IInv, HeldIsClaimed, HeldByOne, ResolvesHeld, AuctionOver
  <1> QED BY <1>3, <1>4, BoardKept DEF IInv, AuctionOver

\* The node is gone.
LEMMA GoneKeeps ==
    ASSUME IInv, node' = Absent, UNCHANGED <<last, claims>>,
           \/ ~conv'.fresh /\ conv'.pc = conv.pc /\ conv'.listed = conv.listed
           \/ conv' = NoPass
    PROVE  NodeIsLast' /\ FreshIsNode' /\ ListedEarlier' /\ DecidesByState' /\ Unclaimed'
           /\ ClaimedOnce'
  <1>1. NodeIsLast' /\ Unclaimed' /\ ClaimedOnce'
    BY AbsentType DEF IInv, NodeIsLast, Unclaimed, ClaimedOnce
  <1>2. FreshIsNode' /\ ListedEarlier' /\ DecidesByState'
    BY AbsentType, NoPassType, Types DEF IInv, FreshIsNode, ListedEarlier, DecidesByState
  <1> QED BY <1>1, <1>2

LEMMA ResolveStep ==
    ASSUME IInv, kind' = kind, NEW a \in Auctioneers, ResolveLRPStartAuction(a)
    PROVE  IInv'
  <1>1. \/ /\ call' = [call EXCEPT ![a] = NoCall] /\ faults' = faults
           /\ holds' = [holds EXCEPT ![a] = 0]
        \/ Fault /\ call' = [call EXCEPT ![a].op = "resolveAgain"] /\ holds' = holds
    BY DEF ResolveLRPStartAuction
  <1>2. call' \in [Auctioneers -> Call]
    BY <1>1, Types, NoCallType DEF IInv, Call, Ops
  <1>3. holds' \in [Auctioneers -> 0 .. MaxAuctions] /\ faults' \in 0 .. MaxFaults
    BY <1>1, AuctionsAssumption DEF IInv, TypeOK, Fault
  <1>4. HeldIsClaimed' /\ HeldByOne'
    BY <1>1, Types DEF IInv, HeldIsClaimed, HeldByOne, ResolveLRPStartAuction
  <1>5. ResolvesHeld'
    BY <1>1, Types, NoCallType DEF IInv, ResolvesHeld, ResolveLRPStartAuction, Call, Ops
  <1>6. CASE node = Absent
    <2>1. UNCHANGED <<node, last, conv, claims, offered>>
      BY <1>6 DEF ResolveLRPStartAuction
    <2>2. TypeOK'
      BY <1>2, <1>3, <2>1, Zenon DEF IInv, TypeOK, Call, Ops
    <2> QED BY <1>4, <1>5, <2>1, <2>2, BoardKept DEF IInv
  <1>7. CASE node # Absent
    <2>1. Put(Absent) /\ UNCHANGED <<last, claims, offered>>
      BY <1>7 DEF ResolveLRPStartAuction
    <2>2. /\ node' = Absent /\ conv' \in Pass /\ ~conv'.fresh
          /\ conv'.pc = conv.pc /\ conv'.listed = conv.listed
      BY <2>1, AfterPut DEF IInv
    <2>3. TypeOK'
      BY <1>2, <1>3, <2>1, <2>2, AbsentType, Zenon DEF IInv, TypeOK, Call, Ops, Pass
    <2> QED BY <1>4, <1>5, <2>1, <2>2, <2>3, GoneKeeps DEF IInv
  <1> QED BY <1>6, <1>7

LEMMA AuctioneerDiesStep ==
    ASSUME IInv, kind' = kind, NEW a \in Auctioneers, AuctioneerDies(a)
    PROVE  IInv'
  <1>1. call' \in [Auctioneers -> Call]
    BY Types, NoCallType DEF IInv, AuctioneerDies
  <1>2. /\ holds' \in [Auctioneers -> 0 .. MaxAuctions] /\ faults' \in 0 .. MaxFaults
        /\ offered' \in [Auctioneers -> SUBSET Numbers]
    BY AuctionsAssumption DEF IInv, TypeOK, Fault, AuctioneerDies
  <1>3. TypeOK'
    BY <1>1, <1>2, Zenon DEF IInv, TypeOK, AuctioneerDies, Call, Ops
  <1>4. HeldIsClaimed' /\ HeldByOne' /\ ResolvesHeld'
    BY Types, NoCallType DEF IInv, HeldIsClaimed, HeldByOne, ResolvesHeld, AuctioneerDies
  <1> QED BY <1>3, <1>4, BoardKept DEF IInv, AuctioneerDies

-----------------------------------------------------------------------------
(* The converger and the clock.                                            *)

\* The converger's pass changes, the board does not.
LEMMA PassChanges ==
    ASSUME IInv, kind' = kind, UNCHANGED <<node, last, call, holds, claims>>,
           offered' \in [Auctioneers -> SUBSET Numbers], faults' \in 0 .. MaxFaults,
           conv' \in Pass, FreshIsNode', ListedEarlier', DecidesByState'
    PROVE  IInv'
  <1>1. TypeOK'
    BY Zenon DEF IInv, TypeOK, Pass
  <1>2. NodeIsLast' /\ Unclaimed'
    BY DEF IInv, NodeIsLast, Unclaimed
  <1> QED BY <1>1, <1>2, ClaimsKept DEF IInv

LEMMA PassEnds ==
    ASSUME IInv, conv' = NoPass, last' = last
    PROVE  conv' \in Pass /\ FreshIsNode' /\ ListedEarlier' /\ DecidesByState'
  BY NoPassType, AbsentType, Types DEF IInv, FreshIsNode, ListedEarlier, DecidesByState

LEMMA ConvergeListStep ==
    ASSUME IInv, kind' = kind, ConvergeList
    PROVE  IInv'
  <1>1. offered' \in [Auctioneers -> SUBSET Numbers] /\ faults' \in 0 .. MaxFaults
    BY DEF IInv, TypeOK, ConvergeList
  <1>2. conv' = [pc |-> "listed", listed |-> node, fresh |-> TRUE] /\ node' = node /\ last' = last
    BY DEF ConvergeList
  <1>3. conv' \in Pass
    BY <1>2, Types DEF IInv, Pass
  <1>4. node.id <= last
    BY Types, AbsentType DEF IInv, NodeIsLast
  <1>5. FreshIsNode' /\ ListedEarlier' /\ DecidesByState'
    BY <1>2, <1>4 DEF FreshIsNode, ListedEarlier, DecidesByState
  <1> QED BY <1>1, <1>3, <1>5, PassChanges DEF ConvergeList

LEMMA ConvergeDecideStep ==
    ASSUME IInv, kind' = kind, ConvergeDecide
    PROVE  IInv'
  <1>1. offered' \in [Auctioneers -> SUBSET Numbers] /\ faults' \in 0 .. MaxFaults
        /\ last' = last /\ node' = node
    BY DEF IInv, TypeOK, ConvergeDecide
  <1>2. conv \in Pass /\ conv.pc = "listed"
    BY Types DEF IInv, ConvergeDecide
  <1>3. CASE keysToDelete(conv.listed)
    <2>1. conv' = [conv EXCEPT !.pc = "delete"]
      BY <1>3 DEF ConvergeDecide
    <2>2. /\ conv' \in Pass /\ conv'.pc = "delete" /\ conv'.listed = conv.listed
          /\ conv'.fresh = conv.fresh
      BY <1>2, <2>1 DEF Pass
    <2>3. FreshIsNode' /\ ListedEarlier' /\ DecidesByState'
      BY <1>1, <1>2, <1>3, <2>2 DEF IInv, FreshIsNode, ListedEarlier, DecidesByState, keysToDelete
    <2> QED BY <1>1, <2>2, <2>3, PassChanges DEF ConvergeDecide
  <1>4. CASE ~keysToDelete(conv.listed) /\ auctionsToCAS(conv.listed)
    <2>1. conv' = [conv EXCEPT !.pc = "swap"]
      BY <1>4 DEF ConvergeDecide
    <2>2. /\ conv' \in Pass /\ conv'.pc = "swap" /\ conv'.listed = conv.listed
          /\ conv'.fresh = conv.fresh
      BY <1>2, <2>1 DEF Pass
    <2>3. FreshIsNode' /\ ListedEarlier' /\ DecidesByState'
      BY <1>1, <1>2, <1>4, <2>2 DEF IInv, FreshIsNode, ListedEarlier, DecidesByState, auctionsToCAS
    <2> QED BY <1>1, <2>2, <2>3, PassChanges DEF ConvergeDecide
  <1>5. CASE ~keysToDelete(conv.listed) /\ ~auctionsToCAS(conv.listed)
    <2>1. conv' = NoPass
      BY <1>5 DEF ConvergeDecide
    <2> QED BY <1>1, <2>1, PassEnds, PassChanges DEF ConvergeDecide
  <1> QED BY <1>3, <1>4, <1>5

LEMMA ConvergeDeleteStep ==
    ASSUME IInv, kind' = kind, ConvergeDelete
    PROVE  IInv'
  <1>1. /\ conv' = NoPass /\ UNCHANGED <<last, offered, call, holds, claims>>
        /\ offered' \in [Auctioneers -> SUBSET Numbers] /\ conv' \in Pass
    BY NoPassType DEF IInv, TypeOK, ConvergeDelete
  <1>2. CASE node' = Absent /\ faults' = faults
    <2>1. TypeOK'
      BY <1>1, <1>2, AbsentType, Zenon DEF IInv, TypeOK, Pass
    <2>2. NodeIsLast' /\ FreshIsNode' /\ ListedEarlier' /\ DecidesByState' /\ Unclaimed'
      BY <1>1, <1>2, GoneKeeps
    <2> QED BY <1>1, <2>1, <2>2, ClaimsKept DEF IInv
  <1>3. CASE Fault /\ UNCHANGED node
    <2>1. faults' \in 0 .. MaxFaults
      BY <1>3, AuctionsAssumption DEF IInv, TypeOK, Fault
    <2> QED BY <1>1, <1>3, <2>1, PassEnds, PassChanges
  <1> QED BY <1>2, <1>3 DEF ConvergeDelete

LEMMA KickStep ==
    ASSUME IInv, kind' = kind, batchCompareAndSwap
    PROVE  IInv'
  <1>1. faults' \in 0 .. MaxFaults
    BY AuctionsAssumption DEF IInv, TypeOK, batchCompareAndSwap, Fault
  <1>2. offered' \in [Auctioneers -> SUBSET Numbers]
    <2>1. CASE conv.fresh /\ Announce(node.id)
      <3>1. conv.listed = node /\ conv.pc = "swap" /\ node.id \in Numbers \cup {0}
        BY <2>1, Types DEF IInv, FreshIsNode, batchCompareAndSwap, Numbers
      <3>2. CASE node.id \in Numbers
        BY <2>1, <3>2, Types DEF IInv, Announce
      <3>3. CASE node.id = 0
        BY <2>1, <3>1, <3>3 DEF IInv, NodeIsLast, DecidesByState, Numbers
      <3> QED BY <3>1, <3>2, <3>3
    <2>2. CASE offered' = offered
      BY <2>2 DEF IInv, TypeOK
    <2> QED BY <2>1, <2>2 DEF batchCompareAndSwap
  <1> QED BY <1>1, <1>2, PassEnds, PassChanges DEF batchCompareAndSwap

LEMMA TickStep ==
    ASSUME IInv, kind' = kind, Tick
    PROVE  IInv'
  <1> DEFINE Ages == Older(KickPendingDuration) \cup Older(ExpireClaimedDuration)
  <1>1. node \in Node /\ conv \in Pass /\ conv.listed \in Node /\ node.age \in Ages
    BY Types DEF IInv, Node
  <1>2. node.age + 1 \in Ages
    BY <1>1, AuctionsAssumption DEF Tick, Older
  <1> HIDE DEF Ages
  <1>3. node' \in Node /\ node'.state = node.state /\ node'.id = node.id /\ node'.age = node.age + 1
    BY <1>1, <1>2 DEF Tick, Node, Ages
  <1>4. CASE conv.fresh
    <2>1. conv' = [conv EXCEPT !.listed = node'] /\ conv.listed = node
      BY <1>1, <1>4 DEF Tick, IInv, FreshIsNode, Pass
    <2>2. conv' \in Pass /\ conv'.pc = conv.pc /\ conv'.listed = node' /\ conv'.fresh = conv.fresh
      BY <1>1, <1>3, <2>1 DEF Pass
    <2>3. TypeOK'
      BY <1>3, <2>2, Zenon DEF IInv, TypeOK, Tick, Pass
    <2>4. NodeIsLast' /\ FreshIsNode' /\ ListedEarlier' /\ DecidesByState'
      BY <1>3, <2>1, <2>2 DEF IInv, NodeIsLast, FreshIsNode, ListedEarlier, DecidesByState, Tick
    <2>5. Unclaimed'
      BY <1>3 DEF IInv, Unclaimed, Tick
    <2> QED BY <2>3, <2>4, <2>5, ClaimsKept DEF IInv, Tick
  <1>5. CASE ~conv.fresh
    <2>1. conv' = conv
      BY <1>1, <1>5 DEF Tick, Pass, Node
    <2>2. TypeOK'
      BY <1>3, <2>1, Zenon DEF IInv, TypeOK, Tick
    <2>3. NodeIsLast' /\ FreshIsNode' /\ ListedEarlier' /\ DecidesByState'
      BY <1>3, <1>5, <2>1 DEF IInv, NodeIsLast, FreshIsNode, ListedEarlier, DecidesByState, Tick
    <2>4. Unclaimed'
      BY <1>3 DEF IInv, Unclaimed, Tick
    <2> QED BY <2>2, <2>3, <2>4, ClaimsKept DEF IInv, Tick
  <1> QED BY <1>4, <1>5

-----------------------------------------------------------------------------
\* The operations of an auction of either kind are the same.
LEMMA NextIs ==
    ASSUME Next
    PROVE  /\ kind' = kind
           /\ \/ \E state \in {"pending", "invalid"} : RequestLRPStartAuction(state)
              \/ \E a \in Auctioneers, id \in Numbers : LoseEvent(a, id) \/ TakeEvent(a, id)
              \/ \E a \in Auctioneers : \/ ClaimLRPStartAuction(a) \/ ClaimFails(a)
                                        \/ AuctionOver(a) \/ ResolveLRPStartAuction(a)
                                        \/ AuctioneerDies(a)
              \/ ConvergeList \/ ConvergeDecide \/ ConvergeDelete \/ batchCompareAndSwap
              \/ Tick
  <1>1. StartRequests \subseteq {"pending", "invalid"} /\ StopRequests \subseteq {"pending", "invalid"}
    BY DEF StartRequests, StopRequests
  <1>2. kind' = kind
    BY DEF Next
  <1>3. CASE StartAuctions
    BY <1>1, <1>2, <1>3 DEF StartAuctions, ConvergeLRPStartAuctions
  <1>4. CASE StopAuctions
    BY <1>1, <1>2, <1>4 DEF StopAuctions, RequestLRPStopAuction, WatchForLRPStopAuction,
        ClaimLRPStopAuction, ResolveLRPStopAuction, ConvergeLRPStopAuctions
  <1> QED BY <1>2, <1>3, <1>4 DEF Next

LEMMA IInvStep == IInv /\ [Next]_vars => IInv'
  <1> SUFFICES ASSUME IInv, [Next]_vars PROVE IInv'
    OBVIOUS
  <1>1. CASE Next
    <2>1. kind' = kind
      BY <1>1, NextIs
    <2>2. ASSUME NEW state \in {"pending", "invalid"}, RequestLRPStartAuction(state) PROVE IInv'
      BY <2>1, <2>2, RequestStep
    <2>3. ASSUME NEW a \in Auctioneers, NEW id \in Numbers, LoseEvent(a, id) \/ TakeEvent(a, id)
          PROVE  IInv'
      BY <2>1, <2>3, LoseEventStep, TakeEventStep
    <2>4. ASSUME NEW a \in Auctioneers,
                 \/ ClaimLRPStartAuction(a) \/ ClaimFails(a)
                 \/ AuctionOver(a) \/ ResolveLRPStartAuction(a) \/ AuctioneerDies(a)
          PROVE  IInv'
      BY <2>1, <2>4, ClaimStep, ClaimFailsStep, AuctionOverStep, ResolveStep, AuctioneerDiesStep
    <2>5. CASE ConvergeList \/ ConvergeDecide \/ ConvergeDelete \/ batchCompareAndSwap
      BY <2>1, <2>5, ConvergeListStep, ConvergeDecideStep, ConvergeDeleteStep, KickStep
    <2>6. CASE Tick
      BY <2>1, <2>6, TickStep
    <2> QED BY <1>1, <2>2, <2>3, <2>4, <2>5, <2>6, NextIs
  <1>2. CASE UNCHANGED vars
    <2>1. TypeOK'
      BY <1>2 DEF vars, IInv, TypeOK
    <2> QED BY <1>2, <2>1, BoardKept, ClaimsKept DEF vars, IInv
  <1> QED BY <1>1, <1>2

LEMMA SpecIInv == Spec => []IInv
  BY Initially, IInvStep, PTL DEF Spec

-----------------------------------------------------------------------------
\* ClaimLRPStartAuction and ClaimLRPStopAuction: however often an auction is
\* announced, kicked and claimed, it is claimed at most once and held by one
\* auctioneer.
THEOREM AuctionClaimedOnce == Spec => []ClaimedAtMostOnce
  <1>1. IInv => ClaimedAtMostOnce
    BY DEF IInv, ClaimedOnce, HeldByOne, ClaimedAtMostOnce
  <1> QED BY SpecIInv, <1>1, PTL

\* Resolve and the converger delete by key: who deletes a pending auction is
\* late, for it resolves or has listed an earlier auction of the key.
THEOREM PendingDeletedLate == Spec => PendingDeletedOnlyByLate
  <1>1. IInv /\ [Next]_vars =>
          [node.state = "pending" /\ node' = Absent =>
             \/ \E a \in Auctioneers : /\ call[a].op \in {"resolve", "resolveAgain"}
                                       /\ call[a].id < node.id
             \/ conv.pc = "delete" /\ conv.listed.id < node.id]_vars
    <2> SUFFICES ASSUME IInv, Next, node.state = "pending", node' = Absent
                 PROVE  \/ \E a \in Auctioneers : /\ call[a].op \in {"resolve", "resolveAgain"}
                                                  /\ call[a].id < node.id
                        \/ conv.pc = "delete" /\ conv.listed.id < node.id
      OBVIOUS
    <2>1. node.id = last /\ claims[node.id] = 0 /\ last \in 0 .. MaxAuctions
      BY Types DEF IInv, NodeIsLast, Unclaimed
    <2>2. node'.state # node.state
      BY AbsentType
    <2>3. ASSUME NEW a \in Auctioneers, ResolveLRPStartAuction(a)
          PROVE  call[a].op \in {"resolve", "resolveAgain"} /\ call[a].id < node.id
      <3>1. call[a].op \in {"resolve", "resolveAgain"}
        BY <2>3 DEF ResolveLRPStartAuction
      <3>2. call[a].id \in Numbers /\ claims[call[a].id] # 0
        BY <3>1, Types DEF IInv, ResolvesHeld, HeldIsClaimed, Numbers
      <3>3. call[a].id <= last
        BY <2>1, <3>2 DEF IInv, Unclaimed, Numbers
      <3> QED BY <2>1, <3>1, <3>2, <3>3 DEF Numbers
    <2>4. CASE ConvergeDelete
      <3>1. conv.pc = "delete" /\ conv.listed.state # "pending"
        BY <2>4 DEF ConvergeDelete, IInv, DecidesByState
      <3>2. conv.listed.id <= last /\ conv.listed.id # node.id
        BY <3>1 DEF IInv, ListedEarlier
      <3> QED BY <2>1, <3>1, <3>2, Types DEF IInv
    <2>5. ASSUME NEW state \in {"pending", "invalid"} PROVE ~RequestLRPStartAuction(state)
      BY AbsentType DEF RequestLRPStartAuction
    <2>6. ASSUME NEW a \in Auctioneers PROVE ~ClaimLRPStartAuction(a)
      <3> SUFFICES ASSUME ClaimLRPStartAuction(a) PROVE FALSE
        OBVIOUS
      <3>1. node' = [node EXCEPT !.state = "claimed", !.id = call[a].id, !.age = 0] /\ node \in Node
        BY Types DEF IInv, ClaimLRPStartAuction, Put
      <3>2. node'.state = "claimed"
        BY <3>1 DEF Node
      <3> QED BY <3>2, AbsentType
    <2>7. ~Tick
      <3> SUFFICES ASSUME Tick PROVE FALSE
        OBVIOUS
      <3>1. node'.state = node.state
        BY Types DEF IInv, Tick, Node
      <3> QED BY <2>2, <3>1
    <2>8. CASE node' = node
      BY <2>2, <2>8
    <2>9. ASSUME NEW a \in Auctioneers, NEW id \in Numbers, LoseEvent(a, id) \/ TakeEvent(a, id)
          PROVE  node' = node
      BY <2>9 DEF LoseEvent, TakeEvent
    <2>10. ASSUME NEW a \in Auctioneers, ClaimFails(a) \/ AuctionOver(a) \/ AuctioneerDies(a)
           PROVE  node' = node
      BY <2>10 DEF ClaimFails, AuctionOver, AuctioneerDies
    <2>11. ASSUME ConvergeList \/ ConvergeDecide \/ batchCompareAndSwap
           PROVE  node' = node
      BY <2>11 DEF ConvergeList, ConvergeDecide, batchCompareAndSwap
    <2> QED BY <2>3, <2>4, <2>5, <2>6, <2>7, <2>8, <2>9, <2>10, <2>11, NextIs
  <1> QED BY <1>1, SpecIInv, PTL DEF Spec, PendingDeletedOnlyByLate
=============================================================================
