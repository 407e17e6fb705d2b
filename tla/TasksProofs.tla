---------------------------- MODULE TasksProofs ----------------------------
(***************************************************************************)
(* A task for any number of executors and stagers, any durations and any   *)
(* number of faults, crashes and desires: it is started at most once, its  *)
(* result stays, and it does not fail for the disappearance of an executor *)
(* that was there all the time.                                            *)
(*                                                                         *)
(* The argument is what a fresh index is worth: a call or a pass whose     *)
(* node is still the one it read is about to write a value that follows    *)
(* from the node there is now.                                             *)
(***************************************************************************)
EXTENDS Tasks, TLAPS

Calls == [op : {"idle", "claim", "start", "complete", "resolving", "resolve"},
          new : Task, fresh : BOOLEAN]
Passes == [pc : {"idle", "listed", "swap", "delete"}, new : Task, fresh : BOOLEAN]

AbsentOnly == node.state = "absent" => node = Absent

\* The call r of c, if it is fresh, follows from the node: who is about to
\* claim, start, complete or mark what.
Claims(c, r) ==
    c \in Executors /\ node.state = "pending" /\ r.new.state = "claimed" /\ r.new.executor = c
Starts(c, r) ==
    c \in Executors /\ node.state = "claimed" /\ node.executor = c
    /\ r.new.state = "running" /\ r.new.executor = c
Completes(r) == node.state = "running" /\ r.new.state = "completed"
Resolves(r) == node.state = "completed" /\ r.new.state = "resolving" /\ r.new.failed = node.failed

Follows(c, r) ==
    r.fresh => /\ r.op = "claim" => Claims(c, r)
               /\ r.op = "start" => Starts(c, r)
               /\ r.op = "complete" => Completes(r)
               /\ r.op = "resolving" => Resolves(r)

FreshCalls == \A c \in Clients : Follows(c, call[c])

\* What a pass may make of the node t.
Repairs(t, new) ==
    /\ t.state # "absent"
    /\ t.state \in {"pending", "claimed"} => new.state \in {"pending", "completed"}
    /\ t.state = "running" => new.state = "completed"
    /\ t.state \in {"completed", "resolving"} => new.state = "completed" /\ new.failed = t.failed

ListedPass == conv.pc = "listed" => conv.new.state # "absent" /\ (conv.fresh => conv.new = node)
SwapPass ==
    conv.pc = "swap" =>
        /\ conv.new.state # "absent"
        /\ conv.fresh => /\ Repairs(node, conv.new)
                         /\ node.state \in {"claimed", "running"}
                               /\ conv.new.state = "completed" => lapsed

\* An executor that is gone lapsed since its claim.
GoneLapsed == node.state \in {"claimed", "running"} /\ node.executor \notin present => lapsed

StartsOnce ==
    /\ Len(starts) <= 1
    /\ node.state \in {"pending", "claimed"} => starts = <<>>
    /\ node.state = "running" => starts = <<node.executor>>

IInv ==
    /\ TypeOK
    /\ AbsentOnly
    /\ FreshCalls
    /\ ListedPass
    /\ SwapPass
    /\ GoneLapsed
    /\ StartsOnce

-----------------------------------------------------------------------------
(* Tasks, calls and passes.                                                *)

LEMMA AbsentType == Absent \in Task /\ Absent.state = "absent"
  BY TasksAssumption DEF Absent, Task, States

LEMMA IdleType == Idle \in Calls /\ ~Idle.fresh /\ Idle.op = "idle"
  BY AbsentType DEF Idle, Calls

LEMMA NoPassType == NoPass \in Passes /\ ~NoPass.fresh /\ NoPass.pc = "idle"
  BY AbsentType DEF NoPass, Passes

LEMMA StaleCall ==
    ASSUME NEW r \in Calls
    PROVE  Stale(r) \in Calls /\ ~Stale(r).fresh
  BY DEF Calls, Stale

LEMMA StalePass ==
    ASSUME NEW r \in Passes
    PROVE  /\ Stale(r) \in Passes /\ ~Stale(r).fresh
           /\ Stale(r).pc = r.pc /\ Stale(r).new = r.new
  BY DEF Passes, Stale

LEMMA OlderKeeps ==
    ASSUME NEW t \in Task
    PROVE  /\ Older(t) \in Task
           /\ Older(t).state = t.state /\ Older(t).executor = t.executor
           /\ Older(t).failed = t.failed
  <1>1. CASE t.state = "absent"
    BY <1>1 DEF Older
  <1>2. CASE t.state # "absent"
    <2> DEFINE u == IF t.updated < ConvergenceInterval THEN t.updated + 1 ELSE t.updated
               v == IF t.created < TimeToClaim THEN t.created + 1 ELSE t.created
    <2>1. u \in 0 .. ConvergenceInterval /\ v \in 0 .. TimeToClaim
      BY TasksAssumption DEF Task
    <2>2. Older(t) = [t EXCEPT !.updated = u, !.created = v]
      BY <1>2 DEF Older
    <2> HIDE DEF u, v
    <2> QED BY <2>1, <2>2 DEF Task
  <1> QED BY <1>1, <1>2

LEMMA Initially == Init => IInv
  <1> SUFFICES ASSUME Init PROVE IInv
    OBVIOUS
  <1>1. TypeOK
    <2>1. call \in [Clients -> Calls] /\ conv \in Passes
      BY IdleType, NoPassType DEF Init
    <2>2. faults \in 0 .. MaxFaults /\ desires \in 0 .. MaxDesires /\ crashes \in 0 .. MaxCrashes
      BY TasksAssumption DEF Init
    <2>3. told \in [Clients -> {"nothing", "claimed", "running", "resolving"}]
          /\ starts \in Seq(Executors)
      BY DEF Init
    <2> QED BY <2>1, <2>2, <2>3, AbsentType, Zenon DEF Init, TypeOK, Calls, Passes
  <1>2. FreshCalls
    BY IdleType DEF Init, FreshCalls, Follows
  <1>3. ListedPass /\ SwapPass
    BY NoPassType DEF Init, ListedPass, SwapPass
  <1>4. AbsentOnly /\ GoneLapsed /\ StartsOnce
    BY AbsentType DEF Init, AbsentOnly, GoneLapsed, StartsOnce
  <1> QED BY <1>1, <1>2, <1>3, <1>4 DEF IInv

\* The type invariant in the form the proofs use.
LEMMA Types ==
    ASSUME TypeOK
    PROVE  /\ node \in Task /\ call \in [Clients -> Calls] /\ conv \in Passes
           /\ \A c \in Clients : call[c].new \in Task
           /\ conv.new \in Task
  BY DEF TypeOK, Calls, Passes

-----------------------------------------------------------------------------
(* A write of the node.  Nothing is fresh after it.                        *)

LEMMA AfterWrite ==
    ASSUME TypeOK, NEW new \in Task, NEW c, NEW mine \in Calls, ~mine.fresh,
           Write(new, c, mine)
    PROVE  /\ node' = new
           /\ call' \in [Clients -> Calls] /\ \A d \in Clients : ~call'[d].fresh
           /\ conv' \in Passes /\ ~conv'.fresh /\ conv'.pc = conv.pc /\ conv'.new = conv.new
  <1>1. \A d \in Clients : Stale(call[d]) \in Calls /\ ~Stale(call[d]).fresh
    BY Types, StaleCall
  <1>2. /\ call' \in [Clients -> Calls]
        /\ \A d \in Clients : ~call'[d].fresh
    BY <1>1 DEF Write
  <1>3. conv' \in Passes /\ ~conv'.fresh /\ conv'.pc = conv.pc /\ conv'.new = conv.new
    BY Types, StalePass DEF Write
  <1> QED BY <1>2, <1>3 DEF Write

\* What is left to show after a write is about the node alone.
LEMMA WriteKeeps ==
    ASSUME IInv, NEW new \in Task, NEW c, NEW mine \in Calls, ~mine.fresh,
           Write(new, c, mine),
           told' \in [Clients -> {"nothing", "claimed", "running", "resolving"}],
           present' \subseteq Executors,
           faults' \in 0 .. MaxFaults, desires' \in 0 .. MaxDesires, crashes' \in 0 .. MaxCrashes,
           lapsed' \in BOOLEAN, starts' \in Seq(Executors)
    PROVE  TypeOK' /\ FreshCalls' /\ ListedPass' /\ SwapPass'
  <1> USE AfterWrite DEF IInv
  <1>1. TypeOK'
    BY Zenon DEF TypeOK, Calls, Passes
  <1>2. FreshCalls'
    BY DEF FreshCalls, Follows
  <1>3. ListedPass' /\ SwapPass'
    BY DEF ListedPass, SwapPass
  <1> QED BY <1>1, <1>2, <1>3

-----------------------------------------------------------------------------
(* The operations read the node and leave a call.                          *)

\* A call that follows from the node is all that changes.
LEMMA CallChanges ==
    ASSUME IInv, NEW c \in Clients, NEW r \in Calls, Follows(c, r),
           call' = [call EXCEPT ![c] = r],
           told' \in [Clients -> {"nothing", "claimed", "running", "resolving"}],
           faults' \in 0 .. MaxFaults,
           UNCHANGED <<node, present, conv, desires, crashes, lapsed, starts>>
    PROVE  IInv'
  <1>1. call' \in [Clients -> Calls]
    BY Types DEF IInv
  <1>2. TypeOK'
    BY <1>1, Zenon DEF IInv, TypeOK, Calls, Passes
  <1>3. FreshCalls'
    <2> SUFFICES ASSUME NEW d \in Clients PROVE Follows(d, call[d])'
      BY DEF FreshCalls
    <2>1. CASE d = c
      <3>1. call'[d] = r
        BY <2>1, Types DEF IInv
      <3> QED BY <2>1, <3>1 DEF Follows, Claims, Starts, Completes, Resolves
    <2>2. CASE d # c
      <3>1. call'[d] = call[d]
        BY <2>2, Types DEF IInv
      <3> QED BY <3>1 DEF IInv, FreshCalls, Follows, Claims, Starts, Completes, Resolves
    <2> QED BY <2>1, <2>2
  <1>4. AbsentOnly' /\ ListedPass' /\ SwapPass' /\ GoneLapsed' /\ StartsOnce'
    BY DEF IInv, AbsentOnly, ListedPass, SwapPass, Repairs, GoneLapsed, StartsOnce
  <1> QED BY <1>2, <1>3, <1>4 DEF IInv

\* Read, of a value t that is the node but for its state, executor and result.
LEMMA ReadStep ==
    ASSUME IInv, NEW c \in Clients, NEW t \in Task,
           NEW op \in {"claim", "start", "complete", "resolving", "resolve"},
           Follows(c, [op |-> op, new |-> t, fresh |-> TRUE]),
           call' = [call EXCEPT ![c] = [op |-> op, new |-> t, fresh |-> TRUE]],
           UNCHANGED <<node, present, told, conv, faults, desires, crashes, lapsed, starts>>
    PROVE  IInv'
  <1>1. [op |-> op, new |-> t, fresh |-> TRUE] \in Calls
    BY DEF Calls
  <1>2. told' \in [Clients -> {"nothing", "claimed", "running", "resolving"}]
        /\ faults' \in 0 .. MaxFaults
    BY DEF IInv, TypeOK
  <1> QED BY <1>1, <1>2, CallChanges

LEMMA ClaimTaskStep ==
    ASSUME IInv, NEW e \in Executors, ClaimTask(e)
    PROVE  IInv'
  <1> DEFINE t == [node EXCEPT !.state = "claimed", !.executor = e, !.updated = 0]
  <1>1. t \in Task /\ t.state = "claimed" /\ t.executor = e /\ e \in Clients
    <2>1. node \in Task /\ 0 \in 0 .. ConvergenceInterval
      BY Types, TasksAssumption DEF IInv
    <2> QED BY <2>1 DEF Task, States, Clients
  <1>2. call' = [call EXCEPT ![e] = [op |-> "claim", new |-> t, fresh |-> TRUE]]
        /\ node.state = "pending"
    BY DEF ClaimTask, Read
  <1> HIDE DEF t
  <1>3. Follows(e, [op |-> "claim", new |-> t, fresh |-> TRUE])
    BY <1>1, <1>2 DEF Follows, Claims
  <1> QED BY <1>1, <1>2, <1>3, ReadStep DEF ClaimTask, Read

LEMMA StartTaskStep ==
    ASSUME IInv, NEW e \in Executors, StartTask(e)
    PROVE  IInv'
  <1> DEFINE t == [node EXCEPT !.state = "running", !.updated = 0]
  <1>1. t \in Task /\ t.state = "running" /\ t.executor = node.executor /\ e \in Clients
    <2>1. node \in Task /\ 0 \in 0 .. ConvergenceInterval
      BY Types, TasksAssumption DEF IInv
    <2> QED BY <2>1 DEF Task, States, Clients
  <1>2. call' = [call EXCEPT ![e] = [op |-> "start", new |-> t, fresh |-> TRUE]]
        /\ node.state = "claimed" /\ node.executor = e
    BY DEF StartTask, Read
  <1> HIDE DEF t
  <1>3. Follows(e, [op |-> "start", new |-> t, fresh |-> TRUE])
    BY <1>1, <1>2 DEF Follows, Starts
  <1> QED BY <1>1, <1>2, <1>3, ReadStep DEF StartTask, Read

LEMMA CompleteTaskStep ==
    ASSUME IInv, NEW e \in Executors, NEW failed \in BOOLEAN, CompleteTask(e, failed)
    PROVE  IInv'
  <1> DEFINE t == [node EXCEPT !.state = "completed", !.failed = failed, !.updated = 0]
  <1>1. t \in Task /\ t.state = "completed" /\ e \in Clients
    <2>1. node \in Task /\ 0 \in 0 .. ConvergenceInterval
      BY Types, TasksAssumption DEF IInv
    <2> QED BY <2>1 DEF Task, States, Clients
  <1>2. call' = [call EXCEPT ![e] = [op |-> "complete", new |-> t, fresh |-> TRUE]]
        /\ node.state = "running"
    BY DEF CompleteTask, Read
  <1> HIDE DEF t
  <1>3. Follows(e, [op |-> "complete", new |-> t, fresh |-> TRUE])
    BY <1>1, <1>2 DEF Follows, Completes
  <1> QED BY <1>1, <1>2, <1>3, ReadStep DEF CompleteTask, Read

LEMMA ResolvingTaskStep ==
    ASSUME IInv, NEW s \in Stagers, ResolvingTask(s)
    PROVE  IInv'
  <1> DEFINE t == [node EXCEPT !.state = "resolving", !.updated = 0]
  <1>1. t \in Task /\ t.state = "resolving" /\ t.failed = node.failed /\ s \in Clients
    <2>1. node \in Task /\ 0 \in 0 .. ConvergenceInterval
      BY Types, TasksAssumption DEF IInv
    <2> QED BY <2>1 DEF Task, States, Clients
  <1>2. call' = [call EXCEPT ![s] = [op |-> "resolving", new |-> t, fresh |-> TRUE]]
        /\ node.state = "completed"
    BY DEF ResolvingTask, Read
  <1> HIDE DEF t
  <1>3. Follows(s, [op |-> "resolving", new |-> t, fresh |-> TRUE])
    BY <1>1, <1>2 DEF Follows, Resolves
  <1> QED BY <1>1, <1>2, <1>3, ReadStep DEF ResolvingTask, Read

LEMMA ResolveTaskStep ==
    ASSUME IInv, NEW s \in Stagers, ResolveTask(s)
    PROVE  IInv'
  <1> DEFINE t == [node EXCEPT !.updated = 0]
  <1>1. t \in Task /\ s \in Clients
    <2>1. node \in Task /\ 0 \in 0 .. ConvergenceInterval
      BY Types, TasksAssumption DEF IInv
    <2> QED BY <2>1 DEF Task, States, Clients
  <1>2. call' = [call EXCEPT ![s] = [op |-> "resolve", new |-> t, fresh |-> TRUE]]
    BY DEF ResolveTask, Read
  <1> HIDE DEF t
  <1>3. Follows(s, [op |-> "resolve", new |-> t, fresh |-> TRUE])
    BY DEF Follows
  <1> QED BY <1>1, <1>2, <1>3, ReadStep DEF ResolveTask, Read

LEMMA BailStep ==
    ASSUME IInv, NEW c \in Clients, Bail(c)
    PROVE  IInv'
  <1>1. call' = [call EXCEPT ![c] = Idle] /\ Follows(c, Idle)
    BY Types, IdleType DEF IInv, Bail, Follows
  <1>2. told' \in [Clients -> {"nothing", "claimed", "running", "resolving"}]
        /\ faults' \in 0 .. MaxFaults
    BY DEF IInv, TypeOK, Bail
  <1> QED BY <1>1, <1>2, IdleType, CallChanges DEF Bail

LEMMA SwapFailsStep ==
    ASSUME IInv, NEW c \in Clients, SwapFails(c)
    PROVE  IInv'
  <1>1. Follows(c, Idle)
    BY IdleType DEF Follows
  <1>2. told' \in [Clients -> {"nothing", "claimed", "running", "resolving"}]
        /\ faults' \in 0 .. MaxFaults
    BY TasksAssumption DEF IInv, TypeOK, SwapFails
  <1> QED BY <1>1, <1>2, IdleType, CallChanges DEF SwapFails

-----------------------------------------------------------------------------
(* The calls write.                                                        *)

\* CompareAndSwapByIndex of a call that is fresh, answered or not.
LEMMA ApplyStep ==
    ASSUME IInv, NEW c \in Clients, call[c].fresh, NEW mine \in Calls, ~mine.fresh,
           Apply(c, mine), UNCHANGED <<present, desires, crashes>>,
           told' \in [Clients -> {"nothing", "claimed", "running", "resolving"}],
           faults' \in 0 .. MaxFaults
    PROVE  IInv'
  <1> DEFINE new == call[c].new
  <1>1. new \in Task /\ Follows(c, call[c]) /\ node' = new
    BY Types DEF IInv, FreshCalls, Apply, Write
  <1>2. call[c].op \in {"claim", "start", "complete", "resolving"}
    BY Types DEF IInv, Calls, Apply
  <1>3. starts' \in Seq(Executors) /\ lapsed' \in BOOLEAN
    <2>1. CASE call[c].op = "start"
      BY <1>1, <2>1 DEF IInv, TypeOK, Apply, Follows, Starts
    <2>2. CASE call[c].op # "start"
      BY <2>2 DEF IInv, TypeOK, Apply
    <2> QED BY <2>1, <2>2
  <1>4. TypeOK' /\ FreshCalls' /\ ListedPass' /\ SwapPass'
    <2>1. present' \subseteq Executors /\ desires' \in 0 .. MaxDesires /\ crashes' \in 0 .. MaxCrashes
      BY DEF IInv, TypeOK
    <2>2. Write(new, c, mine)
      BY DEF Apply
    <2> QED BY <1>1, <1>3, <2>1, <2>2, WriteKeeps
  <1>5. CASE call[c].op = "claim"
    <2>1. node.state = "pending" /\ new.state = "claimed" /\ new.executor = c
      BY <1>1, <1>5 DEF Follows, Claims
    <2>2. lapsed' = (c \notin present) /\ starts' = starts
      BY <1>5 DEF Apply
    <2>3. AbsentOnly' /\ GoneLapsed' /\ StartsOnce'
      BY <1>1, <2>1, <2>2 DEF IInv, AbsentOnly, GoneLapsed, StartsOnce
    <2> QED BY <1>4, <2>3 DEF IInv
  <1>6. CASE call[c].op = "start"
    <2>1. /\ node.state = "claimed" /\ node.executor = c
          /\ new.state = "running" /\ new.executor = c
      BY <1>1, <1>6 DEF Follows, Starts
    <2>2. lapsed' = lapsed /\ starts' = Append(starts, c) /\ starts = <<>>
      BY <1>6, <2>1 DEF Apply, IInv, StartsOnce
    <2>3. starts' = <<c>> /\ Len(starts') = 1
      BY <2>2
    <2>4. AbsentOnly' /\ GoneLapsed' /\ StartsOnce'
      BY <1>1, <2>1, <2>2, <2>3 DEF IInv, AbsentOnly, GoneLapsed, StartsOnce
    <2> QED BY <1>4, <2>4 DEF IInv
  <1>7. CASE call[c].op \in {"complete", "resolving"}
    <2>1. new.state \in {"completed", "resolving"}
      BY <1>1, <1>7 DEF Follows, Completes, Resolves
    <2>2. starts' = starts
      BY <1>7 DEF Apply
    <2>3. AbsentOnly' /\ GoneLapsed' /\ StartsOnce'
      BY <1>1, <2>1, <2>2 DEF IInv, AbsentOnly, GoneLapsed, StartsOnce
    <2> QED BY <1>4, <2>3 DEF IInv
  <1> QED BY <1>2, <1>5, <1>6, <1>7

LEMMA CompareAndSwapStep ==
    ASSUME IInv, NEW c \in Clients, CompareAndSwapByIndex(c)
    PROVE  IInv'
  <1>1. told' \in [Clients -> {"nothing", "claimed", "running", "resolving"}]
    BY DEF IInv, TypeOK, CompareAndSwapByIndex, Tells
  <1>2. faults' \in 0 .. MaxFaults
    BY DEF IInv, TypeOK, CompareAndSwapByIndex
  <1> QED BY <1>1, <1>2, IdleType, ApplyStep DEF CompareAndSwapByIndex

LEMMA AnswerLostStep ==
    ASSUME IInv, NEW c \in Clients, AnswerLost(c)
    PROVE  IInv'
  <1>1. Stale(call[c]) \in Calls /\ ~Stale(call[c]).fresh
    BY Types, StaleCall DEF IInv
  <1>2. told' \in [Clients -> {"nothing", "claimed", "running", "resolving"}]
    BY DEF IInv, TypeOK, AnswerLost
  <1>3. faults' \in 0 .. MaxFaults
    BY TasksAssumption DEF IInv, TypeOK, AnswerLost
  <1> QED BY <1>1, <1>2, <1>3, ApplyStep DEF AnswerLost

\* A deletion, by whoever: the history of starts stays.
LEMMA GoneKeeps ==
    ASSUME IInv, node' = Absent, starts' = starts
    PROVE  AbsentOnly' /\ GoneLapsed' /\ StartsOnce'
  BY AbsentType DEF IInv, AbsentOnly, GoneLapsed, StartsOnce

LEMMA DeleteTaskStep ==
    ASSUME IInv, NEW c \in Clients, DeleteTask(c)
    PROVE  IInv'
  <1>1. told' \in [Clients -> {"nothing", "claimed", "running", "resolving"}]
    BY DEF IInv, TypeOK, DeleteTask
  <1>2. Write(Absent, c, Idle) /\ starts' = starts
    BY DEF DeleteTask
  <1>3. /\ present' \subseteq Executors /\ desires' \in 0 .. MaxDesires
        /\ faults' \in 0 .. MaxFaults /\ crashes' \in 0 .. MaxCrashes
        /\ lapsed' \in BOOLEAN /\ starts' \in Seq(Executors)
    BY DEF IInv, TypeOK, DeleteTask
  <1>4. TypeOK' /\ FreshCalls' /\ ListedPass' /\ SwapPass'
    BY <1>1, <1>2, <1>3, AbsentType, IdleType, WriteKeeps
  <1>5. node' = Absent
    BY <1>2 DEF Write
  <1> QED BY <1>2, <1>4, <1>5, GoneKeeps DEF IInv

LEMMA DesireTaskStep ==
    ASSUME IInv, NEW valid \in Validity, DesireTask(valid)
    PROVE  IInv'
  <1> DEFINE new == [Absent EXCEPT !.state = "pending", !.valid = valid]
  <1>1. valid \in BOOLEAN
    BY DEF Validity, NewTaskFromJSON, Parses, ToJSON
  <1>2. new \in Task /\ new.state = "pending"
    BY <1>1, AbsentType DEF Task, States
  <1>3. Write(new, NoOne, Idle) /\ starts' = <<>>
    BY DEF DesireTask
  <1>4. /\ present' \subseteq Executors /\ desires' \in 0 .. MaxDesires
        /\ faults' \in 0 .. MaxFaults /\ crashes' \in 0 .. MaxCrashes
        /\ lapsed' \in BOOLEAN /\ starts' \in Seq(Executors)
        /\ told' \in [Clients -> {"nothing", "claimed", "running", "resolving"}]
    BY TasksAssumption DEF IInv, TypeOK, DesireTask
  <1> HIDE DEF new
  <1>5. TypeOK' /\ FreshCalls' /\ ListedPass' /\ SwapPass'
    BY <1>2, <1>3, <1>4, IdleType, WriteKeeps
  <1>6. node' = new
    BY <1>3 DEF Write
  <1>7. AbsentOnly' /\ GoneLapsed' /\ StartsOnce'
    BY <1>2, <1>3, <1>6 DEF AbsentOnly, GoneLapsed, StartsOnce
  <1> QED BY <1>5, <1>7 DEF IInv

-----------------------------------------------------------------------------
(* ConvergeTask.                                                           *)

LEMMA Demotions ==
    ASSUME NEW t \in Task
    PROVE  /\ markTaskFailed(t) \in Task /\ markTaskFailed(t).state = "completed"
           /\ demoteToPending(t) \in Task /\ demoteToPending(t).state = "pending"
           /\ demoteToCompleted(t) \in Task /\ demoteToCompleted(t).state = "completed"
           /\ demoteToCompleted(t).failed = t.failed
  BY DEF Task, States, markTaskFailed, demoteToPending, demoteToCompleted

\* What convergence makes of a task repairs it, and fails a claimed or running
\* one only if its executor is not there.
LEMMA ConvergedRepairs ==
    ASSUME NEW t \in Task, t.state # "absent", NEW n \in Converged(t)
    PROVE  /\ n \in Task /\ n.state # "absent" /\ Repairs(t, n)
           /\ t.state \in {"claimed", "running"} /\ n.state = "completed"
                => t.executor \notin present
  <1> USE Demotions DEF Repairs
  <1>1. CASE t.state = "pending"
    <2>1. n \in ConvergePending(t)
      BY <1>1 DEF Converged
    <2> QED BY <1>1, <2>1 DEF ConvergePending
  <1>2. CASE t.state = "claimed"
    <2>1. n \in ConvergeClaimed(t)
      BY <1>2 DEF Converged
    <2> QED BY <1>2, <2>1 DEF ConvergeClaimed, executorIsAlive
  <1>3. CASE t.state = "running"
    <2>1. n \in ConvergeRunning(t)
      BY <1>3 DEF Converged
    <2> QED BY <1>3, <2>1 DEF ConvergeRunning, executorIsAlive
  <1>4. CASE t.state = "completed"
    <2>1. n \in ConvergeCompleted(t)
      BY <1>4 DEF Converged
    <2> QED BY <1>4, <2>1 DEF ConvergeCompleted
  <1>5. CASE t.state = "resolving"
    <2>1. n \in ConvergeResolving(t)
      BY <1>5 DEF Converged
    <2> QED BY <1>5, <2>1 DEF ConvergeResolving
  <1>6. t.state \in {"pending", "claimed", "running", "completed", "resolving"}
    BY DEF Task, States
  <1> QED BY <1>1, <1>2, <1>3, <1>4, <1>5, <1>6

\* A pass that goes on or ends and leaves the board alone.
LEMMA PassChanges ==
    ASSUME IInv, conv' \in Passes, ListedPass', SwapPass', faults' \in 0 .. MaxFaults,
           UNCHANGED <<node, present, call, told, desires, crashes, lapsed, starts>>
    PROVE  IInv'
  <1>1. TypeOK'
    BY Zenon DEF IInv, TypeOK, Passes
  <1>2. FreshCalls'
    BY DEF IInv, FreshCalls, Follows, Claims, Starts, Completes, Resolves
  <1>3. AbsentOnly' /\ GoneLapsed' /\ StartsOnce'
    BY DEF IInv, AbsentOnly, GoneLapsed, StartsOnce
  <1> QED BY <1>1, <1>2, <1>3 DEF IInv

LEMMA PassEnds ==
    ASSUME conv' = NoPass
    PROVE  conv' \in Passes /\ ListedPass' /\ SwapPass'
  BY NoPassType DEF ListedPass, SwapPass

LEMMA ConvergeListStep ==
    ASSUME IInv, ConvergeList
    PROVE  IInv'
  <1>1. conv' = [pc |-> "listed", new |-> node, fresh |-> TRUE] /\ node \in Task
        /\ node.state # "absent" /\ node' = node
    BY Types DEF IInv, AbsentOnly, ConvergeList
  <1>2. conv' \in Passes /\ ListedPass' /\ SwapPass'
    BY <1>1 DEF Passes, ListedPass, SwapPass
  <1>3. faults' \in 0 .. MaxFaults
    BY DEF IInv, TypeOK, ConvergeList
  <1> QED BY <1>2, <1>3, PassChanges DEF ConvergeList

LEMMA ConvergeDecideStep ==
    ASSUME IInv, ConvergeDecide
    PROVE  IInv'
  <1>1. conv \in Passes /\ conv.new \in Task /\ conv.pc = "listed" /\ conv.new.state # "absent"
        /\ (conv.fresh => conv.new = node) /\ conv.fresh \in BOOLEAN
    BY Types DEF IInv, ListedPass, ConvergeDecide, Passes
  <1>2. faults' \in 0 .. MaxFaults
    BY DEF IInv, TypeOK, ConvergeDecide
  <1>3. CASE ~conv.new.valid
    <2>1. conv' = [conv EXCEPT !.pc = "delete"]
      BY <1>3 DEF ConvergeDecide
    <2>2. conv' \in Passes /\ ListedPass' /\ SwapPass'
      BY <1>1, <2>1 DEF Passes, ListedPass, SwapPass
    <2> QED BY <1>2, <2>2, PassChanges DEF ConvergeDecide
  <1>4. CASE conv.new.valid /\ Converged(conv.new) = {}
    <2>1. conv' = NoPass
      BY <1>4 DEF ConvergeDecide
    <2> QED BY <1>2, <2>1, PassEnds, PassChanges DEF ConvergeDecide
  <1>5. CASE conv.new.valid /\ Converged(conv.new) # {}
    <2> DEFINE n == CHOOSE t \in Converged(conv.new) : TRUE
               new == [n EXCEPT !.updated = 0]
    <2>1. n \in Converged(conv.new)
      BY <1>5
    <2> HIDE DEF n
    <2>2. /\ n \in Task /\ n.state # "absent" /\ Repairs(conv.new, n)
          /\ conv.new.state \in {"claimed", "running"} /\ n.state = "completed"
               => conv.new.executor \notin present
      BY <1>1, <2>1, ConvergedRepairs
    <2>3. new \in Task /\ new.state = n.state /\ new.failed = n.failed
      <3>1. 0 \in 0 .. ConvergenceInterval
        BY TasksAssumption
      <3> QED BY <2>2, <3>1 DEF Task
    <2>4. conv' = [conv EXCEPT !.pc = "swap", !.new = new]
      BY <1>5 DEF ConvergeDecide, n
    <2> HIDE DEF new
    <2>5. conv' \in Passes /\ conv'.pc = "swap" /\ conv'.new = new /\ conv'.fresh = conv.fresh
      BY <1>1, <2>3, <2>4 DEF Passes
    <2>6. ListedPass'
      BY <2>5 DEF ListedPass
    <2>7. SwapPass'
      <3>1. conv.fresh => Repairs(node, new)
        BY <1>1, <2>2, <2>3 DEF Repairs
      <3>2. conv.fresh /\ node.state \in {"claimed", "running"} /\ new.state = "completed" => lapsed
        BY <1>1, <2>2, <2>3 DEF IInv, GoneLapsed
      <3>3. node' = node /\ lapsed' = lapsed
        BY DEF ConvergeDecide
      <3> QED BY <2>2, <2>3, <2>5, <3>1, <3>2, <3>3 DEF SwapPass, Repairs
    <2> QED BY <1>2, <2>5, <2>6, <2>7, PassChanges DEF ConvergeDecide
  <1> QED BY <1>3, <1>4, <1>5

\* The converger's writes, of a repaired node or of none.
LEMMA ConvergerWritesStep ==
    ASSUME IInv, NEW new \in Task, ConvergerWrites(new), conv' = NoPass,
           UNCHANGED <<present, told, faults, desires, crashes, lapsed, starts>>
    PROVE  TypeOK' /\ FreshCalls' /\ ListedPass' /\ SwapPass' /\ node' = new
  <1>1. \A d \in Clients : Stale(call[d]) \in Calls /\ ~Stale(call[d]).fresh
    BY Types, StaleCall DEF IInv
  <1>2. node' = new /\ call' \in [Clients -> Calls] /\ \A d \in Clients : ~call'[d].fresh
    BY <1>1 DEF ConvergerWrites
  <1>3. TypeOK'
    BY <1>2, NoPassType, Zenon DEF IInv, TypeOK, Calls, Passes
  <1>4. FreshCalls'
    BY <1>2 DEF FreshCalls, Follows
  <1> QED BY <1>2, <1>3, <1>4, PassEnds

LEMMA ConvergeSwapStep ==
    ASSUME IInv, ConvergeSwap
    PROVE  IInv'
  <1>1. CASE conv.fresh /\ ConvergerWrites(conv.new) /\ faults' = faults
    <2>1. Repairs(node, conv.new) /\ conv.new \in Task /\ conv.new.state # "absent"
      BY <1>1, Types DEF IInv, SwapPass, ConvergeSwap
    <2>2. TypeOK' /\ FreshCalls' /\ ListedPass' /\ SwapPass' /\ node' = conv.new
      BY <1>1, <2>1, ConvergerWritesStep DEF ConvergeSwap
    <2>3. starts' = starts /\ conv.new.state \notin {"claimed", "running"}
      BY <2>1 DEF ConvergeSwap, Repairs, IInv, TypeOK, Task, States
    <2>4. AbsentOnly' /\ GoneLapsed' /\ StartsOnce'
      BY <2>1, <2>2, <2>3 DEF IInv, Repairs, AbsentOnly, GoneLapsed, StartsOnce, TypeOK, Task, States
    <2> QED BY <2>2, <2>4 DEF IInv
  <1>2. CASE UNCHANGED <<node, call>> /\ (faults' = faults \/ (faults < MaxFaults /\ faults' = faults + 1))
    <2>1. faults' \in 0 .. MaxFaults
      BY <1>2, TasksAssumption DEF IInv, TypeOK
    <2> QED BY <1>2, <2>1, PassEnds, PassChanges DEF ConvergeSwap
  <1> QED BY <1>1, <1>2 DEF ConvergeSwap

LEMMA ConvergeDeleteStep ==
    ASSUME IInv, ConvergeDelete
    PROVE  IInv'
  <1>1. CASE ConvergerWrites(Absent) /\ faults' = faults
    <2>1. TypeOK' /\ FreshCalls' /\ ListedPass' /\ SwapPass' /\ node' = Absent
      BY <1>1, AbsentType, ConvergerWritesStep DEF ConvergeDelete
    <2> QED BY <2>1, GoneKeeps DEF IInv, ConvergeDelete
  <1>2. CASE UNCHANGED <<node, call>> /\ faults < MaxFaults /\ faults' = faults + 1
    <2>1. faults' \in 0 .. MaxFaults
      BY <1>2, TasksAssumption DEF IInv, TypeOK
    <2> QED BY <1>2, <2>1, PassEnds, PassChanges DEF ConvergeDelete
  <1> QED BY <1>1, <1>2 DEF ConvergeDelete

-----------------------------------------------------------------------------
(* The surroundings.                                                       *)

LEMMA TickStep ==
    ASSUME IInv, Tick
    PROVE  IInv'
  <1>1. node \in Task /\ conv \in Passes /\ conv.new \in Task
    BY Types DEF IInv
  <1>2. /\ node' \in Task /\ node'.state = node.state /\ node'.executor = node.executor
        /\ node'.failed = node.failed
    BY <1>1, OlderKeeps DEF Tick
  <1>3. \A c \in Clients :
          /\ call'[c] \in Calls /\ call'[c].op = call[c].op /\ call'[c].fresh = call[c].fresh
          /\ call'[c].new.state = call[c].new.state /\ call'[c].new.executor = call[c].new.executor
          /\ call'[c].new.failed = call[c].new.failed
    <2> SUFFICES ASSUME NEW c \in Clients
                 PROVE  /\ call'[c] \in Calls /\ call'[c].op = call[c].op
                        /\ call'[c].fresh = call[c].fresh
                        /\ call'[c].new.state = call[c].new.state
                        /\ call'[c].new.executor = call[c].new.executor
                        /\ call'[c].new.failed = call[c].new.failed
      OBVIOUS
    <2>1. call[c] \in Calls /\ call[c].new \in Task
      BY Types DEF IInv
    <2>2. call'[c] = [call[c] EXCEPT !.new = Older(call[c].new)]
      BY DEF Tick
    <2>3. call'[c] \in Calls /\ call'[c].op = call[c].op /\ call'[c].fresh = call[c].fresh
          /\ call'[c].new = Older(call[c].new)
      BY <2>1, <2>2, OlderKeeps DEF Calls
    <2> QED BY <2>1, <2>3, OlderKeeps
  <1>4. /\ conv' \in Passes /\ conv'.pc = conv.pc /\ conv'.fresh = conv.fresh
        /\ conv'.new = Older(conv.new)
    BY <1>1, OlderKeeps DEF Tick, Passes
  <1>5. conv'.new.state = conv.new.state /\ conv'.new.failed = conv.new.failed
    BY <1>1, <1>4, OlderKeeps
  <1>6. TypeOK'
    <2>1. call' \in [Clients -> Calls]
      BY <1>3 DEF Tick
    <2> QED BY <1>2, <1>4, <2>1, Zenon DEF IInv, TypeOK, Tick, Calls, Passes
  <1>7. FreshCalls'
    BY <1>2, <1>3 DEF IInv, FreshCalls, Follows, Claims, Starts, Completes, Resolves
  <1>8. ListedPass'
    BY <1>4, <1>5 DEF IInv, ListedPass, Tick
  <1>9. SwapPass'
    BY <1>2, <1>4, <1>5 DEF IInv, SwapPass, Repairs, Tick
  <1>10. AbsentOnly' /\ GoneLapsed' /\ StartsOnce'
    BY <1>2 DEF IInv, AbsentOnly, GoneLapsed, StartsOnce, Tick
  <1> QED BY <1>6, <1>7, <1>8, <1>9, <1>10 DEF IInv

\* Presences come and go, and with them the calls of who dies.
LEMMA PresenceChanges ==
    ASSUME IInv, present' \subseteq Executors, lapsed' \in BOOLEAN, lapsed => lapsed',
           GoneLapsed', crashes' \in 0 .. MaxCrashes,
           told' \in [Clients -> {"nothing", "claimed", "running", "resolving"}],
           call' \in [Clients -> Calls],
           \A c \in Clients : call'[c] = call[c] \/ ~call'[c].fresh,
           UNCHANGED <<node, conv, faults, desires, starts>>
    PROVE  IInv'
  <1>1. TypeOK'
    BY Zenon DEF IInv, TypeOK, Calls, Passes
  <1>2. FreshCalls'
    BY DEF IInv, FreshCalls, Follows, Claims, Starts, Completes, Resolves
  <1>3. AbsentOnly' /\ ListedPass' /\ StartsOnce'
    BY DEF IInv, AbsentOnly, ListedPass, StartsOnce
  <1>4. SwapPass'
    BY DEF IInv, SwapPass, Repairs
  <1> QED BY <1>1, <1>2, <1>3, <1>4 DEF IInv

LEMMA AppearStep ==
    ASSUME IInv, NEW e \in Executors, Appear(e)
    PROVE  IInv'
  <1>1. /\ present' \subseteq Executors /\ lapsed' \in BOOLEAN /\ crashes' \in 0 .. MaxCrashes
        /\ told' \in [Clients -> {"nothing", "claimed", "running", "resolving"}]
    BY DEF IInv, TypeOK, Appear
  <1>2. call' \in [Clients -> Calls]
    BY Types DEF IInv, Appear
  <1>3. GoneLapsed'
    BY DEF IInv, GoneLapsed, Appear
  <1> QED BY <1>1, <1>2, <1>3, PresenceChanges DEF Appear

LEMMA LapseStep ==
    ASSUME IInv, NEW e \in Executors, Lapse(e)
    PROVE  IInv'
  <1>1. /\ present' \subseteq Executors /\ lapsed' \in BOOLEAN
        /\ told' \in [Clients -> {"nothing", "claimed", "running", "resolving"}]
    BY DEF IInv, TypeOK, Lapse
  <1>2. call' \in [Clients -> Calls]
    BY Types DEF IInv, Lapse
  <1>3. crashes' \in 0 .. MaxCrashes
    BY TasksAssumption DEF IInv, TypeOK, Lapse
  <1>4. GoneLapsed' /\ (lapsed => lapsed')
    BY DEF IInv, GoneLapsed, Lapse
  <1> QED BY <1>1, <1>2, <1>3, <1>4, PresenceChanges DEF Lapse

LEMMA CrashStep ==
    ASSUME IInv, NEW c \in Clients, Crash(c)
    PROVE  IInv'
  <1>1. /\ present' \subseteq Executors /\ lapsed' \in BOOLEAN
        /\ told' \in [Clients -> {"nothing", "claimed", "running", "resolving"}]
    BY DEF IInv, TypeOK, Crash
  <1>2. /\ call' \in [Clients -> Calls]
        /\ \A d \in Clients : call'[d] = call[d] \/ ~call'[d].fresh
    BY Types, IdleType DEF IInv, Crash
  <1>3. crashes' \in 0 .. MaxCrashes
    BY TasksAssumption DEF IInv, TypeOK, Crash
  <1>4. GoneLapsed' /\ (lapsed => lapsed')
    BY DEF IInv, GoneLapsed, Crash
  <1> QED BY <1>1, <1>2, <1>3, <1>4, PresenceChanges DEF Crash

-----------------------------------------------------------------------------
LEMMA IInvStep == IInv /\ [Next]_vars => IInv'
  <1> SUFFICES ASSUME IInv, [Next]_vars PROVE IInv'
    OBVIOUS
  <1>1. ASSUME NEW valid \in Validity, DesireTask(valid) PROVE IInv'
    BY <1>1, DesireTaskStep
  <1>2. ASSUME NEW e \in Executors, ClaimTask(e) \/ StartTask(e) \/ Appear(e) \/ Lapse(e)
        PROVE  IInv'
    BY <1>2, ClaimTaskStep, StartTaskStep, AppearStep, LapseStep
  <1>3. ASSUME NEW e \in Executors, NEW failed \in BOOLEAN, CompleteTask(e, failed)
        PROVE  IInv'
    BY <1>3, CompleteTaskStep
  <1>4. ASSUME NEW s \in Stagers, ResolvingTask(s) \/ ResolveTask(s) PROVE IInv'
    BY <1>4, ResolvingTaskStep, ResolveTaskStep
  <1>5. ASSUME NEW c \in Clients,
               \/ Bail(c) \/ CompareAndSwapByIndex(c) \/ AnswerLost(c)
               \/ SwapFails(c) \/ DeleteTask(c) \/ Crash(c)
        PROVE  IInv'
    BY <1>5, BailStep, CompareAndSwapStep, AnswerLostStep, SwapFailsStep, DeleteTaskStep, CrashStep
  <1>6. CASE Converge
    BY <1>6, ConvergeListStep, ConvergeDecideStep, ConvergeSwapStep, ConvergeDeleteStep DEF Converge
  <1>7. CASE Tick
    BY <1>7, TickStep
  <1>8. CASE UNCHANGED vars
    BY <1>8 DEF vars, IInv, TypeOK, AbsentOnly, FreshCalls, Follows, Claims, Starts, Completes,
                Resolves, ListedPass, SwapPass, Repairs, GoneLapsed, StartsOnce
  <1> QED BY <1>1, <1>2, <1>3, <1>4, <1>5, <1>6, <1>7, <1>8 DEF Next

LEMMA SpecIInv == Spec => []IInv
  BY Initially, IInvStep, PTL DEF Spec

-----------------------------------------------------------------------------
\* StartTask: a desired task is started at most once, by the executor its node
\* names, whatever the converger, lost answers and crashes do in between.
THEOREM TaskStartedOnce == Spec => []StartedAtMostOnce
  <1>1. IInv => StartedAtMostOnce
    BY DEF IInv, StartsOnce, StartedAtMostOnce
  <1> QED BY SpecIInv, <1>1, PTL

-----------------------------------------------------------------------------
(* Who changes the node, and to what.                                      *)

ByCall(c) ==
    /\ call[c].fresh /\ call[c].op \in {"claim", "start", "complete", "resolving"}
    /\ node' = call[c].new /\ conv'.pc = conv.pc
ByConverger == conv.pc = "swap" /\ conv.fresh /\ node' = conv.new

LEMMA Writers ==
    ASSUME IInv, Next
    PROVE  \/ node' = node \/ node = Absent \/ node' = Absent
           \/ node' = Older(node)
           \/ \E c \in Clients : ByCall(c)
           \/ ByConverger
  <1>1. ASSUME NEW valid \in Validity, DesireTask(valid) PROVE node = Absent
    BY <1>1 DEF DesireTask
  <1>2. ASSUME NEW e \in Executors, ClaimTask(e) \/ StartTask(e) \/ Appear(e) \/ Lapse(e)
        PROVE  node' = node
    BY <1>2 DEF ClaimTask, StartTask, Appear, Lapse, Read
  <1>3. ASSUME NEW e \in Executors, NEW failed \in BOOLEAN, CompleteTask(e, failed)
        PROVE  node' = node
    BY <1>3 DEF CompleteTask, Read
  <1>4. ASSUME NEW s \in Stagers, ResolvingTask(s) \/ ResolveTask(s) PROVE node' = node
    BY <1>4 DEF ResolvingTask, ResolveTask, Read
  <1>5. ASSUME NEW c \in Clients, Bail(c) \/ SwapFails(c) \/ Crash(c) PROVE node' = node
    BY <1>5 DEF Bail, SwapFails, Crash
  <1>6. ASSUME NEW c \in Clients, DeleteTask(c) PROVE node' = Absent
    BY <1>6 DEF DeleteTask, Write
  <1>7. ASSUME NEW c \in Clients, CompareAndSwapByIndex(c) \/ AnswerLost(c) PROVE ByCall(c)
    <2>1. call[c].fresh /\ call[c].op \notin {"idle", "resolve"} /\ node' = call[c].new
          /\ conv' = Stale(conv)
      BY <1>7 DEF CompareAndSwapByIndex, AnswerLost, Apply, Write
    <2>2. call[c] \in Calls /\ conv'.pc = conv.pc
      BY <2>1, Types, StalePass DEF IInv
    <2> QED BY <2>1, <2>2 DEF ByCall, Calls
  <1>8. CASE Converge
    BY <1>8 DEF Converge, ConvergeList, ConvergeDecide, ConvergeSwap, ConvergeDelete,
                ConvergerWrites, ByConverger
  <1>9. CASE Tick
    BY <1>9 DEF Tick
  <1> QED BY <1>1, <1>2, <1>3, <1>4, <1>5, <1>6, <1>7, <1>8, <1>9 DEF Next

\* CompleteTask, markTaskFailed, the kicks and the demotions: the result of a
\* completed task stays as it is until the task is deleted, and it never runs
\* again.
THEOREM TaskResultStays == Spec => ResultStays
  <1>1. IInv /\ [Next]_vars =>
          [node.state \in {"completed", "resolving"} /\ node'.state # "absent"
             => node'.state \in {"completed", "resolving"} /\ node'.failed = node.failed]_vars
    <2> SUFFICES ASSUME IInv, Next, node.state \in {"completed", "resolving"},
                        node'.state # "absent"
                 PROVE  node'.state \in {"completed", "resolving"} /\ node'.failed = node.failed
      OBVIOUS
    <2>1. CASE node' = node \/ node = Absent \/ node' = Absent
      BY <2>1, AbsentType
    <2>2. CASE node' = Older(node)
      BY <2>2, Types, OlderKeeps DEF IInv
    <2>3. ASSUME NEW c \in Clients, ByCall(c)
          PROVE  node'.state \in {"completed", "resolving"} /\ node'.failed = node.failed
      BY <2>3 DEF IInv, FreshCalls, Follows, Claims, Starts, Completes, Resolves, ByCall
    <2>4. CASE ByConverger
      BY <2>4 DEF ByConverger, IInv, SwapPass, Repairs
    <2> QED BY <2>1, <2>2, <2>3, <2>4, Writers
  <1> QED BY <1>1, SpecIInv, PTL DEF Spec, ResultStays

\* ConvergeTask: "executor disappeared" is said only of an executor whose
\* presence lapsed since its claim.
THEOREM TaskFailedOnlyIfLapsed == Spec => FailedOnlyIfLapsed
  <1>1. IInv /\ [Next]_vars =>
          [node.state \in {"claimed", "running"} /\ node'.state = "completed"
             /\ conv.pc = "swap" /\ conv'.pc = "idle" => lapsed]_vars
    <2> SUFFICES ASSUME IInv, Next, node.state \in {"claimed", "running"},
                        node'.state = "completed", conv.pc = "swap", conv'.pc = "idle"
                 PROVE  lapsed
      OBVIOUS
    <2>1. CASE node' = node \/ node = Absent \/ node' = Absent
      BY <2>1, AbsentType
    <2>2. CASE node' = Older(node)
      BY <2>2, Types, OlderKeeps DEF IInv
    <2>3. \A c \in Clients : ~ByCall(c)
      BY DEF ByCall
    <2>4. CASE ByConverger
      BY <2>4 DEF ByConverger, IInv, SwapPass
    <2> QED BY <2>1, <2>2, <2>3, <2>4, Writers
  <1> QED BY <1>1, SpecIInv, PTL DEF Spec, FailedOnlyIfLapsed
=============================================================================
