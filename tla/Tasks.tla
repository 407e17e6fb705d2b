------------------------------- MODULE Tasks -------------------------------
(***************************************************************************)
(* The life of a task on the bulletin board (task_bbs): stagers desire and *)
(* resolve it, executors claim, start and complete it, and one converger   *)
(* repairs what they leave.  Tasks do not depend on each other; this is    *)
(* the node of one of them.                                                *)
(*                                                                         *)
(* Every operation reads the node and its index (getTask), checks the      *)
(* state and writes a new value with CompareAndSwapByIndex, again and      *)
(* again while the store times out.  etcd never uses an index twice, so a  *)
(* call only has to remember whether the node is still the one it read:    *)
(* fresh.                                                                  *)
(***************************************************************************)
EXTENDS Naturals, Sequences, FiniteSets, Models

CONSTANTS
    Executors, Stagers,
    NoOne,               \* the ExecutorID of a task nobody claimed
    ConvergenceInterval, \* in ticks of the clock
    TimeToClaim,
    MaxFaults,           \* bounds: answers that are lost or errors,
    MaxDesires,          \*         calls of DesireTask,
    MaxCrashes           \*         crashes of executors

ASSUME TasksAssumption ==
    /\ NoOne \notin Executors \cup Stagers /\ Executors \cap Stagers = {}
    /\ ConvergenceInterval \in Nat /\ TimeToClaim \in Nat
    /\ MaxFaults \in Nat /\ MaxDesires \in Nat /\ MaxCrashes \in Nat

VARIABLES
    node,     \* the node under TaskSchemaRoot
    present,  \* the executors with a node under ExecutorSchemaRoot
    call,     \* the call of each client that is about to write
    told,     \* what the calls that succeeded told each client
    conv,     \* the converger's pass
    faults, desires, crashes,
    lapsed,   \* history: the executor's presence lapsed since its claim
    starts    \* history: whose StartTask was applied since DesireTask, in order

vars == <<node, present, call, told, conv, faults, desires, crashes, lapsed, starts>>

Clients == Executors \cup Stagers
States  == {"absent", "pending", "claimed", "running", "completed", "resolving"}

\* valid: NewTaskFromJSON accepts the value.  updated and created are the
\* ticks since UpdatedAt and CreatedAt, up to the durations that matter.
Task == [state : States, valid : BOOLEAN, executor : Executors \cup {NoOne},
         failed : BOOLEAN, updated : 0 .. ConvergenceInterval, created : 0 .. TimeToClaim]
Absent == [state |-> "absent", valid |-> TRUE, executor |-> NoOne,
           failed |-> FALSE, updated |-> 0, created |-> 0]
NoPass == [pc |-> "idle", new |-> Absent, fresh |-> FALSE]
Idle == [op |-> "idle", new |-> Absent, fresh |-> FALSE]

TypeOK ==
    /\ node \in Task
    /\ present \subseteq Executors
    /\ call \in [Clients -> [op : {"idle", "claim", "start", "complete", "resolving", "resolve"},
                             new : Task, fresh : BOOLEAN]]
    /\ told \in [Clients -> {"nothing", "claimed", "running", "resolving"}]
    /\ conv \in [pc : {"idle", "listed", "swap", "delete"}, new : Task, fresh : BOOLEAN]
    /\ faults \in 0 .. MaxFaults /\ desires \in 0 .. MaxDesires /\ crashes \in 0 .. MaxCrashes
    /\ lapsed \in BOOLEAN /\ starts \in Seq(Executors)

Init ==
    /\ node = Absent /\ present = {}
    /\ call = [c \in Clients |-> Idle]
    /\ told = [c \in Clients |-> "nothing"]
    /\ conv = NoPass
    /\ faults = 0 /\ desires = 0 /\ crashes = 0 /\ lapsed = FALSE /\ starts = <<>>

-----------------------------------------------------------------------------
(* The store.                                                              *)

Stale(r) == [r EXCEPT !.fresh = FALSE]

\* A write of the node gives it a new index: no read of it is fresh any more.
\* c's own call goes on as mine.
Write(new, c, mine) ==
    /\ node' = new
    /\ call' = [d \in Clients |-> IF d = c THEN mine ELSE Stale(call[d])]
    /\ conv' = Stale(conv)

\* getTask, the check of the state and the value to write.
Read(c, op, guard, new) ==
    /\ call[c] = Idle
    /\ node.state # "absent" /\ node.valid
    /\ guard
    /\ call' = [call EXCEPT ![c] = [op |-> op, new |-> [new EXCEPT !.updated = 0],
                                    fresh |-> TRUE]]
    /\ UNCHANGED <<node, present, told, conv, faults, desires, crashes, lapsed, starts>>

-----------------------------------------------------------------------------
(* The operations: who calls them, when, and what they write.              *)

\* A task without actions or stack is stored all the same.
Validity == {NewTaskFromJSON(ToJSON(set)) : set \in SUBSET TaskFields}

\* Create.
DesireTask(valid) ==
    /\ desires < MaxDesires
    /\ node = Absent
    /\ desires' = desires + 1
    /\ Write([Absent EXCEPT !.state = "pending", !.valid = valid], NoOne, Idle)
    /\ starts' = <<>>
    /\ UNCHANGED <<present, told, faults, crashes, lapsed>>

ClaimTask(e) ==
    /\ told[e] = "nothing" /\ e \in present
    /\ Read(e, "claim", node.state = "pending",
            [node EXCEPT !.state = "claimed", !.executor = e])

\* The mutant of StartTask: an executor starts what another one claimed.
StartTaskOfAnyone(e) ==
    /\ told[e] = "claimed"
    /\ Read(e, "start", node.state = "claimed", [node EXCEPT !.state = "running"])

StartTask(e) ==
    /\ told[e] = "claimed"
    /\ Read(e, "start", node.state = "claimed" /\ node.executor = e,
            [node EXCEPT !.state = "running"])

\* CompleteTask does not check who calls it.
CompleteTask(e, failed) ==
    /\ told[e] = "running"
    /\ Read(e, "complete", node.state = "running",
            [node EXCEPT !.state = "completed", !.failed = failed])

ResolvingTask(s) ==
    /\ told[s] = "nothing"
    /\ Read(s, "resolving", node.state = "completed", [node EXCEPT !.state = "resolving"])

\* ResolveTask deletes by key: its index is not looked at again.
ResolveTask(s) ==
    /\ told[s] = "resolving"
    /\ Read(s, "resolve", node.state = "resolving", node)

\* An executor whose node is in another state than it expects, or gone,
\* bails.  The call returned an error before any write.
Bail(c) ==
    /\ call[c] = Idle
    /\ \/ told[c] = "claimed" /\ ~(node.state = "claimed" /\ node.executor = c)
       \/ told[c] = "running" /\ node.state # "running"
       \/ told[c] = "resolving" /\ node.state # "resolving"
    /\ told' = [told EXCEPT ![c] = "nothing"]
    /\ UNCHANGED <<node, present, call, conv, faults, desires, crashes, lapsed, starts>>

Tells(op) == CASE op = "claim" -> "claimed" [] op = "start" -> "running"
               [] op = "resolving" -> "resolving" [] OTHER -> "nothing"

\* The write that a call is about to make, which goes on as mine.
Apply(c, mine) ==
    /\ call[c].op \notin {"idle", "resolve"}
    /\ Write(call[c].new, c, mine)
    /\ lapsed' = IF call[c].op = "claim" THEN c \notin present ELSE lapsed
    /\ starts' = IF call[c].op = "start" THEN Append(starts, c) ELSE starts

\* Mutant of CompareAndSwapByIndex: the index is not compared.
SwapAnyway(c) ==
    /\ node # Absent
    /\ Apply(c, Idle)
    /\ told' = [told EXCEPT ![c] = Tells(call[c].op)]
    /\ UNCHANGED <<present, faults, desires, crashes>>

\* CompareAndSwapByIndex is applied and answered.
CompareAndSwapByIndex(c) ==
    /\ call[c].fresh
    /\ Apply(c, Idle)
    /\ told' = [told EXCEPT ![c] = Tells(call[c].op)]
    /\ UNCHANGED <<present, faults, desires, crashes>>

\* It is applied, the answer is lost (ErrorTimeout) and it is sent again.
AnswerLost(c) ==
    /\ faults < MaxFaults /\ faults' = faults + 1
    /\ call[c].fresh
    /\ Apply(c, Stale(call[c]))
    /\ UNCHANGED <<present, told, desires, crashes>>

\* ErrorKeyComparisonFailed, ErrorKeyNotFound or, while fresh, any other
\* error but a timeout: the caller bails.
SwapFails(c) ==
    /\ call[c].op \notin {"idle", "resolve"}
    /\ IF call[c].fresh THEN faults < MaxFaults /\ faults' = faults + 1
                        ELSE faults' = faults
    /\ call' = [call EXCEPT ![c] = Idle]
    /\ told' = [told EXCEPT ![c] = "nothing"]
    /\ UNCHANGED <<node, present, conv, desires, crashes, lapsed, starts>>

\* The Delete of ResolveTask, of whatever node is there now.
DeleteTask(c) ==
    /\ call[c].op = "resolve"
    /\ Write(Absent, c, Idle)
    /\ told' = [told EXCEPT ![c] = "nothing"]
    /\ UNCHANGED <<present, faults, desires, crashes, lapsed, starts>>

-----------------------------------------------------------------------------
(* ConvergeTask.                                                           *)

shouldKickTask(t)  == t.updated >= ConvergenceInterval
executorIsAlive(t) == t.executor \in present

\* Mutant: a resolving task is only kicked.
demoteToCompletedKick(t) == t

demoteToPending(t)   == [t EXCEPT !.state = "pending", !.executor = NoOne]
demoteToCompleted(t) == [t EXCEPT !.state = "completed"]
markTaskFailed(t)    == [t EXCEPT !.state = "completed", !.failed = TRUE]

\* Mutant: a task that was claimed but not started fails.
ConvergeClaimedFail(t) == {markTaskFailed(x) : x \in {y \in {t} : shouldKickTask(y)}}

\* The cases of the switch: at most one new value is scheduled for a task.
ConvergePending(t) ==
    IF t.created >= TimeToClaim THEN {markTaskFailed(t)} ELSE {x \in {t} : shouldKickTask(t)}
ConvergeClaimed(t) ==
    IF ~executorIsAlive(t) THEN {markTaskFailed(t)}
    ELSE IF shouldKickTask(t) THEN {demoteToPending(t)} ELSE {}
ConvergeRunning(t)   == IF executorIsAlive(t) THEN {} ELSE {markTaskFailed(t)}
ConvergeCompleted(t) == IF shouldKickTask(t) THEN {t} ELSE {}
ConvergeResolving(t) == IF shouldKickTask(t) THEN {demoteToCompleted(t)} ELSE {}

Converged(t) ==
    CASE t.state = "pending"   -> ConvergePending(t)
      [] t.state = "claimed"   -> ConvergeClaimed(t)
      [] t.state = "running"   -> ConvergeRunning(t)
      [] t.state = "completed" -> ConvergeCompleted(t)
      [] t.state = "resolving" -> ConvergeResolving(t)

\* A list that fails ends the pass, as does one without tasks.
ConvergeList ==
    /\ conv.pc = "idle" /\ node # Absent
    /\ conv' = [pc |-> "listed", new |-> node, fresh |-> TRUE]
    /\ UNCHANGED <<node, present, call, told, faults, desires, crashes, lapsed, starts>>

\* The executors are listed after the tasks, and every task is looked at.
ConvergeDecide ==
    /\ conv.pc = "listed"
    /\ conv' = IF ~conv.new.valid THEN [conv EXCEPT !.pc = "delete"]
               ELSE IF Converged(conv.new) = {} THEN NoPass
               ELSE [conv EXCEPT !.pc = "swap",
                         !.new = [(CHOOSE t \in Converged(conv.new) : TRUE) EXCEPT !.updated = 0]]
    /\ UNCHANGED <<node, present, call, told, faults, desires, crashes, lapsed, starts>>

ConvergerWrites(new) ==
    /\ node' = new
    /\ call' = [c \in Clients |-> Stale(call[c])]

\* Mutant of ConvergeSwap: the converger sets the task without its index.
ConvergeSet ==
    /\ conv.pc = "swap"
    /\ ConvergerWrites(conv.new)
    /\ conv' = NoPass
    /\ UNCHANGED <<present, told, faults, desires, crashes, lapsed, starts>>

\* batchCompareAndSwapTasks: one attempt, an error is logged.
ConvergeSwap ==
    /\ conv.pc = "swap"
    /\ \/ conv.fresh /\ ConvergerWrites(conv.new) /\ faults' = faults
       \/ ~conv.fresh /\ UNCHANGED <<node, call, faults>>
       \/ faults < MaxFaults /\ faults' = faults + 1 /\ UNCHANGED <<node, call>>
    /\ conv' = NoPass
    /\ UNCHANGED <<present, told, desires, crashes, lapsed, starts>>

ConvergeDelete ==
    /\ conv.pc = "delete"
    /\ \/ ConvergerWrites(Absent) /\ faults' = faults
       \/ faults < MaxFaults /\ faults' = faults + 1 /\ UNCHANGED <<node, call>>
    /\ conv' = NoPass
    /\ UNCHANGED <<present, told, desires, crashes, lapsed, starts>>

-----------------------------------------------------------------------------
(* The surroundings.                                                       *)

Older(t) == IF t.state = "absent" THEN t
            ELSE [t EXCEPT !.updated = IF @ < ConvergenceInterval THEN @ + 1 ELSE @,
                           !.created = IF @ < TimeToClaim THEN @ + 1 ELSE @]

\* durationSinceTaskCreated and durationSinceTaskUpdated grow, those of the
\* values that calls hold too.
Tick ==
    /\ node # Absent /\ Older(node) # node
    /\ node' = Older(node)
    /\ call' = [c \in Clients |-> [call[c] EXCEPT !.new = Older(@)]]
    /\ conv' = [conv EXCEPT !.new = Older(@)]
    /\ UNCHANGED <<present, told, faults, desires, crashes, lapsed, starts>>

\* The presence of an executor is there, or has expired.
Appear(e) ==
    /\ present' = present \cup {e}
    /\ e \notin present
    /\ UNCHANGED <<node, call, told, conv, faults, desires, crashes, lapsed, starts>>

Lapse(e) ==
    /\ crashes < MaxCrashes /\ crashes' = crashes + 1
    /\ e \in present
    /\ present' = present \ {e}
    /\ lapsed' = (lapsed \/ node.executor = e)
    /\ UNCHANGED <<node, call, told, conv, faults, desires, starts>>

\* An executor or a stager dies with its call, sent or not.
Crash(c) ==
    /\ crashes < MaxCrashes /\ crashes' = crashes + 1
    /\ call' = [call EXCEPT ![c] = Idle]
    /\ told' = [told EXCEPT ![c] = "nothing"]
    /\ present' = present \ {c}
    /\ lapsed' = (lapsed \/ node.executor = c)
    /\ UNCHANGED <<node, conv, faults, desires, starts>>

Converge == ConvergeList \/ ConvergeDecide \/ ConvergeSwap \/ ConvergeDelete

Next ==
    \/ \E valid \in Validity : DesireTask(valid)
    \/ \E e \in Executors : ClaimTask(e) \/ StartTask(e) \/ Appear(e) \/ Lapse(e)
    \/ \E e \in Executors, failed \in BOOLEAN : CompleteTask(e, failed)
    \/ \E s \in Stagers : ResolvingTask(s) \/ ResolveTask(s)
    \/ \E c \in Clients : \/ Bail(c) \/ CompareAndSwapByIndex(c) \/ AnswerLost(c)
                          \/ SwapFails(c) \/ DeleteTask(c) \/ Crash(c)
    \/ Converge
    \/ Tick

Spec == Init /\ [][Next]_vars

-----------------------------------------------------------------------------
(***************************************************************************)
(* Fairness.  Calls end, the clock advances, the converger runs, and the   *)
(* stagers see the completed task.  The interval of convergence is longer  *)
(* than a call, so a call is not overtaken by the converger for ever.      *)
(***************************************************************************)
Fairness ==
    /\ WF_vars(Tick) /\ WF_vars(Converge)
    /\ SF_vars(\E e \in Executors : StartTask(e))
    /\ SF_vars(\E e \in Executors : CompareAndSwapByIndex(e) /\ call[e].op = "start")
    /\ \A s \in Stagers : /\ WF_vars(ResolvingTask(s)) /\ SF_vars(ResolveTask(s))
                          /\ SF_vars(CompareAndSwapByIndex(s)) /\ WF_vars(DeleteTask(s))
    /\ \A c \in Clients : WF_vars(Bail(c) \/ (SwapFails(c) /\ ~call[c].fresh))

FairSpec == Spec /\ Fairness

-----------------------------------------------------------------------------
\* StartTask ("if this fails, the executor should assume that someone else
\* is running"): whatever is demoted, kicked, claimed again, lost or retried,
\* a desired task is started once, and runs where its node says.  (The state
\* is well typed.)
StartedAtMostOnce ==
    /\ TypeOK
    /\ Len(starts) <= 1
    /\ node.state \in {"pending", "claimed"} => starts = <<>>
    /\ node.state = "running" => starts = <<node.executor>>

\* CompleteTask, markTaskFailed and the converger's kicks and demotions: once
\* a task is completed its result does not change and it never runs again,
\* until it is deleted.
ResultStays ==
    [][node.state \in {"completed", "resolving"} /\ node'.state # "absent"
         => node'.state \in {"completed", "resolving"} /\ node'.failed = node.failed]_vars

\* ConvergeTask: a claimed or running task fails because its "executor
\* disappeared" only if the executor's presence did lapse since the claim.
FailedOnlyIfLapsed ==
    [][node.state \in {"claimed", "running"} /\ node'.state = "completed"
         /\ conv.pc = "swap" /\ conv'.pc = "idle" => lapsed]_vars

\* Nobody runs it: it is pending or claimed, or its executor is gone.
Undecided == \/ node.state \in {"pending", "claimed"}
             \/ node.state = "running" /\ node.executor \notin present

\* ConvergeTask: a task that is desired does not wait for ever, claimed or not,
\* nor is one whose executor is gone for good running for ever.  ResolvingTask,
\* ResolveTask and demoteToCompleted: a completed task is deleted in the end,
\* although stagers die while they resolve it.
EventuallyResolved ==
    /\ Undecided ~> ~Undecided
    /\ node.state = "completed" ~> node.state = "absent"
=============================================================================
