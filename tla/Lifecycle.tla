------------------------------ MODULE Lifecycle ------------------------------
(***************************************************************************)
(* The app-manager process: main runs the handler as the member of a       *)
(* process group and a monitor (sigmon) that forwards the signals of the   *)
(* operating system and waits for the group.  Both are ifrit processes: a  *)
(* goroutine that runs, a channel that tells it is ready, a channel of     *)
(* signals, and an exit status that everyone who waits gets.               *)
(***************************************************************************)
EXTENDS Integers, Sequences, FiniteSets

CONSTANTS
    Members,       \* of the process group
    MaxSignals,    \* bound: signals sent to one process
    MaxPanics      \* bound

ASSUME LifecycleAssumption ==
    Members # {} /\ "monitor" \notin Members /\ MaxSignals \in Nat /\ MaxPanics \in Nat

VARIABLE app    \* the process

Processes == Members \cup {"monitor"}
Waiters == {"envoke", "parent"}    \* Envoke's select; the group or main
SIGNAL_BUFFER_SIZE == 1024

App == [main : {"off", "init", "envoke", "group", "log", "monitor", "wait", "exited"},
        run : [Processes -> {"off", "running", "ready", "draining", "returned"}],
        exitStatus : [Processes -> {"nil", "error"}],
        got : [Processes -> SUBSET Waiters],       \* who has the exit status
        sends : [Processes -> 0 .. MaxSignals],    \* goroutines of Signal that wait to send
        notified : BOOLEAN,                        \* signal.Notify was called
        osSignals : 0 .. MaxSignals,               \* in the channel of the monitor
        signals : 0 .. MaxSignals,                 \* delivered so far
        panics : 0 .. MaxPanics,
        code : {-1, 0, 1, 2, 137, 143},            \* the exit code, -1 while it lives
        pipe : {<<>>, <<"started">>, <<"exited">>, <<"started", "exited">>}]    \* output under way

NotStarted ==
    [main |-> "off", run |-> [p \in Processes |-> "off"], exitStatus |-> [p \in Processes |-> "nil"],
     got |-> [p \in Processes |-> {}], sends |-> [p \in Processes |-> 0], notified |-> FALSE,
     osSignals |-> 0, signals |-> 0, panics |-> 0, code |-> -1, pipe |-> <<>>]

Alive == app.main \notin {"off", "exited"}

-----------------------------------------------------------------------------
(* main.                                                                   *)

\* Connect makes a client and cannot fail.
initializeBbs == app.main = "init" /\ app' = [app EXCEPT !.main = "envoke"]

EnvokeGroup ==
    /\ app.main = "envoke"
    /\ app' = [app EXCEPT !.main = "group",
                  !.run = [p \in Processes |-> IF p \in Members THEN "running" ELSE @[p]]]

\* Envoke returns when its process is ready, or has exited already.
Envoked(p) == app.run[p] \in {"ready", "draining"} \/ "envoke" \in app.got[p]

GroupIsUp ==
    /\ app.main = "group" /\ \A m \in Members : Envoked(m)
    /\ app' = [app EXCEPT !.main = "log"]

\* "started" is logged before the monitor is made.
LogStarted ==
    /\ app.main = "log"
    /\ app' = [app EXCEPT !.main = "monitor", !.pipe = Append(@, "started"), !.run["monitor"] = "running"]

MonitorIsUp == app.main = "monitor" /\ Envoked("monitor") /\ app' = [app EXCEPT !.main = "wait"]

MainExits ==
    /\ app.main = "wait" /\ "parent" \in app.got["monitor"]
    /\ LET nil == app.exitStatus["monitor"] = "nil"
       IN app' = [app EXCEPT !.main = "exited", !.code = IF nil THEN 0 ELSE 1,
                             !.pipe = IF nil THEN Append(@, "exited") ELSE @]

-----------------------------------------------------------------------------
(* ifrit.Process.                                                          *)

\* The goroutine ends: its status is put into exitStatusChan.
Returned(p, status) == [app EXCEPT !.run[p] = "returned", !.exitStatus[p] = status]

\* A panic of the goroutine that runs the process is its exit status.
recover(p) ==
    /\ Alive /\ app.run[p] \in {"running", "ready", "draining"} /\ app.panics < MaxPanics
    /\ app' = [Returned(p, "error") EXCEPT !.panics = @ + 1]

\* Mutant of getExitStatus: without exitOnce the status goes to the first.
getExitStatusFirst(p, w) ==
    /\ Alive /\ app.run[p] = "returned" /\ app.got[p] = {}
    /\ app' = [app EXCEPT !.got[p] = @ \cup {w}]

getExitStatus(p, w) ==
    /\ Alive /\ app.run[p] = "returned" /\ w \notin app.got[p]
    /\ app' = [app EXCEPT !.got[p] = @ \cup {w}]

-----------------------------------------------------------------------------
(* The handler, as ifrit sees it, and the goroutines it starts.            *)

HandlerIsReady(m) == Alive /\ app.run[m] = "running" /\ app' = [app EXCEPT !.run[m] = "ready"]

HandlerIsSignalled(m) ==
    /\ Alive /\ app.run[m] = "ready" /\ app.sends[m] > 0
    /\ app' = [app EXCEPT !.run[m] = "draining", !.sends[m] = @ - 1]

HandlerReturns(m) == Alive /\ app.run[m] = "draining" /\ app' = Returned(m, "nil")

\* A panic of a goroutine that handles a change is not recovered.
ChangePanics(m) ==
    /\ Alive /\ app.run[m] \in {"ready", "draining"} /\ app.panics < MaxPanics
    /\ app' = [app EXCEPT !.panics = @ + 1, !.main = "exited", !.code = 2]

-----------------------------------------------------------------------------
(* sigmon.                                                                 *)

Notify ==
    /\ Alive /\ app.run["monitor"] = "running"
    /\ app' = [app EXCEPT !.notified = TRUE, !.run["monitor"] = "ready"]

\* processGroup.Signal: to each member, by a goroutine that waits until the
\* member takes it.
Forwarded ==
    [app EXCEPT !.osSignals = @ - 1,
                !.sends = [p \in Processes |-> @[p] + IF p \in Members THEN 1 ELSE 0]]

\* Mutant of ForwardSignal: the monitor returns on a signal.
ForwardAndReturn ==
    /\ Alive /\ app.run["monitor"] = "ready" /\ app.osSignals > 0
    /\ app' = [Forwarded EXCEPT !.run["monitor"] = "returned"]

ForwardSignal ==
    /\ Alive /\ app.run["monitor"] = "ready" /\ app.osSignals > 0
    /\ app' = Forwarded

\* Every member has exited; the error of any of them is the group's.
waitForGroup ==
    /\ Alive /\ app.run["monitor"] = "ready" /\ \A m \in Members : "parent" \in app.got[m]
    /\ app' = Returned("monitor", IF \E m \in Members : app.exitStatus[m] # "nil" THEN "error" ELSE "nil")

-----------------------------------------------------------------------------
\* The operating system delivers a signal: SIGTERM to the channel that was
\* registered, if it has room; else, and SIGKILL always, it ends the process.
Delivered(signal) ==
    IF signal = "TERM" /\ app.notified
    THEN [app EXCEPT !.signals = @ + 1, !.osSignals = IF @ < SIGNAL_BUFFER_SIZE THEN @ + 1 ELSE @]
    ELSE [app EXCEPT !.signals = @ + 1, !.main = "exited", !.code = IF signal = "TERM" THEN 143 ELSE 137]

MainStep == initializeBbs \/ EnvokeGroup \/ GroupIsUp \/ LogStarted \/ MonitorIsUp \/ MainExits
HandlerStep(m) == HandlerIsReady(m) \/ HandlerIsSignalled(m) \/ HandlerReturns(m)
MonitorStep == Notify \/ ForwardSignal \/ waitForGroup
=============================================================================
