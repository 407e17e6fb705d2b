---------------------------- MODULE MaintainNode ----------------------------
(***************************************************************************)
(* MaintainNode of the store adapter, by which auctioneers and convergers  *)
(* hold their locks and executors and file servers maintain their          *)
(* presence: a goroutine per maintainer that creates a node with a TTL,    *)
(* renews it twice per TTL and reports on a status channel.  A maintainer  *)
(* is the goroutine and its client, which reads the channel, believes what *)
(* it was told last, and calls Remove.                                     *)
(*                                                                         *)
(* Time goes in ticks, and may pass while a request is on its way to etcd, *)
(* while its answer is on its way back, and while the goroutine waits for  *)
(* a client that does not read.  Nothing bounds these delays but           *)
(* MaxFailures: a tick in which somebody is late is a failure.             *)
(***************************************************************************)
EXTENDS Integers

CONSTANTS
    Maintainers, NoOne,
    TTL,         \* in ticks
    MaxDelay,    \* how late an answer, or a reader, may be without that being a failure
    MaxFailures, \* bounds: ticks of lateness, requests that fail or whose answer is lost,
    MaxStarts    \*         resets, deaths; calls of Maintain

frequency == 2
maintenanceInterval == TTL \div frequency

\* MaintainNode refuses a TTL of zero.
ASSUME MaintainNodeAssumption ==
    /\ NoOne \notin Maintainers
    /\ TTL \in Nat /\ maintenanceInterval > 0
    /\ MaxDelay \in Nat /\ MaxFailures \in Nat /\ MaxStarts \in Nat

VARIABLES
    holder,   \* whose value the node has
    ttl,      \* ticks until it expires
    pc,       \* maintainNode: "off", "select", "request", "answer", "send"
    answer,   \* what etcd said
    timer,    \* ticks until timer.C fires; once it has, how long ago, up to MaxDelay
    created, owned, frequencyCycle,
    sending,  \* the status it is about to send
    told,     \* the client: the status it read last
    removing, \* the client called Remove, which has not returned
    slack,    \* history: by how much it may still be late, see Slack
    failures, starts

maintainVars == <<holder, ttl, pc, answer, timer, created, owned, frequencyCycle, sending,
          told, removing, slack, failures, starts>>
store == <<holder, ttl>>
client == <<told, removing, starts>>
locals == <<created, owned, frequencyCycle>>

EtcdAnswers == {"none", "ok", "not found", "compare failed", "key exists", "error"}

\* By how much requests, answers and the reader may together be late, from one
\* request that etcd applied to the next, without the node expiring.
Slack == TTL - maintenanceInterval

MaintainTypeOK ==
    /\ holder \in Maintainers \cup {NoOne} /\ ttl \in 0 .. TTL
    /\ pc \in [Maintainers -> {"off", "select", "request", "answer", "send"}]
    /\ answer \in [Maintainers -> EtcdAnswers]
    /\ timer \in [Maintainers -> -MaxDelay .. maintenanceInterval]
    /\ created \in [Maintainers -> BOOLEAN] /\ owned \in [Maintainers -> BOOLEAN]
    /\ frequencyCycle \in [Maintainers -> 0 .. frequency - 1]
    /\ sending \in [Maintainers -> BOOLEAN] /\ told \in [Maintainers -> BOOLEAN]
    /\ removing \in [Maintainers -> BOOLEAN] /\ slack \in [Maintainers -> 0 .. Slack]
    /\ failures \in 0 .. MaxFailures /\ starts \in 0 .. MaxStarts

MaintainInit ==
    /\ holder = NoOne /\ ttl = 0 /\ failures = 0 /\ starts = 0
    /\ pc = [m \in Maintainers |-> "off"] /\ timer = [m \in Maintainers |-> 0]
    /\ answer = [m \in Maintainers |-> "none"] /\ slack = [m \in Maintainers |-> Slack]
    /\ created = [m \in Maintainers |-> FALSE] /\ owned = [m \in Maintainers |-> FALSE]
    /\ frequencyCycle = [m \in Maintainers |-> 0]
    /\ sending = [m \in Maintainers |-> FALSE] /\ told = [m \in Maintainers |-> FALSE]
    /\ removing = [m \in Maintainers |-> FALSE]

Failure == failures < MaxFailures /\ failures' = failures + 1

\* The goroutine is gone, its locals with it; the next one starts with created
\* and owned FALSE and a timer that has fired.
Gone(m) ==
    /\ pc' = [pc EXCEPT ![m] = "off"] /\ answer' = [answer EXCEPT ![m] = "none"]
    /\ timer' = [timer EXCEPT ![m] = 0] /\ frequencyCycle' = [frequencyCycle EXCEPT ![m] = 0]
    /\ created' = [created EXCEPT ![m] = FALSE] /\ owned' = [owned EXCEPT ![m] = FALSE]
    /\ sending' = [sending EXCEPT ![m] = FALSE] /\ slack' = [slack EXCEPT ![m] = Slack]

-----------------------------------------------------------------------------
(* The client: Presence, or the holder of a lock.                          *)

\* Maintain, of a presence that is not maintained yet: timer := NewTimer(0).
Maintain(m) ==
    /\ pc[m] = "off" /\ ~removing[m] /\ starts < MaxStarts
    /\ starts' = starts + 1
    /\ pc' = [pc EXCEPT ![m] = "select"]
    /\ UNCHANGED <<store, answer, timer, locals, sending, told, removing, slack, failures>>

\* Remove hands its channel to the goroutine and waits; the client gives up
\* what it holds but reads on.
Remove(m) ==
    /\ pc[m] # "off" /\ ~removing[m]
    /\ removing' = [removing EXCEPT ![m] = TRUE]
    /\ told' = [told EXCEPT ![m] = FALSE]
    /\ UNCHANGED <<store, pc, answer, timer, locals, sending, slack, failures, starts>>

\* retryBackOff: 2 seconds, doubled, at most the interval.
retryBackOff == 1 .. maintenanceInterval

\* Mutant of Receive: the timer starts when the client has read.
ReceiveLate(m) ==
    /\ pc[m] = "send"
    /\ told' = [told EXCEPT ![m] = sending[m] /\ ~removing[m]]
    /\ pc' = [pc EXCEPT ![m] = IF ~sending[m] /\ ~created[m] THEN "request" ELSE "select"]
    /\ \/ ~sending[m] /\ ~created[m] /\ UNCHANGED timer
       \/ sending[m] /\ timer' = [timer EXCEPT ![m] = maintenanceInterval]
       \/ ~sending[m] /\ created[m] /\ \E t \in retryBackOff : timer' = [timer EXCEPT ![m] = t]
    /\ sending' = [sending EXCEPT ![m] = FALSE]
    /\ UNCHANGED <<store, answer, locals, removing, slack, failures, starts>>

\* The client receives a status; nodeStatus is unbuffered.  The time this took
\* is taken off the interval (elapsedChannelSend), but not off a back-off.
Receive(m) ==
    /\ pc[m] = "send"
    /\ told' = [told EXCEPT ![m] = sending[m] /\ ~removing[m]]
    /\ pc' = [pc EXCEPT ![m] = IF ~sending[m] /\ ~created[m] THEN "request" ELSE "select"]
    /\ \/ (sending[m] \/ ~created[m]) /\ UNCHANGED timer
       \/ ~sending[m] /\ created[m] /\ \E t \in retryBackOff : timer' = [timer EXCEPT ![m] = t]
    /\ sending' = [sending EXCEPT ![m] = FALSE]
    /\ UNCHANGED <<store, answer, locals, removing, slack, failures, starts>>

-----------------------------------------------------------------------------
(* maintainNode.                                                           *)

\* Either case of the select may be taken when both are ready.
TimerFires(m) ==
    /\ pc[m] = "select" /\ timer[m] <= 0
    /\ pc' = [pc EXCEPT ![m] = "request"]
    /\ UNCHANGED <<store, answer, timer, locals, sending, client, slack, failures>>

\* Mutant of Release: the channel of Remove is not closed.
ReleaseUnanswered(m) ==
    /\ pc[m] = "select" /\ removing[m]
    /\ holder' = (IF holder = m THEN NoOne ELSE holder) /\ ttl' = (IF holder = m THEN 0 ELSE ttl)
    /\ Gone(m) /\ UNCHANGED <<client, failures>>

\* CompareAndDelete, whose error is ignored; Remove returns.
Release(m) ==
    /\ pc[m] = "select" /\ removing[m]
    /\ \/ holder = m /\ holder' = NoOne /\ ttl' = 0 /\ UNCHANGED failures
       \/ holder # m /\ UNCHANGED <<store, failures>>
       \/ Failure /\ UNCHANGED store
    /\ Gone(m) /\ removing' = [removing EXCEPT ![m] = FALSE]
    /\ UNCHANGED <<told, starts>>

\* A compare-and-swap of the own value for itself renews the node, a Create makes it.
Applicable(m) == IF created[m] THEN holder = m ELSE holder = NoOne

Refusal(m) ==
    IF ~created[m] THEN "key exists" ELSE IF holder = NoOne THEN "not found" ELSE "compare failed"

\* The request of this round reaches etcd.
ReachesEtcd(m) ==
    /\ pc[m] = "request"
    /\ pc' = [pc EXCEPT ![m] = "answer"]
    /\ answer' = [answer EXCEPT ![m] = IF Applicable(m) THEN "ok" ELSE Refusal(m)]
    /\ \/ Applicable(m) /\ holder' = m /\ ttl' = TTL /\ slack' = [slack EXCEPT ![m] = Slack]
       \/ ~Applicable(m) /\ UNCHANGED <<store, slack>>
    /\ UNCHANGED <<timer, locals, sending, client, failures>>

\* Its answer is lost, and go-etcd sends it again.
SentAgain(m) ==
    /\ pc[m] = "answer" /\ answer[m] # "error" /\ Failure
    /\ pc' = [pc EXCEPT ![m] = "request"] /\ answer' = [answer EXCEPT ![m] = "none"]
    /\ UNCHANGED <<store, timer, locals, sending, client, slack>>

\* go-etcd gives up, whether etcd had applied the request or not.
GivenUp(m) ==
    /\ pc[m] \in {"request", "answer"} /\ answer[m] # "error" /\ Failure
    /\ pc' = [pc EXCEPT ![m] = "answer"] /\ answer' = [answer EXCEPT ![m] = "error"]
    /\ UNCHANGED <<store, timer, locals, sending, client, slack>>

\* The answer is there: the loop goes on at next.
GoesOn(m, next) ==
    /\ pc[m] = "answer"
    /\ answer' = [answer EXCEPT ![m] = "none"] /\ pc' = [pc EXCEPT ![m] = next]
    /\ UNCHANGED <<store, client, failures>>

\* The compare-and-swap was applied.  Every second time the client is told.
Renewed(m) ==
    LET cycle == frequencyCycle[m] + 1
    IN /\ answer[m] = "ok" /\ created[m]
       /\ GoesOn(m, IF cycle = frequency THEN "send" ELSE "select")
       /\ sending' = [sending EXCEPT ![m] = cycle = frequency]
       /\ frequencyCycle' = [frequencyCycle EXCEPT ![m] = IF cycle = frequency THEN 0 ELSE cycle]
       /\ owned' = [owned EXCEPT ![m] = TRUE]
       /\ timer' = [timer EXCEPT ![m] = maintenanceInterval]
       /\ UNCHANGED <<created, slack>>

\* It was not, or nobody knows.  An owner is told, and only then backs off.
RenewFails(m) ==
    /\ answer[m] \in {"compare failed", "error"} /\ created[m]
    /\ GoesOn(m, IF owned[m] THEN "send" ELSE "select")
    /\ sending' = [sending EXCEPT ![m] = FALSE]
    /\ \/ owned[m] /\ UNCHANGED timer
       \/ ~owned[m] /\ \E t \in retryBackOff : timer' = [timer EXCEPT ![m] = t]
    /\ owned' = [owned EXCEPT ![m] = FALSE] /\ frequencyCycle' = [frequencyCycle EXCEPT ![m] = 0]
    /\ slack' = [slack EXCEPT ![m] = Slack]
    /\ UNCHANGED created

\* Mutant of Vanished: the lock is taken to be still there.
VanishedIgnored(m) ==
    /\ answer[m] = "not found" /\ created[m]
    /\ GoesOn(m, "select")
    /\ \E t \in retryBackOff : timer' = [timer EXCEPT ![m] = t]
    /\ UNCHANGED <<locals, sending, slack>>

\* The node is gone: after the client is told, it is created in this round.
Vanished(m) ==
    /\ answer[m] = "not found" /\ created[m]
    /\ GoesOn(m, IF owned[m] THEN "send" ELSE "request")
    /\ sending' = [sending EXCEPT ![m] = FALSE]
    /\ created' = [created EXCEPT ![m] = FALSE] /\ owned' = [owned EXCEPT ![m] = FALSE]
    /\ frequencyCycle' = [frequencyCycle EXCEPT ![m] = 0] /\ slack' = [slack EXCEPT ![m] = Slack]
    /\ UNCHANGED timer

Created(m) ==
    /\ answer[m] = "ok" /\ ~created[m]
    /\ GoesOn(m, "send")
    /\ sending' = [sending EXCEPT ![m] = TRUE]
    /\ created' = [created EXCEPT ![m] = TRUE] /\ owned' = [owned EXCEPT ![m] = TRUE]
    /\ frequencyCycle' = [frequencyCycle EXCEPT ![m] = 0]
    /\ timer' = [timer EXCEPT ![m] = maintenanceInterval]
    /\ UNCHANGED slack

\* ErrorKeyExists: it may be the own node, so a renewal is tried at once.
KeyExists(m) ==
    /\ answer[m] = "key exists" /\ ~created[m]
    /\ GoesOn(m, "request")
    /\ created' = [created EXCEPT ![m] = TRUE]
    /\ frequencyCycle' = [frequencyCycle EXCEPT ![m] = 0]
    /\ UNCHANGED <<timer, owned, sending, slack>>

\* Create fails otherwise; it is tried again after retryBackOff.
CreateFails(m) ==
    /\ answer[m] = "error" /\ ~created[m]
    /\ GoesOn(m, "select")
    /\ \E t \in retryBackOff : timer' = [timer EXCEPT ![m] = t]
    /\ frequencyCycle' = [frequencyCycle EXCEPT ![m] = 0]
    /\ UNCHANGED <<created, owned, sending, slack>>

-----------------------------------------------------------------------------
\* Whoever is late is so because its timer has fired and the next round has not
\* come to an end.
Due(m) == pc[m] # "off" /\ timer[m] <= 0

\* An answer is MaxDelay late at most, and clients read at once.
Prompt == \A m \in Maintainers : pc[m] # "send" /\ (pc[m] # "off" => timer[m] > -MaxDelay)

\* Time passes for the node and the timers.
Tick ==
    /\ IF Prompt THEN UNCHANGED failures ELSE Failure
    /\ timer' = [m \in Maintainers |->
                   IF pc[m] = "off" \/ timer[m] = -MaxDelay THEN timer[m] ELSE timer[m] - 1]
    /\ ttl' = IF ttl = 0 THEN 0 ELSE ttl - 1
    /\ holder' = IF ttl <= 1 THEN NoOne ELSE holder
    /\ slack' = [m \in Maintainers |-> IF Due(m) /\ slack[m] > 0 THEN slack[m] - 1 ELSE slack[m]]
    /\ UNCHANGED <<pc, answer, locals, sending, client>>

\* The store is reset, or someone deletes the node: nobody holds it.
Reset ==
    /\ Failure /\ holder # NoOne
    /\ holder' = NoOne /\ ttl' = 0 /\ slack' = [m \in Maintainers |-> 0]
    /\ UNCHANGED <<pc, answer, timer, locals, sending, client>>

\* The process dies.
Die(m) ==
    /\ Failure /\ pc[m] # "off"
    /\ Gone(m)
    /\ told' = [told EXCEPT ![m] = FALSE] /\ removing' = [removing EXCEPT ![m] = FALSE]
    /\ UNCHANGED <<store, starts>>

maintainNode(m) ==
    \/ TimerFires(m) \/ Release(m) \/ ReachesEtcd(m) \/ Renewed(m) \/ RenewFails(m) \/ Vanished(m)
    \/ Created(m) \/ KeyExists(m) \/ CreateFails(m)

MaintainNext ==
    \/ \E m \in Maintainers : \/ Maintain(m) \/ Remove(m) \/ Receive(m) \/ maintainNode(m)
                             \/ SentAgain(m) \/ GivenUp(m) \/ Die(m)
    \/ Tick \/ Reset

MaintainSpec == MaintainInit /\ [][MaintainNext]_maintainVars
MaintainFairness ==
    /\ WF_maintainVars(Tick)
    /\ \A m \in Maintainers : /\ WF_maintainVars(maintainNode(m)) /\ WF_maintainVars(Receive(m))
                              /\ SF_maintainVars(Release(m))
FairMaintainSpec == MaintainSpec /\ MaintainFairness

-----------------------------------------------------------------------------
\* The goroutine is about to tell the client that the node is lost.
BeingTold(m) == pc[m] = "send" /\ ~sending[m]

\* lock_bbs and Presence: the state is well typed, and who was told that it
\* holds the node does hold it, whatever fails, expires or is restarted, unless
\* it is being told otherwise, or since etcd last applied or refused a request
\* of its, requests, answers and the reader were late by what the TTL leaves
\* after the interval, or the store was reset.  The time that a reader takes off
\* the interval is not counted as lateness.
ToldMeansHeld ==
    /\ MaintainTypeOK
    /\ \A m \in Maintainers : told[m] => holder = m \/ BeingTold(m) \/ slack[m] = 0

\* "Eventually reacquires it" (presence_test.go:64): a maintainer that is left
\* alone with the key holds it in the end and is told so, for good.
EventuallyHeld ==
    \A m \in Maintainers :
        <>[](pc[m] # "off" /\ ~removing[m] /\ \A n \in Maintainers \ {m} : pc[n] = "off")
            => <>[](told[m] /\ holder = m)

\* "When releasing the lock [it] makes it available for others": Remove
\* returns, and a node nobody maintains goes.
RemoveReturns ==
    \A m \in Maintainers :
        /\ removing[m] ~> ~removing[m]
        /\ holder = m ~> (holder # m \/ pc[m] # "off")
=============================================================================
