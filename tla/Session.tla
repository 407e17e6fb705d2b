------------------------------- MODULE Session -------------------------------
(***************************************************************************)
(* gexec's session of the app-manager process, the gbytes buffer its       *)
(* output goes to, and gomega's asynchronous assertions on them, which     *)
(* poll with a matcher until it is satisfied, until it tells that nothing  *)
(* can change any more, or until they time out.                            *)
(***************************************************************************)
EXTENDS Lifecycle

VARIABLES
    session,      \* the session and its buffer
    assertion     \* the assertion of the test's goroutine

NoSession == [exitCode |-> -1, monitor |-> "off", contents |-> <<>>, readCursor |-> 0, closed |-> FALSE]
NoAssertion == [pc |-> "none", kind |-> "Eventually", matcher |-> "Say", desired |-> TRUE,
                hurried |-> FALSE, mayChange |-> TRUE, matches |-> FALSE]
Verdicts == {"passed", "bailed out", "timed out", "failed"}

SessionTypeOK ==
    /\ session.exitCode \in {-1, app.code}
    /\ session.monitor \in {"off", "wait", "locked", "done"}    \* monitorForExit
    /\ session.readCursor \in 0 .. Len(session.contents) /\ session.closed \in BOOLEAN
    /\ assertion.pc \in {"none", "oracle", "match", "judge", "sleep"} \cup Verdicts

\* Start: a process, a buffer and a goroutine that waits for the process.
Start ==
    /\ app' = [NotStarted EXCEPT !.main = "init"]
    /\ session' = [NoSession EXCEPT !.monitor = "wait"]

-----------------------------------------------------------------------------
(* The buffer.                                                             *)

Closed == session.closed

\* exec.Cmd copies the output.
Write ==
    /\ app.pipe # <<>> /\ ~Closed
    /\ session' = [session EXCEPT !.contents = Append(@, Head(app.pipe))]
    /\ app' = [app EXCEPT !.pipe = Tail(@)]
    /\ UNCHANGED assertion

Unread == SubSeq(session.contents, session.readCursor + 1, Len(session.contents))
Says(line) == \E i \in DOMAIN Unread : Unread[i] = line

\* The cursor moves past the first match.
didSay(line) ==
    IF Says(line)
    THEN [session EXCEPT !.readCursor = @ + (CHOOSE i \in DOMAIN Unread :
                Unread[i] = line /\ \A j \in 1 .. i - 1 : Unread[j] # line)]
    ELSE session

-----------------------------------------------------------------------------
(* The session.  Its lock is held while the exit is recorded.              *)

\* command.Wait returns when the process is gone and its output is copied.
monitorForExit ==
    /\ session.monitor = "wait" /\ app.main = "exited" /\ app.pipe = <<>>
    /\ session' = [session EXCEPT !.monitor = "locked", !.closed = TRUE]
    /\ UNCHANGED <<app, assertion>>

ExitRecorded ==
    /\ session.monitor = "locked"
    /\ session' = [session EXCEPT !.monitor = "done", !.exitCode = app.code]
    /\ UNCHANGED <<app, assertion>>

Unlocked == session.monitor # "locked"    \* ExitCode waits for the lock
HasExited == session.exitCode # -1

\* Signal, Terminate and Kill: nothing once the exit code is known; to a
\* process that is gone the signal does nothing.
Signal(signal) ==
    /\ Unlocked
    /\ app' = IF HasExited \/ ~Alive THEN app ELSE Delivered(signal)

-----------------------------------------------------------------------------
(* Eventually and Consistently.  An Eventually that is hurried may time    *)
(* out before what it waits for has happened; one that is not has time.    *)

Assert(kind, matcher, desired) ==
    \E hurried \in BOOLEAN :
        assertion' = [NoAssertion EXCEPT !.pc = "oracle", !.kind = kind, !.matcher = matcher,
                                         !.desired = desired, !.hurried = hurried]

Wait == Assert("Eventually", "Exit", TRUE)

\* Of Say and of Exit.
MatchMayChangeInTheFuture(matcher) == IF matcher = "Say" THEN ~Closed ELSE ~HasExited

\* First the oracle, then the match.
matcherMayChange ==
    /\ assertion.pc = "oracle" /\ (assertion.matcher = "Exit" => Unlocked)
    /\ assertion' = [assertion EXCEPT !.pc = "match",
                        !.mayChange = MatchMayChangeInTheFuture(assertion.matcher)]
    /\ UNCHANGED <<app, session>>

SayMatch ==
    /\ assertion.pc = "match" /\ assertion.matcher = "Say"
    /\ assertion' = [assertion EXCEPT !.pc = "judge", !.matches = Says("started")]
    /\ session' = didSay("started")
    /\ UNCHANGED app

ExitMatch ==
    /\ assertion.pc = "match" /\ assertion.matcher = "Exit" /\ Unlocked
    /\ assertion' = [assertion EXCEPT !.pc = "judge", !.matches = HasExited]
    /\ UNCHANGED <<app, session>>

\* Mutant of Hopeless: the oracle is asked after the match.
HopelessByNow(a) == ~MatchMayChangeInTheFuture(a.matcher)

Hopeless(a) == ~a.mayChange

Verdict(a) ==
    IF a.kind = "Eventually"
    THEN IF a.matches = a.desired THEN "passed" ELSE IF Hopeless(a) THEN "bailed out" ELSE "sleep"
    ELSE IF a.matches # a.desired THEN "failed" ELSE IF Hopeless(a) THEN "passed" ELSE "sleep"

judge ==
    /\ assertion.pc = "judge" /\ assertion' = [assertion EXCEPT !.pc = Verdict(assertion)]
    /\ UNCHANGED <<app, session>>

pollActual ==
    /\ assertion.pc = "sleep" /\ assertion' = [assertion EXCEPT !.pc = "oracle"]
    /\ UNCHANGED <<app, session>>

TimesOut ==
    /\ assertion.pc = "sleep" /\ (assertion.kind = "Eventually" => assertion.hurried)
    /\ assertion' = [assertion EXCEPT !.pc = IF assertion.kind = "Eventually" THEN "timed out" ELSE "passed"]
    /\ UNCHANGED <<app, session>>

SessionStep == Write \/ monitorForExit \/ ExitRecorded
Poll == matcherMayChange \/ SayMatch \/ ExitMatch \/ judge \/ pollActual \/ TimesOut
=============================================================================
