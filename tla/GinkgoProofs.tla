---------------------------- MODULE GinkgoProofs ----------------------------
(***************************************************************************)
(* Four safety properties of the ginkgo command, for any number of nodes,  *)
(* any suites and flags, and whatever goes wrong: how the nodes share      *)
(* setup and teardown, how a sample runs and unwinds, what the verdict of  *)
(* a suite says, and what its reports add up to.  First, what each step of *)
(* a process does; then the invariants, one part after the other, each     *)
(* from the ones before.                                                   *)
(***************************************************************************)
EXTENDS Ginkgo, FiniteSetTheorems, FunctionTheorems, SequenceTheorems, TLAPS

Fields ==
    {"up", "code", "reaped", "main", "handler", "signalled", "interrupted", "specs", "focused", "i", "todo",
     "unwinding", "sample", "state", "ran", "suiteFailed", "skipRemaining", "passed", "before", "after", "data",
     "tornDown", "failer", "strays"}

IsProc(p) == p = [f \in Fields |-> p[f]]

\* Every process is a record of these fields.
Procs == node = [n \in Nodes |-> node[n]] /\ \A n \in Nodes : IsProc(node[n])

Agree(p, q, F) == \A f \in Fields \ F : q[f] = p[f]

\* A step of node n alone, which changes at most the fields F.
Frame(n, F) ==
    /\ Procs'
    /\ \A k \in Nodes \ {n} : node'[k] = node[k]
    /\ Agree(node[n], node'[n], F)

LEMMA SetNode ==
    ASSUME Procs, NEW n \in Nodes, NEW q, IsProc(q), node' = [node EXCEPT ![n] = q]
    PROVE  Procs' /\ node'[n] = q /\ \A k \in Nodes \ {n} : node'[k] = node[k]
  BY DEF Procs

LEMMA Set1 ==
    ASSUME NEW p, IsProc(p), NEW f \in Fields, NEW x
    PROVE  LET q == [p EXCEPT ![f] = x] IN IsProc(q) /\ q[f] = x /\ Agree(p, q, {f})
  BY DEF IsProc, Agree

LEMMA SetNode1 ==
    ASSUME Procs, NEW n \in Nodes, NEW f \in Fields, NEW x, node' = [node EXCEPT ![n][f] = x]
    PROVE  Frame(n, {f}) /\ node'[n][f] = x
<1>1. node' = [node EXCEPT ![n] = [node[n] EXCEPT ![f] = x]]  BY DEF Procs
<1>2. IsProc(node[n])  BY DEF Procs
<1>3. LET q == [node[n] EXCEPT ![f] = x] IN IsProc(q) /\ q[f] = x /\ Agree(node[n], q, {f})  BY <1>2, Set1
<1>q. QED  BY <1>1, <1>3, SetNode DEF Frame

Outcomes == {"passed", "failed", "panicked", "timedout"}

\* The failer and the number of goroutines left behind.
Typed == \A n \in Nodes : node[n].failer \in Outcomes /\ node[n].strays \in Nat

\* A body ran on node n: it left the failer alone, or something went wrong.
BodyRan(n, outcome) ==
    /\ outcome \in Outcomes /\ node'[n].strays \in Nat
    /\ \/ outcome = node[n].failer /\ node'[n].strays = node[n].strays /\ Fine
       \/ Wrong

\* A body changes nothing but the failer and what it leaves behind.
LEMMA BodyReturns ==
    ASSUME Procs, Typed, NEW n \in Nodes, NEW body, NEW r \in run(body, node[n].failer)
    PROVE  LET p == Returned(n, r)
           IN /\ IsProc(p) /\ Agree(node[n], p, {"failer", "strays"})
              /\ p.failer \in Outcomes /\ p.strays \in Nat
              /\ ~r.wrong => p.failer = node[n].failer /\ p.strays = node[n].strays
<1>2. IsProc(node[n]) /\ node[n].failer \in Outcomes /\ node[n].strays \in Nat  BY DEF Procs, Typed
<1>3. /\ IsProc(Returned(n, r)) /\ Agree(node[n], Returned(n, r), {"failer", "strays"})
      /\ Returned(n, r).failer = r.failer /\ Returned(n, r).strays = node[n].strays + r.stray
      BY <1>2 DEF IsProc, Agree, Fields, Returned
<1>5. r.failer \in Outcomes /\ r.stray \in {0, 1} /\ (~r.wrong => r.failer = node[n].failer /\ r.stray = 0)
      BY <1>2 DEF run, runSync, runAsync, Fail, Panic, Timeout, Outcomes
<1>q. QED  BY <1>2, <1>3, <1>5

\* What body A leaves behind, and body B of an AfterSuite.
MainAfterA(outcome) == IF job.total > 1 THEN "postA" ELSE IF outcome = "passed" THEN "runB" ELSE "reportBefore"
DataAfterA(n, outcome) == IF outcome = "passed" THEN "A" ELSE node[n].data
AfterAfterB(n, outcome) == IF node[n].after = "passed" THEN outcome ELSE node[n].after

LEMMA RunB ==
    ASSUME Procs, Typed, NEW n \in Nodes, runB(n)
    PROVE  /\ Frame(n, {"failer", "before", "main", "strays"})
           /\ node[n].up = "up" /\ node[n].main = "runB"
           /\ UNCHANGED <<job, remote>>
           /\ \E outcome : /\ BodyRan(n, outcome) /\ node'[n].failer = "passed"
                            /\ node'[n].before = outcome /\ node'[n].main = "reportBefore"
<1>1. PICK r \in run("sync", node[n].failer) :
          /\ IF r.wrong THEN Wrong ELSE Fine
          /\ node' = [node EXCEPT ![n] = SetupDone(Returned(n, r), Returned(n, r).failer)]
      BY DEF runB, Running
<1> DEFINE p == Returned(n, r)
           q == SetupDone(p, p.failer)
<1>n. node' = [node EXCEPT ![n] = q]  BY <1>1
<1>2. /\ IsProc(p) /\ Agree(node[n], p, {"failer", "strays"}) /\ p.failer \in Outcomes /\ p.strays \in Nat
      /\ ~r.wrong => p.failer = node[n].failer /\ p.strays = node[n].strays
      BY BodyReturns
<1> HIDE DEF p
<1>3. /\ IsProc(q) /\ Agree(p, q, {"failer", "before", "main", "strays"}) /\ q.failer = "passed" /\ q.strays = p.strays
      /\ q.before = p.failer /\ q.main = "reportBefore"
      BY <1>2 DEF IsProc, Agree, Fields, Drain, SetupDone
<1> HIDE DEF q
<1>4. Agree(node[n], q, {"failer", "before", "main", "strays"})  BY <1>2, <1>3 DEF Agree
<1>5. Frame(n, {"failer", "before", "main", "strays"}) /\ node'[n] = q  BY <1>n, <1>3, <1>4, SetNode DEF Frame
<1>6. BodyRan(n, p.failer)  BY <1>1, <1>2, <1>3, <1>5 DEF BodyRan
<1>7. p.data = node[n].data /\ p.after = node[n].after  BY <1>2 DEF Agree, Fields
<1>8. /\ BodyRan(n, p.failer) /\ node'[n].failer = "passed"
      /\ node'[n].before = p.failer /\ node'[n].main = "reportBefore"
      BY <1>3, <1>5, <1>6, <1>7
<1>9. (node[n].up = "up" /\ node[n].main = "runB") /\ UNCHANGED <<job, remote>>  BY DEF runB, At, AtIn, IsUp
<1>q. QED  BY <1>5, <1>8, <1>9, Zenon

LEMMA RunSimple ==
    ASSUME Procs, Typed, NEW n \in Nodes, runBeforeSuite(n), job.suite.beforeSuite = "simple", ~node[n].interrupted
    PROVE  /\ Frame(n, {"failer", "before", "main", "strays"})
           /\ node[n].up = "up" /\ node[n].main = "before"
           /\ UNCHANGED <<job, remote>>
           /\ \E outcome : /\ BodyRan(n, outcome) /\ node'[n].failer = "passed"
                            /\ node'[n].before = outcome /\ node'[n].main = "reportBefore"
<1>1. PICK r \in run("sync", node[n].failer) :
          /\ IF r.wrong THEN Wrong ELSE Fine
          /\ node' = [node EXCEPT ![n] = SetupDone(Returned(n, r), Returned(n, r).failer)]
      BY DEF runBeforeSuite, Running
<1> DEFINE p == Returned(n, r)
           q == SetupDone(p, p.failer)
<1>n. node' = [node EXCEPT ![n] = q]  BY <1>1
<1>2. /\ IsProc(p) /\ Agree(node[n], p, {"failer", "strays"}) /\ p.failer \in Outcomes /\ p.strays \in Nat
      /\ ~r.wrong => p.failer = node[n].failer /\ p.strays = node[n].strays
      BY BodyReturns
<1> HIDE DEF p
<1>3. /\ IsProc(q) /\ Agree(p, q, {"failer", "before", "main", "strays"}) /\ q.failer = "passed" /\ q.strays = p.strays
      /\ q.before = p.failer /\ q.main = "reportBefore"
      BY <1>2 DEF IsProc, Agree, Fields, Drain, SetupDone
<1> HIDE DEF q
<1>4. Agree(node[n], q, {"failer", "before", "main", "strays"})  BY <1>2, <1>3 DEF Agree
<1>5. Frame(n, {"failer", "before", "main", "strays"}) /\ node'[n] = q  BY <1>n, <1>3, <1>4, SetNode DEF Frame
<1>6. BodyRan(n, p.failer)  BY <1>1, <1>2, <1>3, <1>5 DEF BodyRan
<1>7. p.data = node[n].data /\ p.after = node[n].after  BY <1>2 DEF Agree, Fields
<1>8. /\ BodyRan(n, p.failer) /\ node'[n].failer = "passed"
      /\ node'[n].before = p.failer /\ node'[n].main = "reportBefore"
      BY <1>3, <1>5, <1>6, <1>7
<1>9. (node[n].up = "up" /\ node[n].main = "before") /\ UNCHANGED <<job, remote>>
      BY DEF runBeforeSuite, At, AtIn, IsUp
<1>q. QED  BY <1>5, <1>8, <1>9, Zenon

LEMMA RunA ==
    ASSUME Procs, Typed, NEW n \in Nodes, runA(n)
    PROVE  /\ Frame(n, {"failer", "before", "main", "data", "strays"})
           /\ node[n].up = "up" /\ node[n].main = "before" /\ n = 1 /\ job.suite.beforeSuite = "synchronized"
           /\ UNCHANGED <<job, remote>>
           /\ \E outcome : /\ BodyRan(n, outcome) /\ node'[n].failer = "passed"
                            /\ node'[n].before = outcome
                            /\ node'[n].main = MainAfterA(outcome)
                            /\ node'[n].data = DataAfterA(n, outcome)
<1>1. PICK r \in run("sync", node[n].failer) :
          /\ IF r.wrong THEN Wrong ELSE Fine
          /\ node' = [node EXCEPT ![n] =
                  [Drain(wrapA(Returned(n, r))) EXCEPT !.before = Returned(n, r).failer,
                       !.main = IF job.total > 1 THEN "postA"
                                ELSE IF Returned(n, r).failer = "passed" THEN "runB" ELSE "reportBefore"]]
      BY DEF runA, Running
<1> DEFINE p == Returned(n, r)
           q == [Drain(wrapA(p)) EXCEPT !.before = p.failer,
                      !.main = IF job.total > 1 THEN "postA" ELSE IF p.failer = "passed" THEN "runB" ELSE "reportBefore"]
<1>n. node' = [node EXCEPT ![n] = q]  BY <1>1
<1>2. /\ IsProc(p) /\ Agree(node[n], p, {"failer", "strays"}) /\ p.failer \in Outcomes /\ p.strays \in Nat
      /\ ~r.wrong => p.failer = node[n].failer /\ p.strays = node[n].strays
      BY BodyReturns
<1> HIDE DEF p
<1>3. /\ IsProc(q) /\ Agree(p, q, {"failer", "before", "main", "data", "strays"}) /\ q.failer = "passed" /\ q.strays = p.strays
      /\ q.before = p.failer
      /\ q.main = IF job.total > 1 THEN "postA" ELSE IF p.failer = "passed" THEN "runB" ELSE "reportBefore"
      /\ q.data = IF p.failer = "passed" THEN "A" ELSE p.data
      BY <1>2 DEF IsProc, Agree, Fields, Drain, wrapA
<1> HIDE DEF q
<1>4. Agree(node[n], q, {"failer", "before", "main", "data", "strays"})  BY <1>2, <1>3 DEF Agree
<1>5. Frame(n, {"failer", "before", "main", "data", "strays"}) /\ node'[n] = q  BY <1>n, <1>3, <1>4, SetNode DEF Frame
<1>6. BodyRan(n, p.failer)  BY <1>1, <1>2, <1>3, <1>5 DEF BodyRan
<1>7. p.data = node[n].data /\ p.after = node[n].after  BY <1>2 DEF Agree, Fields
<1>8. /\ BodyRan(n, p.failer) /\ node'[n].failer = "passed" /\ node'[n].before = p.failer
      /\ node'[n].main = MainAfterA(p.failer) /\ node'[n].data = DataAfterA(n, p.failer)
      BY <1>3, <1>5, <1>6, <1>7 DEF MainAfterA, DataAfterA
<1>9. /\ node[n].up = "up" /\ node[n].main = "before" /\ n = 1 /\ job.suite.beforeSuite = "synchronized"
      /\ UNCHANGED <<job, remote>>
      BY DEF runA, At, AtIn, IsUp
<1>q. QED  BY <1>5, <1>8, <1>9, Zenon

LEMMA RunAfter ==
    ASSUME Procs, Typed, NEW n \in Nodes, NEW g \in {"main", "handler"}, runAfterSuite(n, g), job.suite.afterSuite # "none"
    PROVE  /\ Frame(n, {"failer", "after", g, "strays"})
           /\ node[n].up = "up" /\ node[n][g] = "after"
           /\ UNCHANGED <<job, remote>>
           /\ \E outcome : /\ BodyRan(n, outcome) /\ node'[n].failer = "passed"
                            /\ node'[n].after = outcome
                            /\ node'[n][g] = AfterBodyA(n)
<1>1. PICK r \in run("sync", node[n].failer) :
          /\ IF r.wrong THEN Wrong ELSE Fine
          /\ node' = [node EXCEPT ![n] =
                  [Drain(Returned(n, r)) EXCEPT !.after = Returned(n, r).failer, ![g] = AfterBodyA(n)]]
      BY DEF runAfterSuite, Running
<1> DEFINE p == Returned(n, r)
           q == [Drain(p) EXCEPT !.after = p.failer, ![g] = AfterBodyA(n)]
<1>n. node' = [node EXCEPT ![n] = q]  BY <1>1
<1>2. /\ IsProc(p) /\ Agree(node[n], p, {"failer", "strays"}) /\ p.failer \in Outcomes /\ p.strays \in Nat
      /\ ~r.wrong => p.failer = node[n].failer /\ p.strays = node[n].strays
      BY BodyReturns
<1> HIDE DEF p
<1>3. /\ IsProc(q) /\ Agree(p, q, {"failer", "after", g, "strays"}) /\ q.failer = "passed" /\ q.strays = p.strays
      /\ q.after = p.failer
      /\ q[g] = AfterBodyA(n)
      BY <1>2 DEF IsProc, Agree, Fields, Drain
<1> HIDE DEF q
<1>4. Agree(node[n], q, {"failer", "after", g, "strays"})  BY <1>2, <1>3 DEF Agree
<1>5. Frame(n, {"failer", "after", g, "strays"}) /\ node'[n] = q  BY <1>n, <1>3, <1>4, SetNode DEF Frame
<1>6. BodyRan(n, p.failer)  BY <1>1, <1>2, <1>3, <1>5 DEF BodyRan
<1>7. p.data = node[n].data /\ p.after = node[n].after  BY <1>2 DEF Agree, Fields
<1>8. /\ BodyRan(n, p.failer) /\ node'[n].failer = "passed"
      /\ node'[n].after = p.failer /\ node'[n][g] = AfterBodyA(n)
      BY <1>3, <1>5, <1>6, <1>7
<1>9. (node[n].up = "up" /\ node[n][g] = "after") /\ UNCHANGED <<job, remote>>  BY DEF runAfterSuite, At, AtIn, IsUp
<1>q. QED  BY <1>5, <1>8, <1>9, Zenon

LEMMA RunAfterB ==
    ASSUME Procs, Typed, NEW n \in Nodes, NEW g \in {"main", "handler"}, runAfterB(n, g)
    PROVE  /\ Frame(n, {"failer", "after", g, "tornDown", "strays"})
           /\ node[n].up = "up" /\ node[n][g] = "runAfterB"
           /\ UNCHANGED <<job, remote>>
           /\ \E outcome : /\ BodyRan(n, outcome) /\ node'[n].failer = "passed"
                            /\ node'[n].after = AfterAfterB(n, outcome)
                            /\ node'[n][g] = "reportAfter" /\ node'[n].tornDown
<1>1. PICK r \in run("sync", node[n].failer) :
          /\ IF r.wrong THEN Wrong ELSE Fine
          /\ node' = [node EXCEPT ![n] =
                  [Drain(Returned(n, r)) EXCEPT !.after = IF @ = "passed" THEN Returned(n, r).failer ELSE @,
                                                ![g] = "reportAfter", !.tornDown = TRUE]]
      BY DEF runAfterB, Running
<1> DEFINE p == Returned(n, r)
           q == [Drain(p) EXCEPT !.after = IF @ = "passed" THEN p.failer ELSE @, ![g] = "reportAfter",
                                 !.tornDown = TRUE]
<1>n. node' = [node EXCEPT ![n] = q]  BY <1>1
<1>2. /\ IsProc(p) /\ Agree(node[n], p, {"failer", "strays"}) /\ p.failer \in Outcomes /\ p.strays \in Nat
      /\ ~r.wrong => p.failer = node[n].failer /\ p.strays = node[n].strays
      BY BodyReturns
<1> HIDE DEF p
<1>3. /\ IsProc(q) /\ Agree(p, q, {"failer", "after", g, "tornDown", "strays"}) /\ q.failer = "passed" /\ q.strays = p.strays
      /\ q.after = IF p.after = "passed" THEN p.failer ELSE p.after
      /\ q[g] = "reportAfter" /\ q.tornDown
      BY <1>2 DEF IsProc, Agree, Fields, Drain
<1> HIDE DEF q
<1>4. Agree(node[n], q, {"failer", "after", g, "tornDown", "strays"})  BY <1>2, <1>3 DEF Agree
<1>5. Frame(n, {"failer", "after", g, "tornDown", "strays"}) /\ node'[n] = q  BY <1>n, <1>3, <1>4, SetNode DEF Frame
<1>6. BodyRan(n, p.failer)  BY <1>1, <1>2, <1>3, <1>5 DEF BodyRan
<1>7. p.data = node[n].data /\ p.after = node[n].after  BY <1>2 DEF Agree, Fields
<1>8. /\ BodyRan(n, p.failer) /\ node'[n].failer = "passed"
      /\ node'[n].after = AfterAfterB(n, p.failer) /\ node'[n][g] = "reportAfter" /\ node'[n].tornDown
      BY <1>3, <1>5, <1>6, <1>7 DEF AfterAfterB
<1>9. (node[n].up = "up" /\ node[n][g] = "runAfterB") /\ UNCHANGED <<job, remote>>  BY DEF runAfterB, At, AtIn, IsUp
<1>q. QED  BY <1>5, <1>8, <1>9, Zenon

\* What the sample of node n is like when now ran with this outcome.
IsLast(n, now, outcome) == node[n].todo = {now} \/ outcome # "passed"
StateAfter(n, outcome) == IF node[n].unwinding /\ node[n].state # "passed" THEN node[n].state ELSE outcome
UnwindingAfter(n, now, outcome) == IF node[n].unwinding THEN node[n].unwinding ELSE IsLast(n, now, outcome)
TodoAfter(n, now, outcome) ==
    IF ~node[n].unwinding /\ IsLast(n, now, outcome)
    THEN Unwinding(job.suite, node[n].specs[node[n].i], now) ELSE node[n].todo \ {now}

LEMMA RunSample ==
    ASSUME Procs, Typed, NEW n \in Nodes, runSample(n)
    PROVE  /\ Frame(n, {"failer", "ran", "state", "todo", "unwinding", "strays"})
           /\ node[n].up = "up" /\ node[n].main = "runSample"
           /\ UNCHANGED <<job, remote>>
           /\ \E now, outcome : /\ BodyRan(n, outcome) /\ node'[n].failer = "passed"
                                /\ IsFirst(now, node[n].todo)
                                /\ node'[n].ran = Append(node[n].ran, [node |-> now, outcome |-> outcome])
                                /\ node'[n].state = StateAfter(n, outcome)
                                /\ node'[n].unwinding = UnwindingAfter(n, now, outcome)
                                /\ node'[n].todo = TodoAfter(n, now, outcome)
<1>0. PICK now \in node[n].todo :
          /\ IsFirst(now, node[n].todo)
          /\ Running(n, now.body, LAMBDA p : Ran(p, p.specs[p.i], now, p.failer))
      BY DEF runSample
<1>1. PICK r \in run(now.body, node[n].failer) :
          /\ IF r.wrong THEN Wrong ELSE Fine
          /\ node' =
                  [node EXCEPT ![n] = Ran(Returned(n, r), Returned(n, r).specs[Returned(n, r).i], now, Returned(n, r).failer)]
      BY <1>0 DEF Running
<1> DEFINE p == Returned(n, r)
           q == Ran(p, p.specs[p.i], now, p.failer)
           o == p.failer
<1>n. node' = [node EXCEPT ![n] = q]  BY <1>1
<1>2. /\ IsProc(p) /\ Agree(node[n], p, {"failer", "strays"}) /\ p.failer \in Outcomes /\ p.strays \in Nat
      /\ ~r.wrong => p.failer = node[n].failer /\ p.strays = node[n].strays
      BY BodyReturns
<1> HIDE DEF p
<1> DEFINE p2 == [Drain(p) EXCEPT !.ran = Append(@, [node |-> now, outcome |-> p.failer])]
           last == p.todo = {now} \/ p.failer # "passed"
<1>p. /\ IsProc(p2) /\ Agree(p, p2, {"failer", "ran"}) /\ p2.failer = "passed"
      /\ p2.ran = Append(p.ran, [node |-> now, outcome |-> p.failer])
      BY <1>2 DEF IsProc, Agree, Fields, Drain
<1>r. q = IF p.unwinding
          THEN [p2 EXCEPT !.state = IF @ = "passed" THEN p.failer ELSE @, !.todo = @ \ {now}]
          ELSE [p2 EXCEPT !.state = p.failer, !.unwinding = last,
                          !.todo = IF last THEN Unwinding(job.suite, p.specs[p.i], now) ELSE @ \ {now}]
      BY DEF Ran
<1> HIDE DEF p2, q, last
<1>s. p2.state = p.state /\ p2.todo = p.todo /\ p2.unwinding = p.unwinding  BY <1>p DEF Agree, Fields
<1>3. /\ IsProc(q) /\ Agree(p2, q, {"state", "todo", "unwinding"})
      /\ q.state = IF p.unwinding THEN IF p.state = "passed" THEN p.failer ELSE p.state ELSE p.failer
      /\ q.unwinding = IF p.unwinding THEN p.unwinding ELSE last
      /\ q.todo = IF ~p.unwinding /\ last THEN Unwinding(job.suite, p.specs[p.i], now) ELSE p.todo \ {now}
  <2>1. CASE p.unwinding
        BY <1>p, <1>r, <1>s, <2>1 DEF IsProc, Agree, Fields
  <2>2. CASE ~p.unwinding
        BY <1>p, <1>r, <1>s, <2>2 DEF IsProc, Agree, Fields
  <2>q. QED  BY <2>1, <2>2
<1>4. /\ Agree(node[n], q, {"failer", "ran", "state", "todo", "unwinding", "strays"})
      /\ q.ran = p2.ran /\ q.failer = p2.failer /\ q.strays = p.strays
      BY <1>2, <1>3, <1>p DEF Agree, Fields
<1>5. Frame(n, {"failer", "ran", "state", "todo", "unwinding", "strays"}) /\ node'[n] = q
      BY <1>n, <1>3, <1>4, SetNode DEF Frame
<1>6. BodyRan(n, p.failer)  BY <1>1, <1>2, <1>4, <1>5 DEF BodyRan
<1>7. /\ p.todo = node[n].todo /\ p.unwinding = node[n].unwinding /\ p.state = node[n].state
      /\ p.specs = node[n].specs /\ p.i = node[n].i /\ p.ran = node[n].ran
      BY <1>2 DEF Agree, Fields
<1>8. /\ node'[n].failer = "passed"
      /\ node'[n].ran = Append(node[n].ran, [node |-> now, outcome |-> o])
      /\ node'[n].state = StateAfter(n, o)
      /\ node'[n].unwinding = UnwindingAfter(n, now, o)
      /\ node'[n].todo = TodoAfter(n, now, o)
      BY <1>3, <1>4, <1>5, <1>7, <1>p DEF StateAfter, UnwindingAfter, TodoAfter, IsLast, last
<1>9. node[n].up = "up" /\ node[n].main = "runSample" /\ UNCHANGED <<job, remote>>  BY DEF runSample, At, IsUp
<1>q. QED  BY <1>0, <1>5, <1>6, <1>8, <1>9, Zenon

\* The spec that is next on node n.
NextSpec(n) == IF node[n].skipRemaining THEN Skip(node[n].specs[node[n].i]) ELSE node[n].specs[node[n].i]
Runs(spec) == ~Skipped(spec) /\ ~Pending(spec)

\* Node n is at the beginning of a sample of spec.
AtStart(n, spec) ==
    /\ node'[n].todo = Ahead(job.suite, spec) /\ node'[n].unwinding = FALSE
    /\ node'[n].state = "passed" /\ node'[n].ran = <<>>

LEMMA RunSpecsEnd ==
    ASSUME Procs, NEW n \in Nodes, runSpecs(n), node[n].interrupted \/ node[n].i \notin DOMAIN node[n].specs
    PROVE  /\ Frame(n, {"main", "passed"})
           /\ node[n].up = "up" /\ node[n].main = "specs" /\ node'[n].main = "blockIfInterrupted"
           /\ node'[n].passed = IF node[n].i \in DOMAIN node[n].specs THEN node[n].suiteFailed ELSE ~node[n].suiteFailed
           /\ UNCHANGED <<job, remote, mayGoWrong>>
<1> DEFINE passed == IF node[n].i \in DOMAIN node[n].specs THEN node[n].suiteFailed ELSE ~node[n].suiteFailed
<1>1. node' = [node EXCEPT ![n].main = "blockIfInterrupted", ![n].passed = passed]  BY DEF runSpecs
<1>3. node[n].up = "up" /\ node[n].main = "specs" /\ UNCHANGED <<job, remote, mayGoWrong>>  BY DEF runSpecs, At, IsUp
<1> HIDE DEF passed
<1> DEFINE q == [node[n] EXCEPT !.main = "blockIfInterrupted", !.passed = passed]
<1>a. node' = [node EXCEPT ![n] = q]  BY <1>1 DEF Procs
<1>b. IsProc(node[n])  BY DEF Procs
<1>c. IsProc(q) /\ Agree(node[n], q, {"main", "passed"}) /\ q.main = "blockIfInterrupted" /\ q.passed = passed
      BY <1>b DEF IsProc, Agree, Fields
<1> HIDE DEF q
<1>d. Frame(n, {"main", "passed"}) /\ node'[n] = q  BY <1>a, <1>c, SetNode DEF Frame
<1>q. QED  BY <1>3, <1>c, <1>d DEF passed

LEMMA RunSpecsRun ==
    ASSUME Procs, NEW n \in Nodes, runSpecs(n), ~node[n].interrupted, node[n].i \in DOMAIN node[n].specs, Runs(NextSpec(n))
    PROVE  /\ Frame(n, {"specs", "todo", "unwinding", "state", "ran", "main", "sample"})
           /\ node[n].up = "up" /\ node[n].main = "specs" /\ node'[n].main = "runSample"
           /\ node'[n].specs = [node[n].specs EXCEPT ![node[n].i] = NextSpec(n)]
           /\ AtStart(n, NextSpec(n))
           /\ UNCHANGED <<job, remote, mayGoWrong>>
<1> DEFINE p == node[n]
           spec == NextSpec(n)
           p2 == [p EXCEPT !.specs[p.i] = spec]
           q == [StartSample(p2, spec) EXCEPT !.main = "runSample", !.sample = 1]
<1>1. node' = [node EXCEPT ![n] = q]  BY DEF runSpecs, Runs, NextSpec
<1>2. IsProc(p)  BY DEF Procs
<1> HIDE DEF p, spec
<1>3. IsProc(p2) /\ p2.specs = [p.specs EXCEPT ![p.i] = spec] /\ Agree(p, p2, {"specs"})
      BY <1>2 DEF IsProc, Agree, Fields
<1> HIDE DEF p2
<1>4. /\ IsProc(q) /\ Agree(p2, q, {"todo", "unwinding", "state", "ran", "main", "sample"})
      /\ q.todo = Ahead(job.suite, spec) /\ q.unwinding = FALSE /\ q.state = "passed" /\ q.ran = <<>>
      /\ q.main = "runSample"
      BY <1>3 DEF IsProc, Agree, Fields, StartSample
<1> HIDE DEF q
<1>5. Agree(p, q, {"specs", "todo", "unwinding", "state", "ran", "main", "sample"}) /\ q.specs = p2.specs
      BY <1>3, <1>4 DEF Agree, Fields
<1>6. Frame(n, {"specs", "todo", "unwinding", "state", "ran", "main", "sample"}) /\ node'[n] = q
      BY <1>1, <1>4, <1>5, SetNode DEF Frame, p
<1>7. node[n].up = "up" /\ node[n].main = "specs" /\ UNCHANGED <<job, remote, mayGoWrong>>  BY DEF runSpecs, At, IsUp
<1>q. QED  BY <1>3, <1>4, <1>5, <1>6, <1>7 DEF AtStart, p, spec

LEMMA RunSpecsPass ==
    ASSUME Procs, NEW n \in Nodes, runSpecs(n), ~node[n].interrupted, node[n].i \in DOMAIN node[n].specs, ~Runs(NextSpec(n))
    PROVE  /\ Frame(n, {"specs", "main", "suiteFailed"})
           /\ node[n].up = "up" /\ node[n].main = "specs" /\ node'[n].main = "completed"
           /\ node'[n].specs = [node[n].specs EXCEPT ![node[n].i] = NextSpec(n)]
           /\ node'[n].suiteFailed = (node[n].suiteFailed \/ (Pending(NextSpec(n)) /\ job.conf[n].failOnPending))
           /\ UNCHANGED <<job, remote, mayGoWrong>>
<1> DEFINE p == node[n]
           spec == NextSpec(n)
           p2 == [p EXCEPT !.specs[p.i] = spec]
           q == [p2 EXCEPT !.main = "completed", !.suiteFailed = @ \/ (Pending(spec) /\ job.conf[n].failOnPending)]
<1>1. node' = [node EXCEPT ![n] = q]  BY DEF runSpecs, Runs, NextSpec
<1>2. IsProc(p)  BY DEF Procs
<1> HIDE DEF p, spec
<1>3. IsProc(p2) /\ p2.specs = [p.specs EXCEPT ![p.i] = spec] /\ Agree(p, p2, {"specs"})
      BY <1>2 DEF IsProc, Agree, Fields
<1> HIDE DEF p2
<1>4. /\ IsProc(q) /\ Agree(p2, q, {"main", "suiteFailed"}) /\ q.main = "completed"
      /\ q.suiteFailed = (p2.suiteFailed \/ (Pending(spec) /\ job.conf[n].failOnPending))
      BY <1>3 DEF IsProc, Agree, Fields
<1> HIDE DEF q
<1>5. Agree(p, q, {"specs", "main", "suiteFailed"}) /\ q.specs = p2.specs /\ p2.suiteFailed = p.suiteFailed
      BY <1>3, <1>4 DEF Agree, Fields
<1>6. Frame(n, {"specs", "main", "suiteFailed"}) /\ node'[n] = q
      BY <1>1, <1>4, <1>5, SetNode DEF Frame, p
<1>7. node[n].up = "up" /\ node[n].main = "specs" /\ UNCHANGED <<job, remote, mayGoWrong>>  BY DEF runSpecs, At, IsUp
<1>q. QED  BY <1>3, <1>4, <1>5, <1>6, <1>7 DEF p, spec

MoreSamples(n) ==
    node[n].state = "passed" /\ node[n].sample < job.suite.subjects[node[n].specs[node[n].i].subject].samples

LEMMA SampleAgain ==
    ASSUME Procs, NEW n \in Nodes, sampleEnds(n), MoreSamples(n)
    PROVE  /\ Frame(n, {"todo", "unwinding", "state", "ran", "sample"})
           /\ node[n].up = "up" /\ node[n].main = "runSample"
           /\ AtStart(n, node[n].specs[node[n].i])
           /\ UNCHANGED <<job, remote, mayGoWrong>>
<1> DEFINE p == node[n]
           spec == p.specs[p.i]
           q == [StartSample(p, spec) EXCEPT !.sample = @ + 1]
<1>1. node' = [node EXCEPT ![n] = q]  BY DEF sampleEnds, MoreSamples
<1>2. IsProc(p)  BY DEF Procs
<1> HIDE DEF p, spec
<1>4. /\ IsProc(q) /\ Agree(p, q, {"todo", "unwinding", "state", "ran", "sample"})
      /\ q.todo = Ahead(job.suite, spec) /\ q.unwinding = FALSE /\ q.state = "passed" /\ q.ran = <<>>
      BY <1>2 DEF IsProc, Agree, Fields, StartSample
<1> HIDE DEF q
<1>6. Frame(n, {"todo", "unwinding", "state", "ran", "sample"}) /\ node'[n] = q
      BY <1>1, <1>4, SetNode DEF Frame, p
<1>7. node[n].up = "up" /\ node[n].main = "runSample" /\ UNCHANGED <<job, remote, mayGoWrong>>
      BY DEF sampleEnds, At, IsUp
<1>q. QED  BY <1>4, <1>6, <1>7 DEF AtStart, p, spec

LEMMA SampleLast ==
    ASSUME Procs, NEW n \in Nodes, sampleEnds(n), ~MoreSamples(n)
    PROVE  /\ Frame(n, {"specs", "main", "suiteFailed"})
           /\ node[n].up = "up" /\ node[n].main = "runSample" /\ node'[n].main = "completed"
           /\ node'[n].specs = [node[n].specs EXCEPT ![node[n].i].state = node[n].state]
           /\ node'[n].suiteFailed = (node[n].suiteFailed \/ node[n].state # "passed")
           /\ UNCHANGED <<job, remote, mayGoWrong>>
<1> DEFINE p == node[n]
           q == [p EXCEPT !.specs[p.i].state = p.state, !.main = "completed", !.suiteFailed = @ \/ p.state # "passed"]
<1>1. node' = [node EXCEPT ![n] = q]  BY DEF sampleEnds, MoreSamples
<1>2. IsProc(p)  BY DEF Procs
<1> HIDE DEF p
<1>4. /\ IsProc(q) /\ Agree(p, q, {"specs", "main", "suiteFailed"})
      /\ q.specs = [p.specs EXCEPT ![p.i].state = p.state] /\ q.main = "completed"
      /\ q.suiteFailed = (p.suiteFailed \/ p.state # "passed")
      BY <1>2 DEF IsProc, Agree, Fields
<1> HIDE DEF q
<1>6. Frame(n, {"specs", "main", "suiteFailed"}) /\ node'[n] = q
      BY <1>1, <1>4, SetNode DEF Frame, p
<1>7. node[n].up = "up" /\ node[n].main = "runSample" /\ UNCHANGED <<job, remote, mayGoWrong>>
      BY DEF sampleEnds, At, IsUp
<1>q. QED  BY <1>4, <1>6, <1>7 DEF p

LEMMA WillBegin ==
    ASSUME Procs, NEW n \in Nodes, reportSuiteWillBegin(n)
    PROVE  /\ Frame(n, {"main", "handler"})
           /\ node[n].up = "up" /\ node[n].main = "begin" /\ node'[n].main = "before" /\ node'[n].handler = "registering"
           /\ UNCHANGED job
<1>1. node' = [node EXCEPT ![n].main = "before", ![n].handler = "registering"]  BY DEF reportSuiteWillBegin
<1>3. node[n].up = "up" /\ node[n].main = "begin" /\ UNCHANGED job  BY DEF reportSuiteWillBegin, At, IsUp
<1> DEFINE q == [node[n] EXCEPT !.main = "before", !.handler = "registering"]
<1>a. node' = [node EXCEPT ![n] = q]  BY <1>1 DEF Procs
<1>b. IsProc(node[n])  BY DEF Procs
<1>c. IsProc(q) /\ Agree(node[n], q, {"main", "handler"}) /\ q.main = "before" /\ q.handler = "registering"
      BY <1>b DEF IsProc, Agree, Fields
<1> HIDE DEF q
<1>d. Frame(n, {"main", "handler"}) /\ node'[n] = q  BY <1>a, <1>c, SetNode DEF Frame
<1>q. QED  BY <1>3, <1>c, <1>d

LEMMA SetupPassedOver ==
    ASSUME Procs, NEW n \in Nodes, runBeforeSuite(n), ~(job.suite.beforeSuite = "simple" /\ ~node[n].interrupted)
    PROVE  /\ Frame(n, {"main"})
           /\ node[n].up = "up" /\ node[n].main = "before"
           /\ \/ (job.suite.beforeSuite = "none" \/ node[n].interrupted) /\ node'[n].main = "specs"
              \/ n # 1 /\ job.suite.beforeSuite = "synchronized" /\ node'[n].main = "waitForA"
           /\ UNCHANGED <<job, remote, mayGoWrong>>
<1>1. \/ (job.suite.beforeSuite = "none" \/ node[n].interrupted) /\ node' = [node EXCEPT ![n].main = "specs"]
      \/ n # 1 /\ job.suite.beforeSuite = "synchronized" /\ node' = [node EXCEPT ![n].main = "waitForA"]
      BY DEF runBeforeSuite
<1>2. "main" \in Fields  BY DEF Fields
<1>3. node[n].up = "up" /\ node[n].main = "before" /\ UNCHANGED <<job, remote, mayGoWrong>>
      BY DEF runBeforeSuite, At, IsUp, Fine
<1>4. CASE (job.suite.beforeSuite = "none" \/ node[n].interrupted) /\ node' = [node EXCEPT ![n].main = "specs"]
      BY <1>2, <1>3, <1>4, SetNode1
<1>5. CASE n # 1 /\ job.suite.beforeSuite = "synchronized" /\ node' = [node EXCEPT ![n].main = "waitForA"]
      BY <1>2, <1>3, <1>5, SetNode1
<1>q. QED  BY <1>1, <1>4, <1>5

LEMMA PostA ==
    ASSUME Procs, NEW n \in Nodes, postA(n)
    PROVE  /\ Frame(n, {"main"})
           /\ node[n].up = "up" /\ node[n].main = "postA"
           /\ node'[n].main = IF node[n].before = "passed" THEN "runB" ELSE "reportBefore"
           /\ UNCHANGED job
<1> DEFINE main2 == IF node[n].before = "passed" THEN "runB" ELSE "reportBefore"
<1>1. node' = [node EXCEPT ![n].main = main2]  BY DEF postA
<1>2. "main" \in Fields  BY DEF Fields
<1>3. node[n].up = "up" /\ node[n].main = "postA" /\ UNCHANGED job  BY DEF postA, At, IsUp
<1> HIDE DEF main2
<1>4. Frame(n, {"main"}) /\ node'[n].main = main2  BY <1>1, <1>2, SetNode1
<1>q. QED  BY <1>3, <1>4 DEF main2

\* A setup that fails without a body that ran.
LEMMA SetupFails ==
    ASSUME Procs, NEW n \in Nodes, node' = [node EXCEPT ![n].before = "failed", ![n].main = "reportBefore"]
    PROVE  Frame(n, {"before", "main"}) /\ node'[n].before = "failed" /\ node'[n].main = "reportBefore"
<1> DEFINE q == [node[n] EXCEPT !.before = "failed", !.main = "reportBefore"]
<1>a. node' = [node EXCEPT ![n] = q]  BY DEF Procs
<1>b. IsProc(node[n])  BY DEF Procs
<1>c. IsProc(q) /\ Agree(node[n], q, {"before", "main"}) /\ q.before = "failed" /\ q.main = "reportBefore"
      BY <1>b DEF IsProc, Agree, Fields
<1> HIDE DEF q
<1>d. Frame(n, {"before", "main"}) /\ node'[n] = q  BY <1>a, <1>c, SetNode DEF Frame
<1>q. QED  BY <1>c, <1>d

LEMMA WaitForA ==
    ASSUME Procs, NEW n \in Nodes, waitForA(n)
    PROVE  /\ Frame(n, {"data", "main", "before"})
           /\ node[n].up = "up" /\ node[n].main = "waitForA"
           /\ \/ /\ remote.beforeSuiteData.state = "passed" /\ node'[n].before = node[n].before
                 /\ node'[n].data = remote.beforeSuiteData.data /\ node'[n].main = "runB" /\ Fine
              \/ /\ remote.beforeSuiteData.state = "pending" /\ node'[n].before = node[n].before
                 /\ node'[n].data = node[n].data /\ node'[n].main = "askAlive" /\ Fine
              \/ /\ node'[n].data = node[n].data /\ node'[n].main = "reportBefore" /\ node'[n].before = "failed"
                 /\ Wrong \/ (Fine /\ remote.beforeSuiteData.state = "failed")
           /\ UNCHANGED <<job, remote>>
<1> DEFINE read == remote.beforeSuiteData
<1>1. \/ read.state = "passed" /\ node' = [node EXCEPT ![n].data = read.data, ![n].main = "runB"] /\ Fine
      \/ read.state = "pending" /\ node' = [node EXCEPT ![n].main = "askAlive"] /\ Fine
      \/ /\ node' = [node EXCEPT ![n].before = "failed", ![n].main = "reportBefore"]
         /\ Wrong \/ (Fine /\ read.state = "failed")
      BY DEF waitForA
<1> HIDE DEF read
<1>2. "before" \in Fields \ {"data", "main"} /\ "data" \in Fields \ {"main"} /\ "main" \in Fields  BY DEF Fields
<1>3. node[n].up = "up" /\ node[n].main = "waitForA" /\ UNCHANGED <<job, remote>>  BY DEF waitForA, At, IsUp
<1>4. CASE read.state = "passed" /\ node' = [node EXCEPT ![n].data = read.data, ![n].main = "runB"] /\ Fine
  <2> DEFINE q == [node[n] EXCEPT !.data = read.data, !.main = "runB"]
  <2>a. node' = [node EXCEPT ![n] = q]  BY <1>4 DEF Procs
  <2>b. IsProc(node[n])  BY DEF Procs
  <2>c. IsProc(q) /\ Agree(node[n], q, {"data", "main"}) /\ q.data = read.data /\ q.main = "runB"
        BY <2>b DEF IsProc, Agree, Fields
  <2> HIDE DEF q
  <2>d. Frame(n, {"data", "main"}) /\ node'[n] = q  BY <2>a, <2>c, SetNode DEF Frame
  <2>1. Frame(n, {"data", "main"}) /\ node'[n].data = read.data /\ node'[n].main = "runB"  BY <2>c, <2>d
  <2>2. Frame(n, {"data", "main", "before"}) /\ node'[n].before = node[n].before  BY <1>2, <2>1 DEF Frame, Agree
  <2>q. QED  BY <1>3, <1>4, <2>1, <2>2 DEF read
<1>5. CASE read.state = "pending" /\ node' = [node EXCEPT ![n].main = "askAlive"] /\ Fine
  <2>1. Frame(n, {"main"}) /\ node'[n].main = "askAlive"  BY <1>2, <1>5, SetNode1
  <2>2. Frame(n, {"data", "main", "before"}) /\ node'[n].before = node[n].before /\ node'[n].data = node[n].data
        BY <1>2, <2>1 DEF Frame, Agree
  <2>q. QED  BY <1>3, <1>5, <2>1, <2>2 DEF read
<1>6. CASE /\ node' = [node EXCEPT ![n].before = "failed", ![n].main = "reportBefore"]
           /\ Wrong \/ (Fine /\ read.state = "failed")
  <2>1. Frame(n, {"before", "main"}) /\ node'[n].before = "failed" /\ node'[n].main = "reportBefore"
        BY <1>6, SetupFails
  <2>2. Frame(n, {"data", "main", "before"}) /\ node'[n].data = node[n].data  BY <2>1 DEF Frame, Agree, Fields
  <2>q. QED  BY <1>3, <1>6, <2>1, <2>2 DEF read
<1>q. QED  BY <1>1, <1>4, <1>5, <1>6

LEMMA AskAlive ==
    ASSUME Procs, NEW n \in Nodes, askAlive(n)
    PROVE  /\ Frame(n, {"main", "before"})
           /\ node[n].up = "up" /\ node[n].main = "askAlive"
           /\ \/ node'[n].before = node[n].before /\ node'[n].main = "waitForA" /\ Fine
              \/ /\ node'[n].main = "reportBefore" /\ node'[n].before = "failed"
                 /\ Wrong \/ (Fine /\ ~Alive[1])
           /\ UNCHANGED <<job, remote>>
<1>1. \/ node' = [node EXCEPT ![n].main = "waitForA"] /\ Fine
      \/ /\ node' = [node EXCEPT ![n].before = "failed", ![n].main = "reportBefore"]
         /\ Wrong \/ (Fine /\ ~Alive[1])
      BY DEF askAlive, handleBeforeSuiteState, NewServer, RemoteBeforeSuiteData
<1>2. "before" \in Fields \ {"main"} /\ "main" \in Fields  BY DEF Fields
<1>3. node[n].up = "up" /\ node[n].main = "askAlive" /\ UNCHANGED <<job, remote>>  BY DEF askAlive, At, IsUp
<1>4. CASE node' = [node EXCEPT ![n].main = "waitForA"] /\ Fine
  <2>1. Frame(n, {"main"}) /\ node'[n].main = "waitForA"  BY <1>2, <1>4, SetNode1
  <2>2. Frame(n, {"main", "before"}) /\ node'[n].before = node[n].before  BY <1>2, <2>1 DEF Frame, Agree
  <2>q. QED  BY <1>3, <1>4, <2>1, <2>2
<1>5. CASE /\ node' = [node EXCEPT ![n].before = "failed", ![n].main = "reportBefore"]
           /\ Wrong \/ (Fine /\ ~Alive[1])
  <2>1. Frame(n, {"main", "before"}) /\ node'[n].before = "failed" /\ node'[n].main = "reportBefore"
        BY <1>5, SetupFails DEF Frame, Agree
  <2>q. QED  BY <1>3, <1>5, <2>1
<1>q. QED  BY <1>1, <1>4, <1>5

LEMMA ReportBefore ==
    ASSUME Procs, NEW n \in Nodes, reportBeforeSuite(n)
    PROVE  /\ Frame(n, {"passed", "main"})
           /\ node[n].up = "up" /\ node[n].main = "reportBefore"
           /\ node'[n].passed = (node[n].before = "passed")
           /\ node'[n].main = IF node[n].before = "passed" THEN "specs" ELSE "blockIfInterrupted"
           /\ UNCHANGED job
<1> DEFINE passed2 == node[n].before = "passed"
           main2 == IF node[n].before = "passed" THEN "specs" ELSE "blockIfInterrupted"
<1>1. node' = [node EXCEPT ![n].passed = passed2, ![n].main = main2]  BY DEF reportBeforeSuite
<1>3. node[n].up = "up" /\ node[n].main = "reportBefore" /\ UNCHANGED job  BY DEF reportBeforeSuite, At, IsUp
<1> HIDE DEF passed2, main2
<1> DEFINE q == [node[n] EXCEPT !.passed = passed2, !.main = main2]
<1>a. node' = [node EXCEPT ![n] = q]  BY <1>1 DEF Procs
<1>b. IsProc(node[n])  BY DEF Procs
<1>c. IsProc(q) /\ Agree(node[n], q, {"passed", "main"}) /\ q.passed = passed2 /\ q.main = main2
      BY <1>b DEF IsProc, Agree, Fields
<1> HIDE DEF q
<1>d. Frame(n, {"passed", "main"}) /\ node'[n] = q  BY <1>a, <1>c, SetNode DEF Frame
<1>q. QED  BY <1>3, <1>c, <1>d DEF main2, passed2

LEMMA DidComplete ==
    ASSUME Procs, NEW n \in Nodes, reportSpecDidComplete(n)
    PROVE  /\ Frame(n, {"i", "main", "skipRemaining"})
           /\ node[n].up = "up" /\ node[n].main = "completed" /\ node'[n].main = "specs"
           /\ node'[n].i = node[n].i + 1
           /\ UNCHANGED job
<1> DEFINE i2 == node[n].i + 1
           skip2 == node[n].skipRemaining \/ (Failed(node[n].specs[node[n].i]) /\ job.conf[n].failFast)
<1>1. node' = [node EXCEPT ![n].i = i2, ![n].main = "specs", ![n].skipRemaining = skip2]
      BY DEF reportSpecDidComplete
<1>3. node[n].up = "up" /\ node[n].main = "completed" /\ UNCHANGED job  BY DEF reportSpecDidComplete, At, IsUp
<1> HIDE DEF i2, skip2
<1> DEFINE q == [node[n] EXCEPT !.i = i2, !.main = "specs", !.skipRemaining = skip2]
<1>a. node' = [node EXCEPT ![n] = q]  BY <1>1 DEF Procs
<1>b. IsProc(node[n])  BY DEF Procs
<1>c. IsProc(q) /\ Agree(node[n], q, {"i", "main", "skipRemaining"}) /\ q.i = i2 /\ q.main = "specs" /\ q.skipRemaining = skip2
      BY <1>b DEF IsProc, Agree, Fields
<1> HIDE DEF q
<1>d. Frame(n, {"i", "main", "skipRemaining"}) /\ node'[n] = q  BY <1>a, <1>c, SetNode DEF Frame
<1>q. QED  BY <1>3, <1>c, <1>d DEF i2

LEMMA Registers ==
    ASSUME Procs, NEW n \in Nodes, registerForInterrupts(n)
    PROVE  /\ Frame(n, {"handler"})
           /\ node[n].up = "up" /\ node[n].handler = "registering"
           /\ node'[n].handler = "listening"
           /\ UNCHANGED <<job, remote, mayGoWrong>>
<1> DEFINE new == "listening"
<1>1. node' = [node EXCEPT ![n].handler = new]  BY DEF registerForInterrupts
<1>2. "handler" \in Fields  BY DEF Fields
<1>3. node[n].up = "up" /\ node[n].handler = "registering" /\ UNCHANGED <<job, remote, mayGoWrong>>
      BY DEF registerForInterrupts, At, AtIn, IsUp, Fine
<1> HIDE DEF new
<1>4. Frame(n, {"handler"}) /\ node'[n].handler = new  BY <1>1, <1>2, SetNode1
<1>q. QED  BY <1>3, <1>4 DEF new

LEMMA Blocks ==
    ASSUME Procs, NEW n \in Nodes, blockForeverIfInterrupted(n)
    PROVE  /\ Frame(n, {"main"})
           /\ node[n].up = "up" /\ node[n].main = "blockIfInterrupted"
           /\ node'[n].main = IF node[n].interrupted THEN "blocked" ELSE "after"
           /\ UNCHANGED <<job, remote, mayGoWrong>>
<1> DEFINE new == IF node[n].interrupted THEN "blocked" ELSE "after"
<1>1. node' = [node EXCEPT ![n].main = new]  BY DEF blockForeverIfInterrupted
<1>2. "main" \in Fields  BY DEF Fields
<1>3. node[n].up = "up" /\ node[n].main = "blockIfInterrupted" /\ UNCHANGED <<job, remote, mayGoWrong>>
      BY DEF blockForeverIfInterrupted, At, AtIn, IsUp, Fine
<1> HIDE DEF new
<1>4. Frame(n, {"main"}) /\ node'[n].main = new  BY <1>1, <1>2, SetNode1
<1>q. QED  BY <1>3, <1>4 DEF new

LEMMA NoAfterSuite ==
    ASSUME Procs, NEW n \in Nodes, NEW g \in {"main", "handler"}, runAfterSuite(n, g), job.suite.afterSuite = "none"
    PROVE  /\ Frame(n, {g})
           /\ node[n].up = "up" /\ node[n][g] = "after"
           /\ node'[n][g] = "end"
           /\ UNCHANGED <<job, remote, mayGoWrong>>
<1> DEFINE new == "end"
<1>1. node' = [node EXCEPT ![n][g] = new]  BY DEF runAfterSuite
<1>2. g \in Fields  BY DEF Fields
<1>3. node[n].up = "up" /\ node[n][g] = "after" /\ UNCHANGED <<job, remote, mayGoWrong>>
      BY DEF runAfterSuite, At, AtIn, IsUp, Fine
<1> HIDE DEF new
<1>4. Frame(n, {g}) /\ node'[n][g] = new  BY <1>1, <1>2, SetNode1
<1>q. QED  BY <1>3, <1>4 DEF new

LEMMA OthersAreDone ==
    ASSUME Procs, NEW n \in Nodes, NEW g \in {"main", "handler"}, waitUntilOtherNodesAreDone(n, g)
    PROVE  /\ Frame(n, {g})
           /\ node[n].up = "up" /\ node[n][g] = "waitForOthers" /\ handleRemoteAfterSuiteData(Alive)
           /\ node'[n][g] = "runAfterB"
           /\ UNCHANGED <<job, remote, mayGoWrong>>
<1> DEFINE new == "runAfterB"
<1>1. node' = [node EXCEPT ![n][g] = new]  BY DEF waitUntilOtherNodesAreDone
<1>2. g \in Fields  BY DEF Fields
<1>3. /\ node[n].up = "up" /\ node[n][g] = "waitForOthers" /\ handleRemoteAfterSuiteData(Alive)
      /\ UNCHANGED <<job, remote, mayGoWrong>>
      BY DEF waitUntilOtherNodesAreDone, At, AtIn, IsUp, Fine
<1> HIDE DEF new
<1>4. Frame(n, {g}) /\ node'[n][g] = new  BY <1>1, <1>2, SetNode1
<1>q. QED  BY <1>3, <1>4 DEF new

LEMMA DidEnd ==
    ASSUME Procs, NEW n \in Nodes, NEW g \in {"main", "handler"}, reportSuiteDidEnd(n, g)
    PROVE  /\ Frame(n, {g})
           /\ node[n].up = "up" /\ node[n][g] = "end"
           /\ node'[n][g] = "exit"
           /\ UNCHANGED job
<1> DEFINE new == "exit"
<1>1. node' = [node EXCEPT ![n][g] = new]  BY DEF reportSuiteDidEnd
<1>2. g \in Fields  BY DEF Fields
<1>3. node[n].up = "up" /\ node[n][g] = "end" /\ UNCHANGED job  BY DEF reportSuiteDidEnd, At, AtIn, IsUp, Fine
<1> HIDE DEF new
<1>4. Frame(n, {g}) /\ node'[n][g] = new  BY <1>1, <1>2, SetNode1
<1>q. QED  BY <1>3, <1>4 DEF new

LEMMA Waited ==
    ASSUME Procs, NEW n \in Nodes, Wait(n)
    PROVE  /\ Frame(n, {"reaped"})
           /\ node[n].up = "gone" /\ ~node[n].reaped /\ cli.pc = "running"
           /\ node'[n].reaped = TRUE
           /\ UNCHANGED <<job, remote, mayGoWrong, cli>>
<1> DEFINE new == TRUE
<1>1. node' = [node EXCEPT ![n].reaped = new]  BY DEF Wait
<1>2. "reaped" \in Fields  BY DEF Fields
<1>3. node[n].up = "gone" /\ ~node[n].reaped /\ cli.pc = "running" /\ UNCHANGED <<job, remote, mayGoWrong, cli>>
      BY DEF Wait, At, AtIn, IsUp, Fine
<1> HIDE DEF new
<1>4. Frame(n, {"reaped"}) /\ node'[n].reaped = new  BY <1>1, <1>2, SetNode1
<1>q. QED  BY <1>3, <1>4 DEF new

LEMMA Marked ==
    ASSUME Procs, NEW n \in Nodes, markInterrupted(n)
    PROVE  /\ Frame(n, {"interrupted", "handler"})
           /\ node[n].up = "up" /\ node[n].handler = "listening" /\ node[n].signalled
           /\ UNCHANGED <<job, remote, mayGoWrong>>
           /\ node'[n].interrupted = TRUE /\ node'[n].handler = "after"
<1> DEFINE new0 == TRUE
           new1 == "after"
<1>1. node' = [node EXCEPT ![n].interrupted = new0, ![n].handler = new1]  BY DEF markInterrupted
<1>2. node[n].up = "up" /\ node[n].handler = "listening" /\ node[n].signalled /\ UNCHANGED <<job, remote, mayGoWrong>>
      BY DEF markInterrupted, At, AtIn, IsUp
<1> HIDE DEF new0, new1
<1> DEFINE q == [node[n] EXCEPT !.interrupted = new0, !.handler = new1]
<1>a. node' = [node EXCEPT ![n] = q]  BY <1>1 DEF Procs
<1>b. IsProc(node[n])  BY DEF Procs
<1>c. IsProc(q) /\ Agree(node[n], q, {"interrupted", "handler"}) /\ q.interrupted = new0 /\ q.handler = new1
      BY <1>b DEF IsProc, Agree, Fields
<1> HIDE DEF q
<1>d. Frame(n, {"interrupted", "handler"}) /\ node'[n] = q  BY <1>a, <1>c, SetNode DEF Frame
<1>q. QED  BY <1>2, <1>c, <1>d DEF new0, new1

LEMMA ReportAfter ==
    ASSUME Procs, NEW n \in Nodes, NEW g \in {"main", "handler"}, reportAfterSuite(n, g)
    PROVE  /\ Frame(n, {g, "passed"})
           /\ node[n].up = "up" /\ node[n][g] = "reportAfter"
           /\ UNCHANGED job
           /\ node'[n][g] = "end"
           /\ node'[n].passed = (IF g = "main" THEN node[n].after = "passed" /\ node[n].passed ELSE node[n].passed)
<1> DEFINE new0 == "end"
           new1 == (IF g = "main" THEN node[n].after = "passed" /\ node[n].passed ELSE node[n].passed)
<1>1. node' = [node EXCEPT ![n][g] = new0, ![n].passed = new1]  BY DEF reportAfterSuite
<1>2. node[n].up = "up" /\ node[n][g] = "reportAfter" /\ UNCHANGED job  BY DEF reportAfterSuite, At, AtIn, IsUp
<1> HIDE DEF new0, new1
<1> DEFINE q == [node[n] EXCEPT ![g] = new0, !.passed = new1]
<1>a. node' = [node EXCEPT ![n] = q]  BY <1>1 DEF Procs
<1>b. IsProc(node[n])  BY DEF Procs
<1>c. IsProc(q) /\ Agree(node[n], q, {g, "passed"}) /\ q[g] = new0 /\ q.passed = new1
      BY <1>b DEF IsProc, Agree, Fields
<1> HIDE DEF q
<1>d. Frame(n, {g, "passed"}) /\ node'[n] = q  BY <1>a, <1>c, SetNode DEF Frame
<1>q. QED  BY <1>2, <1>c, <1>d DEF new0, new1

LEMMA Exit ==
    ASSUME Procs, NEW n \in Nodes, NEW g \in {"main", "handler"}, Exits(n, g)
    PROVE  /\ Frame(n, {"up", "code"})
           /\ node[n].up = "up" /\ node[n][g] = "exit"
           /\ UNCHANGED <<job, remote, mayGoWrong>>
           /\ node'[n].up = "gone" /\ node'[n].code = (IF g = "handler" THEN 1 ELSE SuiteRun(node[n]))
<1> DEFINE new0 == "gone"
           new1 == (IF g = "handler" THEN 1 ELSE SuiteRun(node[n]))
<1>1. node' = [node EXCEPT ![n].up = new0, ![n].code = new1]  BY DEF Exits
<1>2. node[n].up = "up" /\ node[n][g] = "exit" /\ UNCHANGED <<job, remote, mayGoWrong>>  BY DEF Exits, At, AtIn, IsUp
<1> HIDE DEF new0, new1
<1> DEFINE q == [node[n] EXCEPT !.up = new0, !.code = new1]
<1>a. node' = [node EXCEPT ![n] = q]  BY <1>1 DEF Procs
<1>b. IsProc(node[n])  BY DEF Procs
<1>c. IsProc(q) /\ Agree(node[n], q, {"up", "code"}) /\ q.up = new0 /\ q.code = new1
      BY <1>b DEF IsProc, Agree, Fields
<1> HIDE DEF q
<1>d. Frame(n, {"up", "code"}) /\ node'[n] = q  BY <1>a, <1>c, SetNode DEF Frame
<1>q. QED  BY <1>2, <1>c, <1>d DEF new0, new1

LEMMA GoTestExit ==
    ASSUME Procs, NEW n \in Nodes, GoTestEnds(n)
    PROVE  /\ Frame(n, {"up", "code"})
           /\ node[n].up = "up" /\ node[n].main = "begin" /\ job.mode = "gotest"
           /\ UNCHANGED <<job, remote>>
           /\ \E passed \in BOOLEAN : /\ IF passed THEN Fine ELSE Wrong
                                     /\ node'[n].up = "gone" /\ node'[n].code = (IF passed THEN 0 ELSE 1)
<1>p. PICK passed \in BOOLEAN :
          /\ IF passed THEN Fine ELSE Wrong
          /\ node' = [node EXCEPT ![n].up = "gone", ![n].code = IF passed THEN 0 ELSE 1]
      BY DEF GoTestEnds
<1> DEFINE new0 == "gone"
           new1 == (IF passed THEN 0 ELSE 1)
<1>1. node' = [node EXCEPT ![n].up = new0, ![n].code = new1]  BY <1>p DEF GoTestEnds
<1>2. node[n].up = "up" /\ node[n].main = "begin" /\ job.mode = "gotest" /\ UNCHANGED <<job, remote>>
      BY DEF GoTestEnds, At, AtIn, IsUp
<1> HIDE DEF new0, new1
<1> DEFINE q == [node[n] EXCEPT !.up = new0, !.code = new1]
<1>a. node' = [node EXCEPT ![n] = q]  BY <1>1 DEF Procs
<1>b. IsProc(node[n])  BY DEF Procs
<1>c. IsProc(q) /\ Agree(node[n], q, {"up", "code"}) /\ q.up = new0 /\ q.code = new1
      BY <1>b DEF IsProc, Agree, Fields
<1> HIDE DEF q
<1>d. Frame(n, {"up", "code"}) /\ node'[n] = q  BY <1>a, <1>c, SetNode DEF Frame
<1>q. QED  BY <1>2, <1>c, <1>d, <1>p DEF new0, new1

LEMMA Crashes ==
    ASSUME Procs, NEW n \in Nodes, Crash(n)
    PROVE  /\ Frame(n, {"up", "code"})
           /\ node[n].up = "up" /\ Wrong
           /\ UNCHANGED <<job, remote>>
           /\ \E code \in {2, Killed} : node'[n].up = "gone" /\ node'[n].code = code
<1>p. PICK code \in {2, Killed} : node' = [node EXCEPT ![n].up = "gone", ![n].code = code]
      BY DEF Crash
<1> DEFINE new0 == "gone"
           new1 == code
<1>1. node' = [node EXCEPT ![n].up = new0, ![n].code = new1]  BY <1>p DEF Crash
<1>2. node[n].up = "up" /\ Wrong /\ UNCHANGED <<job, remote>>  BY DEF Crash, At, AtIn, IsUp
<1> HIDE DEF new0, new1
<1> DEFINE q == [node[n] EXCEPT !.up = new0, !.code = new1]
<1>a. node' = [node EXCEPT ![n] = q]  BY <1>1 DEF Procs
<1>b. IsProc(node[n])  BY DEF Procs
<1>c. IsProc(q) /\ Agree(node[n], q, {"up", "code"}) /\ q.up = new0 /\ q.code = new1
      BY <1>b DEF IsProc, Agree, Fields
<1> HIDE DEF q
<1>d. Frame(n, {"up", "code"}) /\ node'[n] = q  BY <1>a, <1>c, SetNode DEF Frame
<1>q. QED  BY <1>2, <1>c, <1>d, <1>p DEF new0, new1

LEMMA StrayEnds ==
    ASSUME Procs, NEW n \in Nodes, StrayFails(n)
    PROVE  /\ Frame(n, {"failer", "strays"})
           /\ node[n].up = "up" /\ node[n].strays > 0
           /\ UNCHANGED <<job, remote, mayGoWrong>>
           /\ \E f \in {Fail(node[n].failer), Panic(node[n].failer)} :
                  node'[n].failer = f /\ node'[n].strays = node[n].strays - 1
<1>p. PICK f \in {Fail(node[n].failer), Panic(node[n].failer)} : node' = [node EXCEPT ![n].failer = f, ![n].strays = @ - 1]
      BY DEF StrayFails
<1> DEFINE new0 == f
           new1 == node[n].strays - 1
<1>1. node' = [node EXCEPT ![n].failer = new0, ![n].strays = new1]  BY <1>p DEF StrayFails
<1>2. node[n].up = "up" /\ node[n].strays > 0 /\ UNCHANGED <<job, remote, mayGoWrong>>
      BY DEF StrayFails, At, AtIn, IsUp
<1> HIDE DEF new0, new1
<1> DEFINE q == [node[n] EXCEPT !.failer = new0, !.strays = new1]
<1>a. node' = [node EXCEPT ![n] = q]  BY <1>1 DEF Procs
<1>b. IsProc(node[n])  BY DEF Procs
<1>c. IsProc(q) /\ Agree(node[n], q, {"failer", "strays"}) /\ q.failer = new0 /\ q.strays = new1
      BY <1>b DEF IsProc, Agree, Fields
<1> HIDE DEF q
<1>d. Frame(n, {"failer", "strays"}) /\ node'[n] = q  BY <1>a, <1>c, SetNode DEF Frame
<1>q. QED  BY <1>2, <1>c, <1>d, <1>p DEF new0, new1

LEMMA OffIsProc ==
    /\ IsProc(Off) /\ Off.up = "off" /\ Off.reaped = FALSE /\ Off.code = 0 /\ Off.main = "begin" /\ Off.handler = "off"
    /\ Off.signalled = FALSE /\ Off.interrupted = FALSE /\ Off.i = 1 /\ Off.suiteFailed = FALSE
    /\ Off.before = "none" /\ Off.after = "none" /\ Off.data = "none" /\ Off.tornDown = FALSE
    /\ Off.failer = "passed" /\ Off.strays = 0 /\ Off.specs = <<>> /\ Off.skipRemaining = FALSE /\ Off.passed = TRUE
<1>1. Off.up = "off" /\ Off.reaped = FALSE /\ Off.code = 0 /\ Off.main = "begin" /\ Off.handler = "off"  BY DEF Off
<1>2. Off.signalled = FALSE /\ Off.interrupted = FALSE /\ Off.i = 1 /\ Off.suiteFailed = FALSE  BY DEF Off
<1>3. Off.before = "none" /\ Off.after = "none" /\ Off.data = "none" /\ Off.tornDown = FALSE  BY DEF Off
<1>4. /\ Off.failer = "passed" /\ Off.strays = 0 /\ Off.specs = <<>> /\ Off.skipRemaining = FALSE
      /\ Off.passed = TRUE
      BY DEF Off
<1>5. DOMAIN Off = Fields  BY DEF Off, Fields
<1>6. IsProc(Off)  BY DEF Off, Fields, IsProc
<1>q. QED  BY <1>1, <1>2, <1>3, <1>4, <1>6

\* No process has been started.
AllOff == node' = [n \in Nodes |-> Off]

LEMMA AllOffProcs ==
    ASSUME AllOff
    PROVE  Procs' /\ \A n \in Nodes : node'[n] = Off
  BY OffIsProc DEF Procs, AllOff

LEMMA Starts ==
    ASSUME Procs, NEW n \in Nodes, Start(n)
    PROVE  /\ Frame(n, Fields) /\ cli.pc = "running" /\ n <= job.total /\ node[n].up = "off"
           /\ UNCHANGED <<job, remote, cli>>
           /\ \/ Fine /\ job.suite.panicked /\ Agree(Off, node'[n], {"up", "code"})
                      /\ node'[n].up = "gone" /\ node'[n].code = 2
              \/ Fine /\ ~job.suite.panicked /\ Agree(Off, node'[n], {"up", "specs", "focused"})
                      /\ node'[n].up = "up" /\ node'[n].specs = generateSpecs(job.suite, job.conf[n], job.all[n])
              \/ Wrong /\ Agree(node[n], node'[n], {"up"}) /\ node'[n].up = "failed"
<1>1. cli.pc = "running" /\ n <= job.total /\ node[n].up = "off" /\ UNCHANGED <<job, remote, cli>>  BY DEF Start
<1>2. CASE Fine /\ node' = [node EXCEPT ![n] = Started(n)] /\ job.suite.panicked
  <2>1. /\ IsProc(Started(n)) /\ Agree(Off, Started(n), {"up", "code"})
        /\ Started(n).up = "gone" /\ Started(n).code = 2
        BY <1>2, OffIsProc DEF Started, IsProc, Agree, Fields
  <2>2. Procs' /\ node'[n] = Started(n) /\ \A k \in Nodes \ {n} : node'[k] = node[k]  BY <1>2, <2>1, SetNode
  <2>q. QED  BY <1>1, <1>2, <2>1, <2>2 DEF Frame, Agree
<1>3. CASE Fine /\ node' = [node EXCEPT ![n] = Started(n)] /\ ~job.suite.panicked
  <2>1. /\ IsProc(Started(n)) /\ Agree(Off, Started(n), {"up", "specs", "focused"})
        /\ Started(n).up = "up" /\ Started(n).specs = generateSpecs(job.suite, job.conf[n], job.all[n])
        BY <1>3, OffIsProc DEF Started, IsProc, Agree, Fields
  <2>2. Procs' /\ node'[n] = Started(n) /\ \A k \in Nodes \ {n} : node'[k] = node[k]  BY <1>3, <2>1, SetNode
  <2>q. QED  BY <1>1, <1>3, <2>1, <2>2 DEF Frame, Agree
<1>4. CASE Wrong /\ node' = [node EXCEPT ![n].up = "failed"]
  <2>0. "up" \in Fields  BY DEF Fields
  <2>1. Frame(n, {"up"}) /\ node'[n].up = "failed"  BY <1>4, <2>0, SetNode1
  <2>q. QED  BY <1>1, <1>4, <2>1 DEF Frame, Agree
<1>q. QED  BY <1>2, <1>3, <1>4 DEF Start

\* An interrupt tells a process that listens, and ends one that does not.
LEMMA Interrupts ==
    ASSUME Procs, Interrupt
    PROVE  /\ Procs' /\ UNCHANGED <<job, remote>> /\ Wrong
           /\ \A n \in Nodes :
                 \/ node'[n] = node[n] /\ node[n].up # "up"
                 \/ /\ node[n].up = "up" /\ Agree(node[n], node'[n], {"signalled"}) /\ node[n].handler = "listening"
                    /\ node'[n].signalled
                 \/ /\ node[n].up = "up" /\ Agree(node[n], node'[n], {"up", "code"})
                    /\ node'[n].up = "gone" /\ node'[n].code \in {1, 2}
<1>1. PICK code \in {1, 2} : node' = [n \in Nodes |-> Signalled(node[n], code)]  BY DEF Interrupt
<1>2. ASSUME NEW n \in Nodes
      PROVE  /\ IsProc(Signalled(node[n], code))
             /\ \/ Signalled(node[n], code) = node[n] /\ node[n].up # "up"
                \/ /\ node[n].up = "up" /\ Agree(node[n], Signalled(node[n], code), {"signalled"})
                   /\ node[n].handler = "listening" /\ Signalled(node[n], code).signalled
                \/ /\ node[n].up = "up" /\ Agree(node[n], Signalled(node[n], code), {"up", "code"})
                   /\ Signalled(node[n], code).up = "gone" /\ Signalled(node[n], code).code \in {1, 2}
  <2> DEFINE p == node[n]
  <2>1. IsProc(p)  BY DEF Procs
  <2> HIDE DEF p
  <2>2. CASE p.up # "up"  BY <2>1, <2>2 DEF Signalled, p
  <2>3. CASE p.up = "up" /\ p.handler = "listening"
    <3>1. Signalled(p, code) = [p EXCEPT !.signalled = TRUE]  BY <2>3 DEF Signalled
    <3>q. QED  BY <2>1, <2>3, <3>1 DEF IsProc, Agree, Fields, p
  <2>4. CASE p.up = "up" /\ p.handler # "listening"
    <3> DEFINE c == IF p.interrupted THEN code ELSE 2
    <3>1. Signalled(p, code) = [p EXCEPT !.up = "gone", !.code = c] /\ c \in {1, 2}  BY <2>4 DEF Signalled
    <3> HIDE DEF c
    <3>q. QED  BY <2>1, <2>4, <3>1 DEF IsProc, Agree, Fields, p
  <2>q. QED  BY <2>2, <2>3, <2>4
<1>3. \A n \in Nodes : node'[n] = Signalled(node[n], code)  BY <1>1
<1>4. Procs'  BY <1>1, <1>2, <1>3 DEF Procs
<1>5. UNCHANGED <<job, remote>> /\ Wrong  BY DEF Interrupt
<1>q. QED  BY <1>2, <1>3, <1>4, <1>5

-----------------------------------------------------------------------------
RemoteFields ==
    {"mux", "begun", "befores", "completed", "afters", "ended", "willRun", "setups", "announced", "beforeSuiteData"}

IsRemote(r) == r = [f \in RemoteFields |-> r[f]]

\* A report leaves the shared data alone.
Keeps(r) == IsRemote(r) /\ r.beforeSuiteData = remote.beforeSuiteData

LEMMA NewRemoteData == IsRemote(NewRemote) /\ NewRemote.beforeSuiteData = [state |-> "pending", data |-> "none"]
  BY DEF IsRemote, NewRemote, NewAggregator, NewServer, RemoteBeforeSuiteData, RemoteFields

LEMMA FlushKeeps ==
    ASSUME NEW r, Keeps(r)
    PROVE  Keeps(flushCompletedSpecs(r))
  BY DEF Keeps, IsRemote, flushCompletedSpecs, RemoteFields

LEMMA RegistersKeep ==
    ASSUME IsRemote(remote)
    PROVE  /\ Keeps(remote)
           /\ \A x : /\ Keeps(registerSuiteBeginning(remote, x)) /\ Keeps(registerBeforeSuite(remote, x))
                     /\ Keeps(registerAfterSuite(remote, x)) /\ Keeps(registerSpecCompletion(remote, x))
                     /\ Keeps(registerSuiteEnding(remote, x)) /\ Keeps(reporterBeforeSuiteDidRun(remote, x))
                     /\ Keeps(reporterAfterSuiteDidRun(remote, x)) /\ Keeps(reporterSpecDidComplete(remote, x))
<1>0. Keeps(remote)  BY DEF Keeps
<1> SUFFICES ASSUME NEW x
             PROVE  /\ Keeps(registerSuiteBeginning(remote, x)) /\ Keeps(registerBeforeSuite(remote, x))
                    /\ Keeps(registerAfterSuite(remote, x)) /\ Keeps(registerSpecCompletion(remote, x))
                    /\ Keeps(registerSuiteEnding(remote, x)) /\ Keeps(reporterBeforeSuiteDidRun(remote, x))
                    /\ Keeps(reporterAfterSuiteDidRun(remote, x)) /\ Keeps(reporterSpecDidComplete(remote, x))
    BY <1>0
<1>1. Keeps(registerBeforeSuite(remote, x))
  <2>1. Keeps([remote EXCEPT !.befores = Append(@, x)])  BY DEF Keeps, IsRemote, RemoteFields
  <2>q. QED  BY <2>1, FlushKeeps DEF registerBeforeSuite
<1>2. Keeps(registerAfterSuite(remote, x))
  <2>1. Keeps([remote EXCEPT !.afters = Append(@, x)])  BY DEF Keeps, IsRemote, RemoteFields
  <2>q. QED  BY <2>1, FlushKeeps DEF registerAfterSuite
<1>3. Keeps(registerSpecCompletion(remote, x))
  <2>1. Keeps([remote EXCEPT !.completed = Append(@, x)])  BY DEF Keeps, IsRemote, RemoteFields
  <2>q. QED  BY <2>1, FlushKeeps DEF registerSpecCompletion
<1>4. Keeps(registerSuiteEnding(remote, x))  BY DEF registerSuiteEnding, Keeps, IsRemote, RemoteFields
<1>5. Keeps(registerSuiteBeginning(remote, x))
  <2> DEFINE begun == Append(remote.begun, x)
             r2 == [remote EXCEPT !.begun = begun]
             r3 == [r2 EXCEPT !.willRun = Total(begun, "willRun")]
  <2>1. Keeps(r2)  BY DEF Keeps, IsRemote, RemoteFields
  <2>2. registerSuiteBeginning(remote, x) = IF Len(begun) # job.total THEN r2 ELSE flushCompletedSpecs(r3)
        BY DEF registerSuiteBeginning
  <2> HIDE DEF r2, begun
  <2>3. Keeps(r3)  BY <2>1 DEF Keeps, IsRemote, RemoteFields
  <2> HIDE DEF r3
  <2>q. QED  BY <2>1, <2>2, <2>3, FlushKeeps
<1>6. Keeps(reporterBeforeSuiteDidRun(remote, x))  BY DEF reporterBeforeSuiteDidRun, Keeps, IsRemote, RemoteFields
<1>7. Keeps(reporterAfterSuiteDidRun(remote, x))  BY DEF reporterAfterSuiteDidRun, Keeps, IsRemote, RemoteFields
<1>8. Keeps(reporterSpecDidComplete(remote, x))  BY DEF reporterSpecDidComplete, Keeps, IsRemote, RemoteFields
<1>q. QED  BY <1>1, <1>2, <1>3, <1>4, <1>5, <1>6, <1>7, <1>8

LEMMA ReportKeeps ==
    ASSUME IsRemote(remote), NEW r, NEW d, Keeps(r), Keeps(d), Report(r, d)
    PROVE  IsRemote(remote') /\ remote'.beforeSuiteData = remote.beforeSuiteData /\ (Fine \/ Wrong)
  BY DEF Report, post, StreamingEndpoint, mux, Keeps

\* The steps of a process that report.
LEMMA ReportingSteps ==
    ASSUME IsRemote(remote), NEW n, NEW g,
           \/ reportSuiteWillBegin(n) \/ reportBeforeSuite(n) \/ reportSpecDidComplete(n)
           \/ reportAfterSuite(n, g) \/ reportSuiteDidEnd(n, g)
    PROVE  IsRemote(remote') /\ remote'.beforeSuiteData = remote.beforeSuiteData /\ (Fine \/ Wrong)
<1>1. CASE reportSuiteWillBegin(n)  BY <1>1, RegistersKeep, ReportKeeps DEF reportSuiteWillBegin
<1>2. CASE reportBeforeSuite(n)  BY <1>2, RegistersKeep, ReportKeeps DEF reportBeforeSuite
<1>3. CASE reportSpecDidComplete(n)  BY <1>3, RegistersKeep, ReportKeeps DEF reportSpecDidComplete
<1>4. CASE reportAfterSuite(n, g)  BY <1>4, RegistersKeep, ReportKeeps DEF reportAfterSuite
<1>5. CASE reportSuiteDidEnd(n, g)  BY <1>5, RegistersKeep, ReportKeeps DEF reportSuiteDidEnd
<1>q. QED  BY <1>1, <1>2, <1>3, <1>4, <1>5

-----------------------------------------------------------------------------
CliFields ==
    {"inv", "pc", "order", "next", "compile", "compiled", "callback", "res", "suiteRes", "collected", "typed",
     "signalled", "interrupts", "code"}

IsCli(c) == c = [f \in CliFields |-> c[f]]

\* The records have their fields, the command runs one of the invocations,
\* and the suite has no more nodes than there may be.
Shape ==
    /\ Procs /\ Typed /\ IsRemote(remote) /\ IsCli(cli)
    /\ cli.inv \in Invocations
    /\ job.total \in 0 .. MaxNodes

LEMMA RunSuitesCli ==
    ASSUME NEW order, IsCli(cli)
    PROVE  IsCli(RunSuites(cli, order)) /\ RunSuites(cli, order).inv = cli.inv
  BY DEF RunSuites, IsCli, CliFields

LEMMA CliStays ==
    ASSUME IsCli(cli), [Next]_vars
    PROVE  IsCli(cli') /\ cli'.inv = cli.inv
<1>1. CASE NextSuite  BY <1>1 DEF NextSuite, IsCli, CliFields
<1>2. CASE AwaitResult  BY <1>2 DEF AwaitResult, IsCli, CliFields
<1>3. CASE SuiteRan  BY <1>3 DEF SuiteRan, IsCli, CliFields
<1>4. CASE SuitesDone  BY <1>4 DEF SuitesDone, Only, IsCli, CliFields
<1>5. CASE RunSpecs  BY <1>5, RunSuitesCli DEF RunSpecs, Only
<1>6. CASE RunSpecsEnds
  <2>1. \/ cli' = [cli EXCEPT !.pc = "start"]
        \/ \E code : cli' = [cli EXCEPT !.pc = "exited", !.code = code]
        BY <1>6 DEF RunSpecsEnds, Only
  <2>q. QED  BY <2>1 DEF IsCli, CliFields
<1>7. CASE WatchSuites
  <2>1. \/ cli' = [cli EXCEPT !.pc = "exited", !.code = 1]
        \/ \E order : cli' = RunSuites(cli, order)
        \/ cli' = [cli EXCEPT !.pc = "watching"]
        BY <1>7 DEF WatchSuites
  <2>q. QED  BY <2>1, RunSuitesCli DEF IsCli, CliFields
<1>8. CASE Tick
  <2>1. \/ cli' = [cli EXCEPT !.pc = "exited", !.code = 2]
        \/ cli' = cli
        \/ \E order : cli' = [RunSuites(cli, order) EXCEPT !.callback = TRUE]
        BY <1>8 DEF Tick
  <2>2. ASSUME NEW order PROVE LET c == [RunSuites(cli, order) EXCEPT !.callback = TRUE] IN IsCli(c) /\ c.inv = cli.inv
        BY RunSuitesCli DEF IsCli, CliFields
  <2>q. QED  BY <2>1, <2>2 DEF IsCli, CliFields
<1>9. CASE ResumeWatch  BY <1>9 DEF ResumeWatch, Only, IsCli, CliFields
<1>10. CASE StopWatch  BY <1>10 DEF StopWatch, Only, IsCli, CliFields
<1>11. CASE handleInterrupt
  <2>1. \E pc, code : cli' = [cli EXCEPT !.signalled = FALSE, !.interrupts = @ + 1, !.pc = pc, !.code = code]
        BY <1>11 DEF handleInterrupt, Only
  <2>q. QED  BY <2>1 DEF IsCli, CliFields
<1>12. ASSUME NEW i, willCompile(i) PROVE IsCli(cli') /\ cli'.inv = cli.inv
       BY <1>12 DEF willCompile, IsCli, CliFields
<1>13. ASSUME NEW i, compile(i) PROVE IsCli(cli') /\ cli'.inv = cli.inv
  <2>1. \E x, y : cli' = [cli EXCEPT !.compile[i] = x, !.compiled = y]  BY <1>13 DEF compile
  <2>q. QED  BY <2>1 DEF IsCli, CliFields
<1>14. CASE Interrupt  BY <1>14 DEF Interrupt, IsCli, CliFields
<1>15. ASSUME NEW n, Completion(n) PROVE IsCli(cli') /\ cli'.inv = cli.inv
  <2>1. \E x, y, z : cli' = [cli EXCEPT !.collected = x, !.suiteRes = y, !.pc = z]  BY <1>15 DEF Completion, Only
  <2>q. QED  BY <2>1 DEF IsCli, CliFields
<1>16. CASE cli' = cli  BY <1>16
<1>q. QED
  <2>1. CASE CommandStep  BY <2>1, <1>1, <1>2, <1>3, <1>4, <1>5, <1>6, <1>7, <1>8, <1>9, <1>10 DEF CommandStep
  <2>2. CASE Background  BY <2>2, <1>11, <1>12, <1>13 DEF Background
  <2>3. CASE Develop  BY <2>3, <1>16 DEF Develop
  <2>4. ASSUME NEW n \in Nodes, Start(n) \/ Wait(n) \/ Completion(n) \/ ProcessStep(n)
        PROVE  IsCli(cli') /\ cli'.inv = cli.inv
        BY <2>4, <1>15, <1>16 DEF Start, Wait, ProcessStep
  <2>5. CASE UNCHANGED vars  BY <2>5, <1>16 DEF vars
  <2>q. QED  BY <2>1, <2>2, <2>3, <2>4, <2>5, <1>14 DEF Next

\* What happens to the processes: one of them takes a step of its own, is
\* started or waited for; all are interrupted; or the next suite begins.
OwnStep(n) == Main(n) \/ Finish(n, "main") \/ Handler(n) \/ StrayFails(n) \/ Crash(n)

LEMMA NextKinds ==
    ASSUME [Next]_vars
    PROVE  \/ \E n \in Nodes : OwnStep(n) /\ cli' = cli
           \/ \E n \in Nodes : Start(n)
           \/ \E n \in Nodes : Wait(n)
           \/ Interrupt
           \/ NextSuite /\ cli.compile[cli.next] = "ok" /\ Run(SuiteOf(cli.order[cli.next]))
           \/ SuiteRan
           \/ AwaitResult
           \/ UNCHANGED <<job, remote, node>>
<1>1. CASE CommandStep
  <2>1. CASE NextSuite  BY <2>1 DEF NextSuite, suiteVars
  <2>2. CASE SuitesDone \/ RunSpecs \/ RunSpecsEnds \/ ResumeWatch \/ StopWatch
        BY <2>2 DEF SuitesDone, RunSpecs, RunSpecsEnds, ResumeWatch, StopWatch, Only
  <2>3. CASE WatchSuites \/ Tick  BY <2>3 DEF WatchSuites, Tick, suiteVars
  <2>q. QED  BY <1>1, <2>1, <2>2, <2>3 DEF CommandStep
<1>2. CASE Background  BY <1>2 DEF Background, handleInterrupt, willCompile, compile, Only
<1>3. CASE Develop  BY <1>3 DEF Develop, suiteVars
<1>4. ASSUME NEW n \in Nodes, Completion(n) PROVE UNCHANGED <<job, remote, node>>
      BY <1>4 DEF Completion, Only
<1>5. ASSUME NEW n \in Nodes, ProcessStep(n) PROVE OwnStep(n) /\ cli' = cli  BY <1>5 DEF ProcessStep, OwnStep
<1>6. CASE UNCHANGED vars  BY <1>6 DEF vars
<1>q. QED  BY <1>1, <1>2, <1>3, <1>4, <1>5, <1>6 DEF Next

LEMMA FrameTyped ==
    ASSUME Typed, NEW n \in Nodes, NEW F, Frame(n, F), "failer" \notin F, "strays" \notin F
    PROVE  Typed'
<1>1. node'[n].failer = node[n].failer /\ node'[n].strays = node[n].strays  BY DEF Frame, Agree, Fields
<1>q. QED  BY <1>1 DEF Frame, Typed

LEMMA BodyTyped ==
    ASSUME Typed, NEW n \in Nodes, NEW F, Frame(n, F), NEW outcome, BodyRan(n, outcome), node'[n].failer = "passed"
    PROVE  Typed'
<1>1. node'[n].failer \in Outcomes /\ node'[n].strays \in Nat  BY DEF BodyRan, Outcomes
<1>q. QED  BY <1>1 DEF Frame, Typed

LEMMA StartSampleFrames ==
    ASSUME Procs, NEW n \in Nodes, runSpecs(n) \/ sampleEnds(n)
    PROVE  /\ Frame(n, {"specs", "todo", "unwinding", "state", "ran", "main", "sample", "suiteFailed", "passed"})
           /\ UNCHANGED <<job, remote, mayGoWrong>>
<1> DEFINE F == {"specs", "todo", "unwinding", "state", "ran", "main", "sample", "suiteFailed", "passed"}
<1>0. ASSUME NEW G, Frame(n, G), G \subseteq F PROVE Frame(n, F)  BY <1>0 DEF Frame, Agree
<1>1. CASE runSpecs(n) /\ (node[n].interrupted \/ node[n].i \notin DOMAIN node[n].specs)
      BY <1>0, <1>1, RunSpecsEnd
<1>2. CASE runSpecs(n) /\ ~(node[n].interrupted \/ node[n].i \notin DOMAIN node[n].specs) /\ Runs(NextSpec(n))
      BY <1>0, <1>2, RunSpecsRun
<1>3. CASE runSpecs(n) /\ ~(node[n].interrupted \/ node[n].i \notin DOMAIN node[n].specs) /\ ~Runs(NextSpec(n))
      BY <1>0, <1>3, RunSpecsPass
<1>4. CASE sampleEnds(n) /\ MoreSamples(n)  BY <1>0, <1>4, SampleAgain
<1>5. CASE sampleEnds(n) /\ ~MoreSamples(n)  BY <1>0, <1>5, SampleLast
<1>q. QED  BY <1>1, <1>2, <1>3, <1>4, <1>5

\* The steps of a process keep the shape.
LEMMA OwnStepShape ==
    ASSUME Shape, NEW n \in Nodes, OwnStep(n)
    PROVE  Procs' /\ Typed' /\ IsRemote(remote') /\ job' = job
<1> USE DEF Shape
<1>1. CASE reportSuiteWillBegin(n)  BY <1>1, WillBegin, FrameTyped, ReportingSteps DEF Frame
<1>2. CASE runBeforeSuite(n)
  <2>1. CASE job.suite.beforeSuite = "simple" /\ ~node[n].interrupted  BY <1>2, <2>1, RunSimple, BodyTyped DEF Frame
  <2>2. CASE ~(job.suite.beforeSuite = "simple" /\ ~node[n].interrupted)
        BY <1>2, <2>2, SetupPassedOver, FrameTyped DEF Frame
  <2>q. QED  BY <2>1, <2>2
<1>3. CASE runA(n)  BY <1>3, RunA, BodyTyped DEF Frame
<1>4. CASE postA(n)
  <2>1. IsRemote(remote')  BY <1>4 DEF postA, IsRemote, RemoteFields
  <2>q. QED  BY <1>4, <2>1, PostA, FrameTyped DEF Frame
<1>5. CASE waitForA(n) \/ askAlive(n)  BY <1>5, WaitForA, AskAlive, FrameTyped DEF Frame
<1>6. CASE runB(n)  BY <1>6, RunB, BodyTyped DEF Frame
<1>7. CASE reportBeforeSuite(n)  BY <1>7, ReportBefore, FrameTyped, ReportingSteps DEF Frame
<1>8. CASE runSpecs(n) \/ sampleEnds(n)  BY <1>8, StartSampleFrames, FrameTyped DEF Frame
<1>9. CASE runSample(n)  BY <1>9, RunSample, BodyTyped DEF Frame
<1>10. CASE reportSpecDidComplete(n)  BY <1>10, DidComplete, FrameTyped, ReportingSteps DEF Frame
<1>11. CASE blockForeverIfInterrupted(n)  BY <1>11, Blocks, FrameTyped DEF Frame
<1>12. CASE GoTestEnds(n)  BY <1>12, GoTestExit, FrameTyped DEF Frame
<1>13. CASE registerForInterrupts(n)  BY <1>13, Registers, FrameTyped DEF Frame
<1>14. CASE markInterrupted(n)  BY <1>14, Marked, FrameTyped DEF Frame
<1>15. CASE Crash(n)  BY <1>15, Crashes, FrameTyped DEF Frame
<1>16. CASE StrayFails(n)
  <2>1. node[n].failer \in Outcomes /\ node[n].strays \in Nat  BY DEF Typed
  <2>2. Frame(n, {"failer", "strays"}) /\ UNCHANGED <<job, remote>>  BY <1>16, StrayEnds
  <2>3. node'[n].failer \in Outcomes /\ node'[n].strays \in Nat
        BY <1>16, <2>1, StrayEnds DEF Fail, Panic, Outcomes
  <2>q. QED  BY <2>2, <2>3 DEF Frame, Typed
<1>17. ASSUME NEW g \in {"main", "handler"}, Finish(n, g)
       PROVE  Procs' /\ Typed' /\ IsRemote(remote') /\ job' = job
  <2>1. CASE runAfterSuite(n, g) /\ job.suite.afterSuite = "none"  BY <2>1, NoAfterSuite, FrameTyped DEF Frame
  <2>2. CASE runAfterSuite(n, g) /\ job.suite.afterSuite # "none"  BY <2>2, RunAfter, BodyTyped DEF Frame
  <2>3. CASE waitUntilOtherNodesAreDone(n, g)  BY <2>3, OthersAreDone, FrameTyped DEF Frame
  <2>4. CASE runAfterB(n, g)  BY <2>4, RunAfterB, BodyTyped DEF Frame
  <2>5. CASE reportAfterSuite(n, g)  BY <2>5, ReportAfter, FrameTyped, ReportingSteps DEF Frame
  <2>6. CASE reportSuiteDidEnd(n, g)  BY <2>6, DidEnd, FrameTyped, ReportingSteps DEF Frame
  <2>7. CASE Exits(n, g)  BY <2>7, Exit, FrameTyped DEF Frame
  <2>q. QED  BY <1>17, <2>1, <2>2, <2>3, <2>4, <2>5, <2>6, <2>7 DEF Finish
<1>q. QED
  BY <1>1, <1>2, <1>3, <1>4, <1>5, <1>6, <1>7, <1>8, <1>9, <1>10, <1>11, <1>12, <1>13, <1>14, <1>15, <1>16, <1>17
  DEF OwnStep, Main, Handler

LEMMA NewJob ==
    ASSUME Shape, NEW suite, Run(suite)
    PROVE  /\ AllOff /\ remote' = NewRemote /\ job'.total \in 1 .. MaxNodes
           /\ job'.total = TotalOf(suite)
<1>1. cli.inv.numCPU \in Int /\ cli.inv.numCPU <= MaxNodes /\ MaxNodes \in Nat \ {0}
      BY InvocationAssumption, NodeAssumption DEF Shape
<1>2. AllOff /\ remote' = NewRemote  BY DEF Run, AllOff
<1>3. job'.total = TotalOf(suite)  BY DEF Run
<1>q. QED  BY <1>1, <1>2, <1>3 DEF TotalOf, IsParallel

LEMMA ShapeStep ==
    ASSUME Shape, [Next]_vars
    PROVE  Shape'
<1>1. IsCli(cli') /\ cli'.inv \in Invocations  BY CliStays DEF Shape
<1>2. (Procs /\ Typed /\ IsRemote(remote) /\ job.total \in 0 .. MaxNodes)'
  <2> USE DEF Shape
  <2>a. ASSUME AllOff PROVE Procs' /\ Typed'
        BY <2>a, AllOffProcs, OffIsProc DEF Typed, Outcomes
  <2>1. ASSUME NEW n \in Nodes, OwnStep(n) PROVE (Procs /\ Typed /\ IsRemote(remote) /\ job.total \in 0 .. MaxNodes)'
        BY <2>1, OwnStepShape
  <2>2. ASSUME NEW n \in Nodes, Start(n) PROVE (Procs /\ Typed /\ IsRemote(remote) /\ job.total \in 0 .. MaxNodes)'
    <3>1. Frame(n, Fields) /\ UNCHANGED <<job, remote>>  BY <2>2, Starts
    <3>2. node'[n].failer \in Outcomes /\ node'[n].strays \in Nat
          BY <2>2, Starts, OffIsProc DEF Agree, Fields, Typed, Outcomes
    <3>q. QED  BY <3>1, <3>2 DEF Frame, Typed
  <2>3. ASSUME NEW n \in Nodes, Wait(n) PROVE (Procs /\ Typed /\ IsRemote(remote) /\ job.total \in 0 .. MaxNodes)'
        BY <2>3, Waited, FrameTyped DEF Frame
  <2>4. CASE Interrupt
    <3>1. Procs' /\ UNCHANGED <<job, remote>>  BY <2>4, Interrupts
    <3>2. ASSUME NEW n \in Nodes PROVE node'[n].failer = node[n].failer /\ node'[n].strays = node[n].strays
          BY <2>4, Interrupts DEF Agree, Fields
    <3>q. QED  BY <3>1, <3>2 DEF Typed
  <2>5. CASE Run(SuiteOf(cli.order[cli.next]))  BY <2>5, <2>a, NewJob, NewRemoteData
  <2>6. CASE SuiteRan
    <3>1. AllOff /\ remote' = NewRemote /\ job'.total = 0  BY <2>6 DEF SuiteRan, AllOff, NoSuite
    <3>q. QED  BY <3>1, <2>a, NewRemoteData, NodeAssumption
  <2>7. CASE AwaitResult  BY <2>7 DEF AwaitResult, IsRemote, RemoteFields, Procs, Typed
  <2>8. CASE UNCHANGED <<job, remote, node>>  BY <2>8 DEF Procs, Typed
  <2>q. QED  BY <2>1, <2>2, <2>3, <2>4, <2>5, <2>6, <2>7, <2>8, NextKinds
<1>q. QED  BY <1>1, <1>2 DEF Shape

LEMMA ShapeInit ==
    ASSUME Init
    PROVE  Shape
<1>1. node = [n \in Nodes |-> Off] /\ remote = NewRemote /\ job.total = 0  BY DEF Init, NoSuite
<1>2. Procs /\ Typed  BY <1>1, OffIsProc DEF Procs, Typed, Outcomes
<1>3. IsCli(cli) /\ cli.inv \in Invocations
  <2>1. PICK inv \in Invocations :
            cli = [inv |-> inv, pc |-> "start", order |-> <<>>, next |-> 1, compile |-> <<>>, compiled |-> {},
                   callback |-> FALSE, res |-> PassingRunResult, suiteRes |-> PassingRunResult, collected |-> {},
                   typed |-> FALSE, signalled |-> FALSE, interrupts |-> 0, code |-> 0]
        BY DEF Init
  <2>2. cli.inv = inv  BY <2>1
  <2>q. QED  BY <2>1, <2>2 DEF IsCli, CliFields
<1>q. QED  BY <1>1, <1>2, <1>3, NewRemoteData, NodeAssumption DEF Shape

-----------------------------------------------------------------------------
(* Shared setup and teardown.                                              *)

\* A process that was not started has no data; one that has been waited for
\* is gone; and the data is there where a node needs it.
ProcShared(n) ==
    LET p == node[n]
        synchronized == job.suite.beforeSuite = "synchronized"
    IN /\ p.up \in {"off", "failed"} => p.before = "none" /\ p.data = "none" /\ p.tornDown = FALSE /\ p.main = "begin" /\ p.handler = "off"
       /\ p.reaped => p.up = "gone"
       /\ p.main = "postA" => n = 1 /\ (p.before = "passed" => p.data = "A")
       /\ p.main = "runB" => p.data = "A"
       /\ (synchronized /\ p.main \in {"runSample", "completed"}) => p.data = "A"
       /\ (synchronized /\ p.main = "reportBefore" /\ p.before = "passed") => p.data = "A"
       /\ (synchronized /\ p.main = "specs" /\ ~p.interrupted) => p.data = "A"

\* Data that the server or another node has is the data of node 1.
DataOfOne ==
    /\ \A n \in Nodes : node[n].data = "A" => node[1].data = "A"
    /\ remote.beforeSuiteData = [state |-> remote.beforeSuiteData.state, data |-> remote.beforeSuiteData.data]
    /\ remote.beforeSuiteData.state = "passed" => remote.beforeSuiteData.data = "A" /\ node[1].data = "A"

\* Node 1 is at the shared part of the teardown, or past it.
TearsDown(p) == p.tornDown \/ p.main = "runAfterB" \/ p.handler = "runAfterB"

OthersGone == TearsDown(node[1]) => \A k \in 2 .. job.total : node[k].up = "gone"

SharedInv == (\A n \in Nodes : ProcShared(n)) /\ DataOfOne /\ OthersGone

OtherNodesGone == \A k \in 2 .. job.total : node[k].up = "gone"

\* The server has the data of node 1, or none yet.
ServerData ==
    /\ remote.beforeSuiteData = [state |-> remote.beforeSuiteData.state, data |-> remote.beforeSuiteData.data]
    /\ remote.beforeSuiteData.state = "passed" => remote.beforeSuiteData.data = "A" /\ node[1].data = "A"

\* A step of one process that is up.
LEMMA SharedFrame ==
    ASSUME Shape, SharedInv, NEW n \in Nodes, NEW F, Frame(n, F), job' = job, node[n].up = "up", ProcShared(n)',
           \/ node'[n].data = node[n].data
           \/ node'[n].data = "A" /\ (n = 1 \/ node[1].data = "A"),
           (n = 1 /\ TearsDown(node'[1])) => TearsDown(node[1]) \/ OtherNodesGone,
           ServerData'
    PROVE  SharedInv'
<1>0. 1 \in Nodes /\ job.total \in 0 .. MaxNodes /\ MaxNodes \in Nat  BY NodeAssumption DEF Shape, Nodes
<1>1. \A k \in Nodes : k # n => node'[k] = node[k]  BY DEF Frame
<1>2. \A k \in Nodes : ProcShared(k)'
  <2> SUFFICES ASSUME NEW k \in Nodes, k # n PROVE ProcShared(k)'  OBVIOUS
  <2>1. ProcShared(k) /\ node'[k] = node[k]  BY <1>1 DEF SharedInv
  <2>q. QED  BY <2>1 DEF ProcShared
<1>3. node[1].data = "A" => node'[1].data = "A"  BY <1>0, <1>1 DEF SharedInv
<1>4. DataOfOne'  BY <1>0, <1>1, <1>3 DEF SharedInv, DataOfOne, ServerData
<1>5. OthersGone'
  <2> SUFFICES ASSUME TearsDown(node'[1]), NEW k \in 2 .. job.total PROVE node'[k].up = "gone"
      BY DEF OthersGone, TearsDown
  <2>0. k \in Nodes /\ k # 1  BY <1>0 DEF Nodes
  <2>1. CASE n = 1
    <3>1. OtherNodesGone  BY <2>1 DEF SharedInv, OthersGone, OtherNodesGone
    <3>q. QED  BY <1>1, <2>0, <2>1, <3>1 DEF OtherNodesGone
  <2>2. CASE n # 1
    <3>1. node[k].up = "gone"  BY <1>0, <1>1, <2>2 DEF SharedInv, OthersGone
    <3>q. QED  BY <1>1, <2>0, <3>1
  <2>q. QED  BY <2>1, <2>2
<1>q. QED  BY <1>2, <1>4, <1>5 DEF SharedInv

\* Most steps leave the data and the server alone.
LEMMA SharedQuiet ==
    ASSUME Shape, SharedInv, NEW n \in Nodes, NEW F, Frame(n, F), "data" \notin F, job' = job, node[n].up = "up",
           ProcShared(n)', remote'.beforeSuiteData = remote.beforeSuiteData,
           (n = 1 /\ TearsDown(node'[1])) => TearsDown(node[1]) \/ OtherNodesGone
    PROVE  SharedInv'
<1>0. 1 \in Nodes  BY NodeAssumption DEF Nodes
<1>1. node'[n].data = node[n].data  BY DEF Frame, Agree, Fields
<1>2. node'[1].data = node[1].data  BY <1>0, <1>1 DEF Frame
<1>3. ServerData'  BY <1>2 DEF ServerData, SharedInv, DataOfOne
<1>q. QED  BY <1>1, <1>3, SharedFrame

\* The fields that tell whether node 1 tears down.
LEMMA NotYetTearing ==
    ASSUME NEW n \in Nodes, NEW F, Frame(n, F), "tornDown" \notin F,
           "main" \in F => node'[n].main # "runAfterB", "handler" \in F => node'[n].handler # "runAfterB"
    PROVE  (n = 1 /\ TearsDown(node'[1])) => TearsDown(node[1])
  BY DEF Frame, Agree, Fields, TearsDown

\* A step that leaves all the fields alone that ProcShared reads.
LEMMA SharedUntouched ==
    ASSUME Shape, SharedInv, NEW n \in Nodes, NEW F, Frame(n, F), job' = job, node[n].up = "up",
           F \cap {"up", "reaped", "main", "handler", "interrupted", "before", "data", "tornDown"} = {},
           remote'.beforeSuiteData = remote.beforeSuiteData
    PROVE  SharedInv'
<1>1. ProcShared(n)  BY DEF SharedInv
<1>2. /\ node'[n].up = node[n].up /\ node'[n].reaped = node[n].reaped /\ node'[n].main = node[n].main
      /\ node'[n].handler = node[n].handler /\ node'[n].interrupted = node[n].interrupted
      /\ node'[n].before = node[n].before /\ node'[n].data = node[n].data /\ node'[n].tornDown = node[n].tornDown
      BY DEF Frame, Agree, Fields
<1>3. ProcShared(n)'  BY <1>1, <1>2 DEF ProcShared
<1>4. (n = 1 /\ TearsDown(node'[1])) => TearsDown(node[1])  BY <1>2 DEF TearsDown
<1>q. QED  BY <1>3, <1>4, SharedQuiet

\* The steps of the goroutine "main" up to the end of the specs.
LEMMA SharedMain ==
    ASSUME Shape, SharedInv, NEW n \in Nodes, Main(n)
    PROVE  SharedInv'
<1> USE DEF Shape
<1>p. ProcShared(n)  BY DEF SharedInv
<1>1. CASE reportSuiteWillBegin(n)
  <2>1. Frame(n, {"main", "handler"}) /\ job' = job /\ node[n].up = "up" /\ node'[n].main = "before" /\ node'[n].handler = "registering"
        BY <1>1, WillBegin
  <2>2. ProcShared(n)'  BY <1>p, <2>1 DEF ProcShared, Frame, Agree, Fields
  <2>3. (n = 1 /\ TearsDown(node'[1])) => TearsDown(node[1])  BY <2>1, NotYetTearing
  <2>4. remote'.beforeSuiteData = remote.beforeSuiteData  BY <1>1, ReportingSteps
  <2>q. QED  BY <2>1, <2>2, <2>3, <2>4, SharedQuiet
<1>2. CASE runBeforeSuite(n) /\ job.suite.beforeSuite = "simple" /\ ~node[n].interrupted
  <2>1. /\ Frame(n, {"failer", "before", "main", "strays"}) /\ job' = job /\ remote' = remote /\ node[n].up = "up"
        /\ node'[n].main = "reportBefore"
        BY <1>2, RunSimple
  <2>2. ProcShared(n)'  BY <1>p, <1>2, <2>1 DEF ProcShared, Frame, Agree, Fields
  <2>3. (n = 1 /\ TearsDown(node'[1])) => TearsDown(node[1])  BY <2>1, NotYetTearing
  <2>q. QED  BY <2>1, <2>2, <2>3, SharedQuiet
<1>3. CASE runBeforeSuite(n) /\ ~(job.suite.beforeSuite = "simple" /\ ~node[n].interrupted)
  <2>1. /\ Frame(n, {"main"}) /\ job' = job /\ remote' = remote /\ node[n].up = "up"
        /\ \/ (job.suite.beforeSuite = "none" \/ node[n].interrupted) /\ node'[n].main = "specs"
           \/ node'[n].main = "waitForA"
        BY <1>3, SetupPassedOver
  <2>2. ProcShared(n)'  BY <1>p, <2>1 DEF ProcShared, Frame, Agree, Fields
  <2>3. (n = 1 /\ TearsDown(node'[1])) => TearsDown(node[1])  BY <2>1, NotYetTearing
  <2>q. QED  BY <2>1, <2>2, <2>3, SharedQuiet
<1>4. CASE runA(n)
  <2>1. PICK outcome :
            /\ Frame(n, {"failer", "before", "main", "data", "strays"}) /\ job' = job /\ remote' = remote
            /\ node[n].up = "up" /\ n = 1
            /\ node'[n].before = outcome /\ node'[n].main = MainAfterA(outcome) /\ node'[n].data = DataAfterA(n, outcome)
        BY <1>4, RunA
  <2>2. ProcShared(n)'  BY <1>p, <2>1 DEF ProcShared, Frame, Agree, Fields, MainAfterA, DataAfterA
  <2>3. (n = 1 /\ TearsDown(node'[1])) => TearsDown(node[1])  BY <2>1, NotYetTearing DEF MainAfterA
  <2>4. node'[n].data = node[n].data \/ node'[n].data = "A"  BY <2>1 DEF DataAfterA
  <2>5. ServerData'  BY <2>1, <2>4 DEF ServerData, SharedInv, DataOfOne
  <2>q. QED  BY <2>1, <2>2, <2>3, <2>4, <2>5, SharedFrame
<1>5. CASE postA(n)
  <2>1. /\ Frame(n, {"main"}) /\ job' = job /\ node[n].up = "up" /\ node[n].main = "postA"
        /\ node'[n].main = IF node[n].before = "passed" THEN "runB" ELSE "reportBefore"
        BY <1>5, PostA
  <2>2. n = 1 /\ (node[n].before = "passed" => node[n].data = "A") /\ node'[n].data = node[n].data
        BY <1>p, <2>1 DEF ProcShared, Frame, Agree, Fields
  <2>3. ProcShared(n)'  BY <1>p, <2>1 DEF ProcShared, Frame, Agree, Fields
  <2>4. (n = 1 /\ TearsDown(node'[1])) => TearsDown(node[1])  BY <2>1, NotYetTearing
  <2>5. ServerData'
    <3>1. \/ remote' = remote
          \/ remote' = [remote EXCEPT !.beforeSuiteData =
                 RemoteBeforeSuiteData(IF node[n].before = "passed" THEN "passed" ELSE "failed", node[n].data)]
          BY <1>5 DEF postA
    <3>2. CASE remote' = remote  BY <2>2, <3>2 DEF ServerData, SharedInv, DataOfOne
    <3>3. CASE remote' = [remote EXCEPT !.beforeSuiteData =
                 RemoteBeforeSuiteData(IF node[n].before = "passed" THEN "passed" ELSE "failed", node[n].data)]
      <4> DEFINE state == IF node[n].before = "passed" THEN "passed" ELSE "failed"
      <4>1. state = "passed" => node[n].before = "passed"  OBVIOUS
      <4>2. remote'.beforeSuiteData = RemoteBeforeSuiteData(state, node[n].data)
            BY <3>3 DEF IsRemote, RemoteFields
      <4> HIDE DEF state
      <4>q. QED  BY <2>2, <4>1, <4>2 DEF ServerData, RemoteBeforeSuiteData
    <3>q. QED  BY <3>1, <3>2, <3>3
  <2>q. QED  BY <2>1, <2>2, <2>3, <2>4, <2>5, SharedFrame
<1>6. CASE waitForA(n)
  <2>1. /\ Frame(n, {"data", "main", "before"}) /\ job' = job /\ remote' = remote /\ node[n].up = "up"
        /\ \/ /\ remote.beforeSuiteData.state = "passed"
              /\ node'[n].data = remote.beforeSuiteData.data /\ node'[n].main = "runB"
           \/ node'[n].data = node[n].data /\ node'[n].main = "askAlive"
           \/ node'[n].data = node[n].data /\ node'[n].main = "reportBefore" /\ node'[n].before = "failed"
        BY <1>6, WaitForA
  <2>2. remote.beforeSuiteData.state = "passed" => remote.beforeSuiteData.data = "A" /\ node[1].data = "A"
        BY DEF SharedInv, DataOfOne
  <2>3. ProcShared(n)'  BY <1>p, <2>1, <2>2 DEF ProcShared, Frame, Agree, Fields
  <2>4. (n = 1 /\ TearsDown(node'[1])) => TearsDown(node[1])  BY <2>1, NotYetTearing
  <2>5. node'[n].data = node[n].data \/ (node'[n].data = "A" /\ (n = 1 \/ node[1].data = "A"))  BY <2>1, <2>2
  <2>6. node[1].data = "A" => node'[1].data = "A"  BY <2>1, <2>5, NodeAssumption DEF Frame, Nodes
  <2>7. ServerData'  BY <2>1, <2>6 DEF ServerData, SharedInv, DataOfOne
  <2>q. QED  BY <2>1, <2>3, <2>4, <2>5, <2>7, SharedFrame
<1>6a. CASE askAlive(n)
  <2>1. /\ Frame(n, {"main", "before"}) /\ job' = job /\ remote' = remote /\ node[n].up = "up"
        /\ \/ node'[n].main = "waitForA"
           \/ node'[n].main = "reportBefore" /\ node'[n].before = "failed"
        BY <1>6a, AskAlive
  <2>2. ProcShared(n)'  BY <1>p, <2>1 DEF ProcShared, Frame, Agree, Fields
  <2>3. (n = 1 /\ TearsDown(node'[1])) => TearsDown(node[1])  BY <2>1, NotYetTearing
  <2>q. QED  BY <2>1, <2>2, <2>3, SharedQuiet
<1>7. CASE runB(n)
  <2>1. /\ Frame(n, {"failer", "before", "main", "strays"}) /\ job' = job /\ remote' = remote /\ node[n].up = "up"
        /\ node[n].main = "runB" /\ node'[n].main = "reportBefore"
        BY <1>7, RunB
  <2>2. ProcShared(n)'  BY <1>p, <2>1 DEF ProcShared, Frame, Agree, Fields
  <2>3. (n = 1 /\ TearsDown(node'[1])) => TearsDown(node[1])  BY <2>1, NotYetTearing
  <2>q. QED  BY <2>1, <2>2, <2>3, SharedQuiet
<1>8. CASE reportBeforeSuite(n)
  <2>1. /\ Frame(n, {"passed", "main"}) /\ job' = job /\ node[n].up = "up" /\ node[n].main = "reportBefore"
        /\ node'[n].main = IF node[n].before = "passed" THEN "specs" ELSE "blockIfInterrupted"
        BY <1>8, ReportBefore
  <2>2. ProcShared(n)'  BY <1>p, <2>1 DEF ProcShared, Frame, Agree, Fields
  <2>3. (n = 1 /\ TearsDown(node'[1])) => TearsDown(node[1])  BY <2>1, NotYetTearing
  <2>4. remote'.beforeSuiteData = remote.beforeSuiteData  BY <1>8, ReportingSteps
  <2>q. QED  BY <2>1, <2>2, <2>3, <2>4, SharedQuiet
<1>9. CASE runSpecs(n) \/ sampleEnds(n)
  <2> DEFINE F == {"specs", "todo", "unwinding", "state", "ran", "main", "sample", "suiteFailed", "passed"}
  <2>1. Frame(n, F) /\ job' = job /\ remote' = remote  BY <1>9, StartSampleFrames
  <2>2. /\ node[n].up = "up"
        /\ \/ node[n].main = "specs" /\ node'[n].main = "blockIfInterrupted"
           \/ node[n].main = "specs" /\ ~node[n].interrupted /\ node'[n].main \in {"runSample", "completed"}
           \/ node[n].main = "runSample" /\ node'[n].main \in {"runSample", "completed"}
    <3>1. CASE runSpecs(n) /\ (node[n].interrupted \/ node[n].i \notin DOMAIN node[n].specs)  BY <3>1, RunSpecsEnd
    <3>2. CASE runSpecs(n) /\ ~(node[n].interrupted \/ node[n].i \notin DOMAIN node[n].specs) /\ Runs(NextSpec(n))
          BY <3>2, RunSpecsRun
    <3>3. CASE runSpecs(n) /\ ~(node[n].interrupted \/ node[n].i \notin DOMAIN node[n].specs) /\ ~Runs(NextSpec(n))
          BY <3>3, RunSpecsPass
    <3>4. CASE sampleEnds(n) /\ MoreSamples(n)
          BY <3>4, SampleAgain DEF Frame, Agree, Fields
    <3>5. CASE sampleEnds(n) /\ ~MoreSamples(n)  BY <3>5, SampleLast
    <3>q. QED  BY <1>9, <3>1, <3>2, <3>3, <3>4, <3>5
  <2>3. ProcShared(n)'  BY <1>p, <2>1, <2>2 DEF ProcShared, Frame, Agree, Fields
  <2>4. (n = 1 /\ TearsDown(node'[1])) => TearsDown(node[1])  BY <2>1, <2>2, NotYetTearing
  <2>q. QED  BY <2>1, <2>2, <2>3, <2>4, SharedQuiet
<1>10. CASE runSample(n)  BY <1>10, RunSample, SharedUntouched
<1>11. CASE reportSpecDidComplete(n)
  <2>1. /\ Frame(n, {"i", "main", "skipRemaining"}) /\ job' = job /\ node[n].up = "up" /\ node[n].main = "completed"
        /\ node'[n].main = "specs"
        BY <1>11, DidComplete
  <2>2. ProcShared(n)'  BY <1>p, <2>1 DEF ProcShared, Frame, Agree, Fields
  <2>3. (n = 1 /\ TearsDown(node'[1])) => TearsDown(node[1])  BY <2>1, NotYetTearing
  <2>4. remote'.beforeSuiteData = remote.beforeSuiteData  BY <1>11, ReportingSteps
  <2>q. QED  BY <2>1, <2>2, <2>3, <2>4, SharedQuiet
<1>12. CASE blockForeverIfInterrupted(n)
  <2>1. /\ Frame(n, {"main"}) /\ job' = job /\ remote' = remote /\ node[n].up = "up"
        /\ node'[n].main = IF node[n].interrupted THEN "blocked" ELSE "after"
        BY <1>12, Blocks
  <2>2. ProcShared(n)'  BY <1>p, <2>1 DEF ProcShared, Frame, Agree, Fields
  <2>3. (n = 1 /\ TearsDown(node'[1])) => TearsDown(node[1])  BY <2>1, NotYetTearing
  <2>q. QED  BY <2>1, <2>2, <2>3, SharedQuiet
<1>13. CASE GoTestEnds(n)
  <2>1. Frame(n, {"up", "code"}) /\ job' = job /\ remote' = remote /\ node[n].up = "up" /\ node'[n].up = "gone"
        BY <1>13, GoTestExit
  <2>2. ProcShared(n)'  BY <1>p, <2>1 DEF ProcShared, Frame, Agree, Fields
  <2>3. (n = 1 /\ TearsDown(node'[1])) => TearsDown(node[1])  BY <2>1, NotYetTearing
  <2>q. QED  BY <2>1, <2>2, <2>3, SharedQuiet
<1>q. QED
  BY <1>1, <1>2, <1>3, <1>4, <1>5, <1>6, <1>6a, <1>7, <1>8, <1>9, <1>10, <1>11, <1>12, <1>13 DEF Main

\* The steps after the specs, of either goroutine, and those of the handler.
LEMMA SharedRest ==
    ASSUME Shape, SharedInv, NEW n \in Nodes, NEW g \in {"main", "handler"},
           Finish(n, g) \/ registerForInterrupts(n) \/ markInterrupted(n) \/ StrayFails(n) \/ Crash(n)
    PROVE  SharedInv'
<1> USE DEF Shape
<1>p. ProcShared(n)  BY DEF SharedInv
<1>1. CASE runAfterSuite(n, g) /\ job.suite.afterSuite = "none"
  <2>1. Frame(n, {g}) /\ job' = job /\ remote' = remote /\ node[n].up = "up" /\ node'[n][g] = "end"
        BY <1>1, NoAfterSuite
  <2>2. ProcShared(n)'  BY <1>p, <2>1 DEF ProcShared, Frame, Agree, Fields
  <2>3. (n = 1 /\ TearsDown(node'[1])) => TearsDown(node[1])  BY <2>1, NotYetTearing
  <2>q. QED  BY <2>1, <2>2, <2>3, SharedQuiet
<1>2. CASE runAfterSuite(n, g) /\ job.suite.afterSuite # "none"
  <2>1. /\ Frame(n, {"failer", "after", g, "strays"}) /\ job' = job /\ remote' = remote /\ node[n].up = "up"
        /\ node'[n][g] = AfterBodyA(n)
        BY <1>2, RunAfter
  <2>2. AfterBodyA(n) \in {"reportAfter", "waitForOthers", "runAfterB"}  BY DEF AfterBodyA
  <2>3. ProcShared(n)'  BY <1>p, <2>1, <2>2 DEF ProcShared, Frame, Agree, Fields
  <2>4. (n = 1 /\ TearsDown(node'[1])) => TearsDown(node[1]) \/ OtherNodesGone
    <3>1. CASE AfterBodyA(n) # "runAfterB"  BY <2>1, <3>1, NotYetTearing
    <3>2. CASE AfterBodyA(n) = "runAfterB"
      <4>1. ~(job.total > 1) /\ job.total \in Int  BY <3>2 DEF AfterBodyA
      <4>q. QED  BY <4>1 DEF OtherNodesGone
    <3>q. QED  BY <3>1, <3>2
  <2>q. QED  BY <2>1, <2>3, <2>4, SharedQuiet
<1>3. CASE waitUntilOtherNodesAreDone(n, g)
  <2>1. /\ Frame(n, {g}) /\ job' = job /\ remote' = remote /\ node[n].up = "up" /\ node'[n][g] = "runAfterB"
        /\ handleRemoteAfterSuiteData(Alive)
        BY <1>3, OthersAreDone
  <2>2. ProcShared(n)'  BY <1>p, <2>1 DEF ProcShared, Frame, Agree, Fields
  <2>3. OtherNodesGone
    <3> SUFFICES ASSUME NEW k \in 2 .. job.total PROVE node[k].up = "gone"  BY DEF OtherNodesGone
    <3>1. k \in Nodes  BY NodeAssumption DEF Nodes
    <3>2. ~Alive[k]  BY <2>1 DEF handleRemoteAfterSuiteData
    <3>3. node[k].reaped  BY <3>1, <3>2 DEF Alive
    <3>q. QED  BY <3>1, <3>3 DEF SharedInv, ProcShared
  <2>q. QED  BY <2>1, <2>2, <2>3, SharedQuiet
<1>4. CASE runAfterB(n, g)
  <2>1. /\ Frame(n, {"failer", "after", g, "tornDown", "strays"}) /\ job' = job /\ remote' = remote
        /\ node[n].up = "up" /\ node[n][g] = "runAfterB" /\ node'[n][g] = "reportAfter"
        BY <1>4, RunAfterB
  <2>2. ProcShared(n)'  BY <1>p, <2>1 DEF ProcShared, Frame, Agree, Fields
  <2>3. TearsDown(node[n])  BY <2>1 DEF TearsDown
  <2>q. QED  BY <2>1, <2>2, <2>3, SharedQuiet
<1>5. CASE reportAfterSuite(n, g)
  <2>1. Frame(n, {g, "passed"}) /\ job' = job /\ node[n].up = "up" /\ node'[n][g] = "end"  BY <1>5, ReportAfter
  <2>2. ProcShared(n)'  BY <1>p, <2>1 DEF ProcShared, Frame, Agree, Fields
  <2>3. (n = 1 /\ TearsDown(node'[1])) => TearsDown(node[1])  BY <2>1, NotYetTearing
  <2>4. remote'.beforeSuiteData = remote.beforeSuiteData  BY <1>5, ReportingSteps
  <2>q. QED  BY <2>1, <2>2, <2>3, <2>4, SharedQuiet
<1>6. CASE reportSuiteDidEnd(n, g)
  <2>1. Frame(n, {g}) /\ job' = job /\ node[n].up = "up" /\ node'[n][g] = "exit"  BY <1>6, DidEnd
  <2>2. ProcShared(n)'  BY <1>p, <2>1 DEF ProcShared, Frame, Agree, Fields
  <2>3. (n = 1 /\ TearsDown(node'[1])) => TearsDown(node[1])  BY <2>1, NotYetTearing
  <2>4. remote'.beforeSuiteData = remote.beforeSuiteData  BY <1>6, ReportingSteps
  <2>q. QED  BY <2>1, <2>2, <2>3, <2>4, SharedQuiet
<1>7. CASE Exits(n, g) \/ Crash(n)
  <2>1. Frame(n, {"up", "code"}) /\ job' = job /\ remote' = remote /\ node[n].up = "up" /\ node'[n].up = "gone"
        BY <1>7, Exit, Crashes
  <2>2. ProcShared(n)'  BY <1>p, <2>1 DEF ProcShared, Frame, Agree, Fields
  <2>3. (n = 1 /\ TearsDown(node'[1])) => TearsDown(node[1])  BY <2>1, NotYetTearing
  <2>q. QED  BY <2>1, <2>2, <2>3, SharedQuiet
<1>8. CASE registerForInterrupts(n)
  <2>1. Frame(n, {"handler"}) /\ job' = job /\ remote' = remote /\ node[n].up = "up" /\ node'[n].handler = "listening"
        BY <1>8, Registers
  <2>2. ProcShared(n)'  BY <1>p, <2>1 DEF ProcShared, Frame, Agree, Fields
  <2>3. (n = 1 /\ TearsDown(node'[1])) => TearsDown(node[1])  BY <2>1, NotYetTearing
  <2>q. QED  BY <2>1, <2>2, <2>3, SharedQuiet
<1>9. CASE markInterrupted(n)
  <2>1. /\ Frame(n, {"interrupted", "handler"}) /\ job' = job /\ remote' = remote /\ node[n].up = "up"
        /\ node'[n].handler = "after" /\ node'[n].interrupted = TRUE
        BY <1>9, Marked
  <2>2. ProcShared(n)'  BY <1>p, <2>1 DEF ProcShared, Frame, Agree, Fields
  <2>3. (n = 1 /\ TearsDown(node'[1])) => TearsDown(node[1])  BY <2>1, NotYetTearing
  <2>q. QED  BY <2>1, <2>2, <2>3, SharedQuiet
<1>10. CASE StrayFails(n)  BY <1>10, StrayEnds, SharedUntouched
<1>q. QED  BY <1>1, <1>2, <1>3, <1>4, <1>5, <1>6, <1>7, <1>8, <1>9, <1>10 DEF Finish

\* Nothing is shared yet when no process has been started.
LEMMA SharedAfresh ==
    ASSUME node = [n \in Nodes |-> Off], remote = NewRemote, job.total \in 0 .. MaxNodes
    PROVE  SharedInv
<1>0. 1 \in Nodes  BY NodeAssumption DEF Nodes
<1>1. \A n \in Nodes : ProcShared(n)  BY OffIsProc DEF ProcShared
<1>2. DataOfOne  BY <1>0, OffIsProc, NewRemoteData DEF DataOfOne
<1>3. ~TearsDown(node[1])  BY <1>0, OffIsProc DEF TearsDown
<1>q. QED  BY <1>1, <1>2, <1>3 DEF SharedInv, OthersGone

LEMMA SharedStep ==
    ASSUME Shape, SharedInv, [Next]_vars
    PROVE  SharedInv'
<1> USE DEF Shape
<1>0. 1 \in Nodes  BY NodeAssumption DEF Nodes
<1>s. Shape'  BY ShapeStep
<1>1. ASSUME NEW n \in Nodes, OwnStep(n) PROVE SharedInv'
      BY <1>1, SharedMain, SharedRest DEF OwnStep, Handler
<1>2. ASSUME NEW n \in Nodes, Start(n) PROVE SharedInv'
  <2>1. /\ Procs' /\ \A k \in Nodes \ {n} : node'[k] = node[k]
        /\ job' = job /\ remote' = remote /\ node[n].up = "off" /\ n <= job.total
        BY <1>2, Starts DEF Frame
  <2>2. /\ node[n].data = "none" /\ node[n].tornDown = FALSE /\ node[n].main = "begin" /\ node[n].handler = "off"
        /\ ~node[n].reaped /\ node[n].before = "none"
        BY <2>1 DEF SharedInv, ProcShared
  <2>3. /\ node'[n].data = "none" /\ node'[n].tornDown = FALSE /\ node'[n].main = "begin" /\ node'[n].handler = "off"
        /\ ~node'[n].reaped /\ node'[n].before = "none"
        BY <1>2, <2>2, Starts, OffIsProc DEF Agree, Fields
  <2>4. ProcShared(n)'  BY <2>3 DEF ProcShared
  <2>5. \A k \in Nodes : ProcShared(k)'
    <3> SUFFICES ASSUME NEW k \in Nodes, k # n PROVE ProcShared(k)'  BY <2>4
    <3>1. ProcShared(k) /\ node'[k] = node[k]  BY <2>1 DEF SharedInv
    <3>q. QED  BY <2>1, <3>1 DEF ProcShared
  <2>6. node'[1].data = node[1].data  BY <1>0, <2>1, <2>2, <2>3
  <2>7. DataOfOne'  BY <2>1, <2>3, <2>6 DEF SharedInv, DataOfOne
  <2>8. TearsDown(node'[1]) => TearsDown(node[1])  BY <1>0, <2>1, <2>3 DEF TearsDown
  <2>9. OthersGone'
    <3> SUFFICES ASSUME TearsDown(node'[1]), NEW k \in 2 .. job.total PROVE node'[k].up = "gone"
        BY <2>1 DEF OthersGone, TearsDown
    <3>1. node[k].up = "gone" /\ k \in Nodes  BY <2>8, NodeAssumption DEF SharedInv, OthersGone, Nodes
    <3>q. QED  BY <2>1, <3>1
  <2>q. QED  BY <2>5, <2>7, <2>9 DEF SharedInv
<1>3. ASSUME NEW n \in Nodes, Wait(n) PROVE SharedInv'
  <2>1. /\ Frame(n, {"reaped"}) /\ job' = job /\ remote' = remote /\ node[n].up = "gone"
        BY <1>3, Waited
  <2>2. \A k \in Nodes : \A f \in Fields \ {"reaped"} : node'[k][f] = node[k][f]  BY <2>1 DEF Frame, Agree
  <2>3. \A k \in Nodes : ProcShared(k)'
    <3> SUFFICES ASSUME NEW k \in Nodes PROVE ProcShared(k)'  OBVIOUS
    <3>1. ProcShared(k)  BY DEF SharedInv
    <3>2. /\ node'[k].up = node[k].up /\ node'[k].main = node[k].main
          /\ node'[k].handler = node[k].handler /\ node'[k].interrupted = node[k].interrupted
          /\ node'[k].before = node[k].before /\ node'[k].data = node[k].data /\ node'[k].tornDown = node[k].tornDown
          BY <2>2 DEF Fields
    <3>3. node'[k].reaped => node'[k].up = "gone"
      <4>1. k # n => node'[k].reaped = node[k].reaped  BY <2>1 DEF Frame
      <4>q. QED  BY <2>1, <3>1, <3>2, <4>1 DEF ProcShared
    <3>q. QED  BY <2>1, <3>1, <3>2, <3>3 DEF ProcShared
  <2>4. \A k \in Nodes : /\ node'[k].data = node[k].data /\ node'[k].tornDown = node[k].tornDown /\ node'[k].up = node[k].up
                         /\ node'[k].main = node[k].main /\ node'[k].handler = node[k].handler
        BY <2>2 DEF Fields
  <2>5. DataOfOne'  BY <1>0, <2>1, <2>4 DEF SharedInv, DataOfOne
  <2>6. TearsDown(node'[1]) => TearsDown(node[1])  BY <1>0, <2>4 DEF TearsDown
  <2>7. OthersGone'
    <3> SUFFICES ASSUME TearsDown(node'[1]), NEW k \in 2 .. job.total PROVE node'[k].up = "gone"
        BY <2>1 DEF OthersGone, TearsDown
    <3>1. node[k].up = "gone" /\ k \in Nodes  BY <2>6, NodeAssumption DEF SharedInv, OthersGone, Nodes
    <3>q. QED  BY <2>4, <3>1
  <2>q. QED  BY <2>3, <2>5, <2>7 DEF SharedInv
<1>4. CASE Interrupt
  <2>1. Procs' /\ job' = job /\ remote' = remote  BY <1>4, Interrupts
  <2>2. ASSUME NEW k \in Nodes
        PROVE  /\ node'[k].data = node[k].data /\ node'[k].tornDown = node[k].tornDown /\ node'[k].main = node[k].main
               /\ node'[k].handler = node[k].handler /\ node'[k].interrupted = node[k].interrupted
               /\ node'[k].before = node[k].before /\ node'[k].reaped = node[k].reaped
               /\ node'[k].up = node[k].up \/ (node[k].up = "up" /\ node'[k].up = "gone")
        BY <1>4, Interrupts DEF Agree, Fields
  <2>3. \A k \in Nodes : ProcShared(k)'
    <3> SUFFICES ASSUME NEW k \in Nodes PROVE ProcShared(k)'  OBVIOUS
    <3>1. ProcShared(k)  BY DEF SharedInv
    <3>q. QED  BY <2>1, <2>2, <3>1 DEF ProcShared
  <2>4. DataOfOne'  BY <1>0, <2>1, <2>2 DEF SharedInv, DataOfOne
  <2>5. TearsDown(node'[1]) => TearsDown(node[1])  BY <1>0, <2>2 DEF TearsDown
  <2>6. OthersGone'
    <3> SUFFICES ASSUME TearsDown(node'[1]), NEW k \in 2 .. job.total PROVE node'[k].up = "gone"
        BY <2>1 DEF OthersGone, TearsDown
    <3>1. node[k].up = "gone" /\ k \in Nodes  BY <2>5, NodeAssumption DEF SharedInv, OthersGone, Nodes
    <3>q. QED  BY <2>2, <3>1
  <2>q. QED  BY <2>3, <2>4, <2>6 DEF SharedInv
<1>a. ASSUME NEW total, AllOff, remote' = NewRemote, job'.total \in 0 .. MaxNodes PROVE SharedInv'
  <2>1. node' = [n \in Nodes |-> Off]  BY <1>a DEF AllOff
  <2>2. \A n \in Nodes : ProcShared(n)'  BY <2>1, OffIsProc DEF ProcShared
  <2>3. DataOfOne'  BY <1>0, <1>a, <2>1, OffIsProc, NewRemoteData DEF DataOfOne
  <2>4. ~TearsDown(node'[1])  BY <1>0, <2>1, OffIsProc DEF TearsDown
  <2>q. QED  BY <2>2, <2>3, <2>4 DEF SharedInv, OthersGone, TearsDown
<1>5. CASE Run(SuiteOf(cli.order[cli.next]))  BY <1>5, <1>a, <1>s, NewJob
<1>6. CASE SuiteRan
  <2>1. AllOff /\ remote' = NewRemote  BY <1>6 DEF SuiteRan, AllOff
  <2>q. QED  BY <2>1, <1>a, <1>s
<1>7. CASE AwaitResult
  <2>1. UNCHANGED <<job, node>> /\ remote'.beforeSuiteData = remote.beforeSuiteData
        BY <1>7 DEF AwaitResult, IsRemote, RemoteFields
  <2>q. QED  BY <2>1 DEF SharedInv, ProcShared, DataOfOne, OthersGone, TearsDown
<1>8. CASE UNCHANGED <<job, remote, node>>
      BY <1>8 DEF SharedInv, ProcShared, DataOfOne, OthersGone, TearsDown
<1>q. QED  BY <1>1, <1>2, <1>3, <1>4, <1>5, <1>6, <1>7, <1>8, NextKinds

\* With a SynchronizedBeforeSuite no spec of any node runs before node 1 has
\* passed the shared part and the node has its data, and node 1 does the shared
\* part of a SynchronizedAfterSuite only when all other processes have gone
\* (synchronized_before_suite_node.go, synchronized_after_suite_node.go,
\* server.go): for any number of nodes, any suites and whatever goes wrong.
THEOREM SharedSetupHolds == Spec => []SharedSetup
<1>1. ASSUME Init PROVE Shape /\ SharedInv
  <2>1. node = [n \in Nodes |-> Off] /\ remote = NewRemote  BY <1>1 DEF Init
  <2>2. Shape  BY <1>1, ShapeInit
  <2>q. QED  BY <2>1, <2>2, SharedAfresh DEF Shape
<1>2. ASSUME Shape, SharedInv, [Next]_vars PROVE Shape' /\ SharedInv'  BY <1>2, ShapeStep, SharedStep
<1>3. ASSUME Shape, SharedInv PROVE SharedSetup
  <2> SUFFICES ASSUME NEW n \in NodesOfJob
               PROVE  /\ (job.suite.beforeSuite = "synchronized" /\ node[n].main \in {"runB", "runSample", "completed"}) =>
                             node[n].data = "A" /\ node[1].data = "A"
                      /\ (node[1].tornDown /\ n # 1) => node[n].up = "gone"
      BY DEF SharedSetup
  <2>1. n \in Nodes /\ n \in 1 .. job.total /\ job.total \in Int  BY <1>3, NodeAssumption DEF NodesOfJob, Shape, Nodes
  <2>2. ProcShared(n) /\ (node[n].data = "A" => node[1].data = "A")  BY <1>3, <2>1 DEF SharedInv, DataOfOne
  <2>3. (node[1].tornDown /\ n # 1) => node[n].up = "gone"
        BY <1>3, <2>1 DEF SharedInv, OthersGone, TearsDown
  <2>q. QED  BY <2>2, <2>3 DEF ProcShared
<1>q. QED  BY <1>1, <1>2, <1>3, PTL DEF Spec

-----------------------------------------------------------------------------
(* What a sample runs and unwinds.                                         *)

IsSubject(e) == e.type = "Subject"

IsSeq(s) == Len(s) \in Nat /\ s = [j \in 1 .. Len(s) |-> s[j]]

\* The first outcome that is not a pass is the state of the sample.
FirstFailure(p) ==
    \/ p.state = "passed" /\ \A i \in DOMAIN p.ran : p.ran[i].outcome = "passed"
    \/ \E i \in DOMAIN p.ran : /\ p.ran[i].outcome # "passed" /\ p.state = p.ran[i].outcome
                               /\ \A j \in DOMAIN p.ran : j < i => p.ran[j].outcome = "passed"

\* On the way in: what ran has passed, the rest, with the subject, is to do.
WayIn(p, all) ==
    /\ p.unwinding = FALSE /\ p.state = "passed" /\ p.todo \subseteq all
    /\ \E e \in p.todo : IsSubject(e)
    /\ \A j \in DOMAIN p.ran : p.ran[j].node \in all /\ p.ran[j].outcome = "passed" /\ ~IsSubject(p.ran[j].node)
    /\ \A e \in all : e \in p.todo \/ \E j \in DOMAIN p.ran : p.ran[j].node = e

\* On the way out: the way in ended with the k-th node, which failed or was
\* the subject, and the nodes after it unwind what was entered.
WayOut(p, all, out, k) ==
    /\ p.unwinding = TRUE /\ k \in DOMAIN p.ran
    /\ \A j \in DOMAIN p.ran : j < k => p.ran[j].outcome = "passed"
    /\ \A j \in DOMAIN p.ran : j <= k => p.ran[j].node \in all /\ (IsSubject(p.ran[j].node) => j = k)
    /\ p.ran[k].outcome # "passed" \/ IsSubject(p.ran[k].node)
    /\ IsSubject(p.ran[k].node) => \A e \in all : \E j \in DOMAIN p.ran : p.ran[j].node = e
    /\ p.todo \subseteq out
    /\ \A j \in DOMAIN p.ran : j > k => p.ran[j].node \in out
    /\ \A e \in out : e \in p.todo \/ \E j \in DOMAIN p.ran : j > k /\ p.ran[j].node = e
    /\ \A j \in DOMAIN p.ran : j > k => \A e \in p.todo : Earlier(p.ran[j].node, e)
    /\ \A i, j \in DOMAIN p.ran : k < i /\ i < j => Earlier(p.ran[i].node, p.ran[j].node)

\* A process in the middle of a sample.
SampleOk(p, suite) ==
    LET spec == p.specs[p.i]
    IN p.main = "runSample" =>
           /\ IsSeq(p.ran) /\ FirstFailure(p)
           /\ \/ WayIn(p, Ahead(suite, spec))
              \/ \E k \in DOMAIN p.ran : WayOut(p, Ahead(suite, spec), Unwinding(suite, spec, p.ran[k].node), k)

SampleInv == \A n \in Nodes : SampleOk(node[n], job.suite)

LEMMA AppendSeq ==
    ASSUME NEW s, IsSeq(s), NEW e
    PROVE  LET t == Append(s, e)
           IN /\ IsSeq(t) /\ Len(t) = Len(s) + 1 /\ DOMAIN s = 1 .. Len(s) /\ DOMAIN t = 1 .. Len(s) + 1
              /\ \A j \in 1 .. Len(s) : t[j] = s[j]
              /\ t[Len(s) + 1] = e
<1> DEFINE S == {s[j] : j \in 1 .. Len(s)} \cup {e}
<1>1. DOMAIN s = 1 .. Len(s) /\ \A j \in 1 .. Len(s) : s[j] \in S  BY DEF IsSeq
<1>2. s \in Seq(S)
  <2>1. [j \in 1 .. Len(s) |-> s[j]] \in Seq(S)  BY <1>1 DEF IsSeq
  <2>q. QED  BY <2>1 DEF IsSeq
<1>3. e \in S  OBVIOUS
<1> HIDE DEF S
<1>4. /\ Append(s, e) \in Seq(S) /\ Len(Append(s, e)) = Len(s) + 1
      /\ \A j \in 1 .. Len(s) : Append(s, e)[j] = s[j]
      /\ Append(s, e)[Len(s) + 1] = e
      BY <1>2, <1>3, AppendProperties
<1>5. DOMAIN Append(s, e) = 1 .. Len(s) + 1 /\ IsSeq(Append(s, e))
  <2> DEFINE t == Append(s, e)
  <2>1. t \in [1 .. Len(t) -> S] /\ Len(t) \in Nat /\ DOMAIN t = 1 .. Len(t)  BY <1>4, LenProperties
  <2>2. Len(t) = Len(s) + 1  BY <1>4
  <2> HIDE DEF t
  <2>3. t = [j \in 1 .. Len(t) |-> t[j]]  BY <2>1
  <2>q. QED  BY <2>1, <2>2, <2>3 DEF IsSeq, t
<1>q. QED  BY <1>1, <1>4, <1>5

LEMMA NothingRan ==
    ASSUME NEW s, s = <<>>
    PROVE  IsSeq(s) /\ DOMAIN s = {}
<1>1. s \in Seq({}) /\ Len(s) = 0  BY EmptySeq
<1>2. s \in [1 .. Len(s) -> {}] /\ DOMAIN s = 1 .. Len(s)  BY <1>1, LenProperties
<1>3. s = [j \in 1 .. Len(s) |-> s[j]] /\ 1 .. Len(s) = {}  BY <1>1, <1>2
<1>q. QED  BY <1>1, <1>2, <1>3 DEF IsSeq

\* There is one subject, and nothing comes after it.
LEMMA SubjectIsLast ==
    ASSUME NEW suite, NEW spec, NEW todo, todo \subseteq Ahead(suite, spec), NEW now, IsFirst(now, todo), IsSubject(now)
    PROVE  todo = {now}
<1>1. ASSUME NEW e \in Ahead(suite, spec), e # now PROVE ~Earlier(now, e)
  <2>0. now \in Ahead(suite, spec)  BY DEF IsFirst
  <2>1. ASSUME NEW t, NEW x \in NodesOf(suite, spec.containers, t) PROVE x.type = t  BY DEF NodesOf
  <2>2. now = [type |-> "Subject", level |-> Len(spec.containers), place |-> spec.subject,
               body |-> suite.subjects[spec.subject].body]
        BY <2>0, <2>1 DEF Ahead, IsSubject
  <2>3. e.type \in {"BeforeEach", "JustBeforeEach"}  BY <1>1, <2>1, <2>2 DEF Ahead
  <2>q. QED  BY <2>2, <2>3 DEF Earlier
<1>q. QED  BY <1>1 DEF IsFirst

LEMMA FirstFailureStays ==
    ASSUME NEW p, NEW q, NEW e, IsSeq(p.ran), FirstFailure(p), q.ran = Append(p.ran, e),
           q.state = IF p.state = "passed" THEN e.outcome ELSE p.state
    PROVE  FirstFailure(q)
<1> DEFINE m == Len(p.ran)
<1>1. /\ m \in Nat /\ DOMAIN p.ran = 1 .. m /\ DOMAIN q.ran = 1 .. m + 1
      /\ \A j \in 1 .. m : q.ran[j] = p.ran[j]
      /\ q.ran[m + 1] = e
      BY AppendSeq DEF IsSeq
<1> HIDE DEF m
<1>2. CASE p.state = "passed" /\ \A i \in DOMAIN p.ran : p.ran[i].outcome = "passed"
  <2>1. CASE e.outcome = "passed"  BY <1>1, <1>2, <2>1 DEF FirstFailure
  <2>2. CASE e.outcome # "passed"
    <3>1. /\ m + 1 \in DOMAIN q.ran /\ q.ran[m + 1].outcome # "passed" /\ q.state = q.ran[m + 1].outcome
          /\ \A j \in DOMAIN q.ran : j < m + 1 => q.ran[j].outcome = "passed"
          BY <1>1, <1>2, <2>2
    <3>q. QED  BY <3>1 DEF FirstFailure
  <2>q. QED  BY <2>1, <2>2
<1>3. CASE \E i \in DOMAIN p.ran : /\ p.ran[i].outcome # "passed" /\ p.state = p.ran[i].outcome
                                   /\ \A j \in DOMAIN p.ran : j < i => p.ran[j].outcome = "passed"
  <2>1. PICK i \in DOMAIN p.ran : /\ p.ran[i].outcome # "passed" /\ p.state = p.ran[i].outcome
                                  /\ \A j \in DOMAIN p.ran : j < i => p.ran[j].outcome = "passed"
        BY <1>3
  <2>2. /\ i \in DOMAIN q.ran /\ q.ran[i].outcome # "passed" /\ q.state = q.ran[i].outcome
        /\ \A j \in DOMAIN q.ran : j < i => q.ran[j].outcome = "passed"
        BY <1>1, <2>1
  <2>q. QED  BY <2>2 DEF FirstFailure
<1>q. QED  BY <1>2, <1>3 DEF FirstFailure

\* A node of the sample runs on the way in: it goes on, or turns round.
LEMMA WayInRuns ==
    ASSUME NEW p, NEW q, NEW suite, NEW spec, NEW now, NEW outcome, IsSeq(p.ran),
           WayIn(p, Ahead(suite, spec)), IsFirst(now, p.todo),
           q.ran = Append(p.ran, [node |-> now, outcome |-> outcome]),
           q.state = outcome,
           q.unwinding = (p.todo = {now} \/ outcome # "passed"),
           q.todo = IF p.todo = {now} \/ outcome # "passed" THEN Unwinding(suite, spec, now) ELSE p.todo \ {now}
    PROVE  \/ WayIn(q, Ahead(suite, spec))
           \/ \E k \in DOMAIN q.ran : WayOut(q, Ahead(suite, spec), Unwinding(suite, spec, q.ran[k].node), k)
<1> DEFINE m == Len(p.ran)
           all == Ahead(suite, spec)
           e == [node |-> now, outcome |-> outcome]
<1>1. /\ m \in Nat /\ DOMAIN p.ran = 1 .. m /\ DOMAIN q.ran = 1 .. m + 1
      /\ \A j \in 1 .. m : q.ran[j] = p.ran[j]
      /\ q.ran[m + 1] = e
      BY AppendSeq DEF IsSeq
<1>2. IsSubject(now) => p.todo = {now}  BY SubjectIsLast DEF WayIn
<1>3. now \in p.todo /\ p.todo \subseteq all  BY DEF IsFirst, WayIn
<1> HIDE DEF m, all
<1>4. CASE p.todo = {now} \/ outcome # "passed"
  <2> DEFINE out == Unwinding(suite, spec, now)
             k == m + 1
  <2>1. q.unwinding = TRUE /\ q.todo = out  BY <1>4
  <2>2. k \in DOMAIN q.ran /\ q.ran[k].node = now /\ q.ran[k].outcome = outcome  BY <1>1
  <2>3. outcome # "passed" \/ IsSubject(now)  BY <1>4 DEF WayIn
  <2>4. \A j \in DOMAIN q.ran : j < k => /\ q.ran[j].outcome = "passed" /\ q.ran[j].node \in all
                                         /\ ~IsSubject(q.ran[j].node)
        BY <1>1 DEF WayIn, all
  <2>5. \A j \in DOMAIN q.ran : j <= k => q.ran[j].node \in all /\ (IsSubject(q.ran[j].node) => j = k)
        BY <1>1, <1>3, <2>2, <2>4
  <2>6. IsSubject(now) => \A x \in all : \E j \in DOMAIN q.ran : q.ran[j].node = x
    <3> SUFFICES ASSUME IsSubject(now), NEW x \in all PROVE \E j \in DOMAIN q.ran : q.ran[j].node = x  OBVIOUS
    <3>1. x = now \/ \E j \in DOMAIN p.ran : p.ran[j].node = x  BY <1>2 DEF WayIn, all
    <3>q. QED  BY <1>1, <2>2, <3>1
  <2>7. ~\E j \in DOMAIN q.ran : j > k  BY <1>1
  <2> HIDE DEF out
  <2>8. WayOut(q, all, out, k)  BY <1>1, <2>1, <2>2, <2>3, <2>4, <2>5, <2>6, <2>7 DEF WayOut
  <2>q. QED  BY <2>2, <2>8 DEF all, out
<1>5. CASE ~(p.todo = {now} \/ outcome # "passed")
  <2>1. q.unwinding = FALSE /\ q.state = "passed" /\ q.todo = p.todo \ {now} /\ outcome = "passed"  BY <1>5
  <2>2. ~IsSubject(now)  BY <1>2, <1>5
  <2>3. \E x \in q.todo : IsSubject(x)  BY <2>1, <2>2 DEF WayIn
  <2>4. \A j \in DOMAIN q.ran : q.ran[j].node \in all /\ q.ran[j].outcome = "passed" /\ ~IsSubject(q.ran[j].node)
    <3>1. \A j \in 1 .. m : q.ran[j].node \in all /\ q.ran[j].outcome = "passed" /\ ~IsSubject(q.ran[j].node)
          BY <1>1 DEF WayIn, all
    <3>q. QED  BY <1>1, <1>3, <2>1, <2>2, <3>1
  <2>5. \A x \in all : x \in q.todo \/ \E j \in DOMAIN q.ran : q.ran[j].node = x
    <3> SUFFICES ASSUME NEW x \in all, x \notin q.todo PROVE \E j \in DOMAIN q.ran : q.ran[j].node = x  OBVIOUS
    <3>1. x = now \/ \E j \in DOMAIN p.ran : p.ran[j].node = x  BY <2>1 DEF WayIn, all
    <3>q. QED  BY <1>1, <3>1
  <2>6. WayIn(q, all)  BY <1>3, <2>1, <2>3, <2>4, <2>5 DEF WayIn
  <2>q. QED  BY <2>6 DEF all
<1>q. QED  BY <1>4, <1>5

\* A node runs on the way out.
LEMMA WayOutRuns ==
    ASSUME NEW p, NEW q, NEW all, NEW out, NEW k \in DOMAIN p.ran, NEW now, NEW outcome, IsSeq(p.ran),
           WayOut(p, all, out, k), IsFirst(now, p.todo),
           q.ran = Append(p.ran, [node |-> now, outcome |-> outcome]),
           q.unwinding = TRUE, q.todo = p.todo \ {now}
    PROVE  k \in DOMAIN q.ran /\ q.ran[k] = p.ran[k] /\ WayOut(q, all, out, k)
<1> DEFINE m == Len(p.ran)
           e == [node |-> now, outcome |-> outcome]
<1>1. /\ m \in Nat /\ DOMAIN p.ran = 1 .. m /\ DOMAIN q.ran = 1 .. m + 1
      /\ \A j \in 1 .. m : q.ran[j] = p.ran[j]
      /\ q.ran[m + 1] = e
      BY AppendSeq DEF IsSeq
<1>2. k \in 1 .. m /\ k \in DOMAIN q.ran /\ q.ran[k] = p.ran[k]  BY <1>1
<1>3. now \in p.todo /\ now \in out /\ q.ran[m + 1].node = now  BY <1>1 DEF IsFirst, WayOut
<1> HIDE DEF m
<1>4. \A j \in DOMAIN q.ran : j < k => q.ran[j].outcome = "passed"  BY <1>1, <1>2 DEF WayOut
<1>5. \A j \in DOMAIN q.ran : j <= k => q.ran[j].node \in all /\ (IsSubject(q.ran[j].node) => j = k)
      BY <1>1, <1>2 DEF WayOut
<1>6. IsSubject(q.ran[k].node) => \A x \in all : \E j \in DOMAIN q.ran : q.ran[j].node = x
      BY <1>1, <1>2 DEF WayOut
<1>7. \A j \in DOMAIN q.ran : j > k => q.ran[j].node \in out  BY <1>1, <1>2, <1>3 DEF WayOut
<1>8. \A x \in out : x \in q.todo \/ \E j \in DOMAIN q.ran : j > k /\ q.ran[j].node = x
  <2> SUFFICES ASSUME NEW x \in out, x \notin q.todo PROVE \E j \in DOMAIN q.ran : j > k /\ q.ran[j].node = x  OBVIOUS
  <2>1. x = now \/ \E j \in DOMAIN p.ran : j > k /\ p.ran[j].node = x  BY DEF WayOut
  <2>q. QED  BY <1>1, <1>2, <1>3, <2>1
<1>9. \A j \in DOMAIN q.ran : j > k => \A x \in q.todo : Earlier(q.ran[j].node, x)
  <2> SUFFICES ASSUME NEW j \in DOMAIN q.ran, j > k, NEW x \in q.todo PROVE Earlier(q.ran[j].node, x)  OBVIOUS
  <2>1. CASE j \in 1 .. m  BY <1>1, <1>2, <2>1 DEF WayOut
  <2>2. CASE j = m + 1  BY <1>3, <2>2 DEF IsFirst
  <2>q. QED  BY <1>1, <2>1, <2>2
<1>10. \A i, j \in DOMAIN q.ran : k < i /\ i < j => Earlier(q.ran[i].node, q.ran[j].node)
  <2> SUFFICES ASSUME NEW i \in DOMAIN q.ran, NEW j \in DOMAIN q.ran, k < i, i < j
               PROVE  Earlier(q.ran[i].node, q.ran[j].node)
      OBVIOUS
  <2>0. i \in 1 .. m /\ q.ran[i] = p.ran[i]  BY <1>1
  <2>1. CASE j \in 1 .. m  BY <1>1, <1>2, <2>0, <2>1 DEF WayOut
  <2>2. CASE j = m + 1  BY <1>1, <1>2, <1>3, <2>0, <2>2 DEF WayOut
  <2>q. QED  BY <1>1, <2>1, <2>2
<1>11. q.todo \subseteq out /\ (q.ran[k].outcome # "passed" \/ IsSubject(q.ran[k].node))  BY <1>2 DEF WayOut
<1>q. QED  BY <1>2, <1>4, <1>5, <1>6, <1>7, <1>8, <1>9, <1>10, <1>11 DEF WayOut

\* A sample begins.
LEMMA SampleBegins ==
    ASSUME NEW p, NEW suite, NEW spec, p.todo = Ahead(suite, spec), p.unwinding = FALSE, p.state = "passed", p.ran = <<>>
    PROVE  IsSeq(p.ran) /\ FirstFailure(p) /\ WayIn(p, Ahead(suite, spec))
<1>1. IsSeq(p.ran) /\ DOMAIN p.ran = {}  BY NothingRan
<1> DEFINE subject == [type |-> "Subject", level |-> Len(spec.containers), place |-> spec.subject,
                       body |-> suite.subjects[spec.subject].body]
<1>2. subject \in Ahead(suite, spec) /\ IsSubject(subject)  BY DEF Ahead, IsSubject
<1> HIDE DEF subject
<1>q. QED  BY <1>1, <1>2 DEF FirstFailure, WayIn

\* A step of one process.
LEMMA SampleFrame ==
    ASSUME SampleInv, NEW n \in Nodes, NEW F, Frame(n, F), job' = job, SampleOk(node'[n], job.suite)
    PROVE  SampleInv'
<1> SUFFICES ASSUME NEW k \in Nodes PROVE SampleOk(node'[k], job'.suite)  BY DEF SampleInv
<1>1. k # n => node'[k] = node[k]  BY DEF Frame
<1>q. QED  BY <1>1 DEF SampleInv

\* A process as it was, for all that its sample shows.
LEMMA SampleSame ==
    ASSUME NEW p, NEW q, NEW suite, SampleOk(p, suite), q.main = p.main, q.specs = p.specs, q.i = p.i, q.todo = p.todo,
           q.unwinding = p.unwinding, q.state = p.state, q.ran = p.ran
    PROVE  SampleOk(q, suite)
<1> SUFFICES ASSUME q.main = "runSample"
             PROVE  /\ IsSeq(q.ran) /\ FirstFailure(q)
                    /\ \/ WayIn(q, Ahead(suite, q.specs[q.i]))
                       \/ \E k \in DOMAIN q.ran :
                              WayOut(q, Ahead(suite, q.specs[q.i]), Unwinding(suite, q.specs[q.i], q.ran[k].node), k)
    BY DEF SampleOk
<1>1. /\ IsSeq(p.ran) /\ FirstFailure(p)
      /\ \/ WayIn(p, Ahead(suite, p.specs[p.i]))
         \/ \E k \in DOMAIN p.ran :
                WayOut(p, Ahead(suite, p.specs[p.i]), Unwinding(suite, p.specs[p.i], p.ran[k].node), k)
      BY DEF SampleOk
<1>2. FirstFailure(q)  BY <1>1 DEF FirstFailure
<1>3. ASSUME NEW all, WayIn(p, all) PROVE WayIn(q, all)  BY <1>3 DEF WayIn
<1>4. ASSUME NEW all, NEW out, NEW k, WayOut(p, all, out, k) PROVE WayOut(q, all, out, k)  BY <1>4 DEF WayOut
<1>q. QED  BY <1>1, <1>2, <1>3, <1>4

\* A step that leaves the sample alone, or is in none.
LEMMA SampleUntouched ==
    ASSUME SampleInv, NEW n \in Nodes, NEW F, Frame(n, F), job' = job,
           \/ F \cap {"main", "specs", "i", "todo", "unwinding", "state", "ran"} = {}
           \/ node'[n].main # "runSample"
    PROVE  SampleInv'
<1>1. CASE F \cap {"main", "specs", "i", "todo", "unwinding", "state", "ran"} = {}
  <2>1. /\ node'[n].main = node[n].main /\ node'[n].specs = node[n].specs /\ node'[n].i = node[n].i
        /\ node'[n].todo = node[n].todo /\ node'[n].unwinding = node[n].unwinding
        /\ node'[n].state = node[n].state /\ node'[n].ran = node[n].ran
        BY <1>1 DEF Frame, Agree, Fields
  <2>2. SampleOk(node[n], job.suite)  BY DEF SampleInv
  <2>3. SampleOk(node'[n], job.suite)  BY <2>1, <2>2, SampleSame
  <2>q. QED  BY <2>3, SampleFrame
<1>2. CASE node'[n].main # "runSample"
  <2>1. SampleOk(node'[n], job.suite)  BY <1>2 DEF SampleOk
  <2>q. QED  BY <2>1, SampleFrame
<1>q. QED  BY <1>1, <1>2

\* The next sample, of this spec or of the next one.
LEMMA SampleStarts ==
    ASSUME Procs, SampleInv, NEW n \in Nodes, runSpecs(n) \/ sampleEnds(n)
    PROVE  SampleInv'
<1>1. CASE runSpecs(n) /\ (node[n].interrupted \/ node[n].i \notin DOMAIN node[n].specs)
      BY <1>1, RunSpecsEnd, SampleUntouched
<1>2. CASE runSpecs(n) /\ ~(node[n].interrupted \/ node[n].i \notin DOMAIN node[n].specs) /\ Runs(NextSpec(n))
  <2>1. /\ Frame(n, {"specs", "todo", "unwinding", "state", "ran", "main", "sample"}) /\ job' = job
        /\ node'[n].specs = [node[n].specs EXCEPT ![node[n].i] = NextSpec(n)]
        /\ AtStart(n, NextSpec(n))
        BY <1>2, RunSpecsRun
  <2>2. node'[n].i = node[n].i  BY <2>1 DEF Frame, Agree, Fields
  <2>3. node'[n].specs[node'[n].i] = NextSpec(n)  BY <1>2, <2>1, <2>2
  <2> DEFINE q == node'[n]
             spec == NextSpec(n)
  <2>4. q.todo = Ahead(job.suite, spec) /\ q.unwinding = FALSE /\ q.state = "passed" /\ q.ran = <<>>
        BY <2>1 DEF AtStart
  <2>5. q.specs[q.i] = spec  BY <2>3
  <2> HIDE DEF q, spec
  <2>6. IsSeq(q.ran) /\ FirstFailure(q) /\ WayIn(q, Ahead(job.suite, spec))  BY <2>4, SampleBegins
  <2>7. SampleOk(q, job.suite)  BY <2>5, <2>6 DEF SampleOk
  <2>q. QED  BY <2>1, <2>7, SampleFrame DEF q
<1>3. CASE runSpecs(n) /\ ~(node[n].interrupted \/ node[n].i \notin DOMAIN node[n].specs) /\ ~Runs(NextSpec(n))
      BY <1>3, RunSpecsPass, SampleUntouched
<1>4. CASE sampleEnds(n) /\ MoreSamples(n)
  <2>1. /\ Frame(n, {"todo", "unwinding", "state", "ran", "sample"}) /\ job' = job
        /\ AtStart(n, node[n].specs[node[n].i])
        BY <1>4, SampleAgain
  <2>2. node'[n].i = node[n].i /\ node'[n].specs = node[n].specs  BY <2>1 DEF Frame, Agree, Fields
  <2>3. SampleOk(node'[n], job.suite)  BY <2>1, <2>2, SampleBegins DEF SampleOk, AtStart
  <2>q. QED  BY <2>1, <2>3, SampleFrame
<1>5. CASE sampleEnds(n) /\ ~MoreSamples(n)  BY <1>5, SampleLast, SampleUntouched
<1>q. QED  BY <1>1, <1>2, <1>3, <1>4, <1>5

\* A node of the sample runs.
LEMMA SampleRuns ==
    ASSUME Procs, Typed, SampleInv, NEW n \in Nodes, runSample(n)
    PROVE  SampleInv'
<1>1. PICK now, outcome :
          /\ IsFirst(now, node[n].todo)
          /\ node'[n].ran = Append(node[n].ran, [node |-> now, outcome |-> outcome])
          /\ node'[n].state = StateAfter(n, outcome)
          /\ node'[n].unwinding = UnwindingAfter(n, now, outcome)
          /\ node'[n].todo = TodoAfter(n, now, outcome)
      BY RunSample
<1>2. /\ Frame(n, {"failer", "ran", "state", "todo", "unwinding", "strays"}) /\ job' = job
      /\ node[n].main = "runSample"
      BY RunSample
<1>3. node'[n].main = "runSample" /\ node'[n].specs = node[n].specs /\ node'[n].i = node[n].i
      BY <1>2 DEF Frame, Agree, Fields
<1> DEFINE p == node[n]
           q == node'[n]
           e == [node |-> now, outcome |-> outcome]
           spec == p.specs[p.i]
           all == Ahead(job.suite, spec)
<1>4. /\ IsSeq(p.ran) /\ FirstFailure(p)
      /\ \/ WayIn(p, all)
         \/ \E k \in DOMAIN p.ran : WayOut(p, all, Unwinding(job.suite, spec, p.ran[k].node), k)
      BY <1>2 DEF SampleInv, SampleOk
<1>5. q.state = IF p.state = "passed" THEN e.outcome ELSE p.state
      BY <1>1, <1>4 DEF StateAfter, WayIn, WayOut
<1>6. FirstFailure(q)  BY <1>1, <1>4, <1>5, FirstFailureStays
<1>7. IsSeq(q.ran)  BY <1>1, <1>4, AppendSeq
<1>8. \/ WayIn(q, all)
      \/ \E k \in DOMAIN q.ran : WayOut(q, all, Unwinding(job.suite, spec, q.ran[k].node), k)
  <2>1. CASE WayIn(p, all)
    <3>1. p.unwinding = FALSE  BY <2>1 DEF WayIn
    <3>2. /\ q.state = outcome
          /\ q.unwinding = (p.todo = {now} \/ outcome # "passed")
          /\ q.todo = IF p.todo = {now} \/ outcome # "passed" THEN Unwinding(job.suite, spec, now) ELSE p.todo \ {now}
          BY <1>1, <3>1 DEF StateAfter, UnwindingAfter, TodoAfter, IsLast
    <3>q. QED  BY <1>1, <1>4, <2>1, <3>2, WayInRuns
  <2>2. CASE \E k \in DOMAIN p.ran : WayOut(p, all, Unwinding(job.suite, spec, p.ran[k].node), k)
    <3>1. PICK k \in DOMAIN p.ran : WayOut(p, all, Unwinding(job.suite, spec, p.ran[k].node), k)  BY <2>2
    <3>2. p.unwinding = TRUE  BY <3>1 DEF WayOut
    <3>3. q.unwinding = TRUE /\ q.todo = p.todo \ {now}  BY <1>1, <3>2 DEF UnwindingAfter, TodoAfter
    <3>4. /\ k \in DOMAIN q.ran /\ q.ran[k] = p.ran[k]
          /\ WayOut(q, all, Unwinding(job.suite, spec, p.ran[k].node), k)
          BY <1>1, <1>4, <3>1, <3>3, WayOutRuns
    <3>q. QED  BY <3>4
  <2>q. QED  BY <1>4, <2>1, <2>2
<1>9. SampleOk(node'[n], job.suite)  BY <1>3, <1>6, <1>7, <1>8 DEF SampleOk
<1>q. QED  BY <1>2, <1>9, SampleFrame

\* The steps of a process.
LEMMA SampleOwnStep ==
    ASSUME Procs, Typed, SampleInv, NEW n \in Nodes, OwnStep(n)
    PROVE  SampleInv'
<1>1. CASE reportSuiteWillBegin(n)  BY <1>1, WillBegin, SampleUntouched
<1>2. CASE runBeforeSuite(n)
  <2>1. CASE job.suite.beforeSuite = "simple" /\ ~node[n].interrupted
    <3>1. Frame(n, {"failer", "before", "main", "strays"}) /\ job' = job /\ node'[n].main = "reportBefore"
          BY <1>2, <2>1, RunSimple
    <3>q. QED  BY <3>1, SampleUntouched
  <2>2. CASE ~(job.suite.beforeSuite = "simple" /\ ~node[n].interrupted)
    <3>1. Frame(n, {"main"}) /\ job' = job /\ node'[n].main \in {"specs", "waitForA"}
          BY <1>2, <2>2, SetupPassedOver
    <3>q. QED  BY <3>1, SampleUntouched
  <2>q. QED  BY <2>1, <2>2
<1>3. CASE runA(n)
  <2>1. PICK outcome :
            /\ Frame(n, {"failer", "before", "main", "data", "strays"}) /\ job' = job
            /\ node'[n].main = MainAfterA(outcome)
        BY <1>3, RunA
  <2>2. node'[n].main # "runSample"  BY <2>1 DEF MainAfterA
  <2>q. QED  BY <2>1, <2>2, SampleUntouched
<1>4. CASE postA(n)
  <2>1. Frame(n, {"main"}) /\ job' = job /\ node'[n].main # "runSample"  BY <1>4, PostA
  <2>q. QED  BY <2>1, SampleUntouched
<1>5. CASE waitForA(n) \/ askAlive(n)
  <2>1. /\ Frame(n, {"data", "main", "before"}) \/ Frame(n, {"main", "before"})
        /\ job' = job /\ node'[n].main # "runSample"
        BY <1>5, WaitForA, AskAlive
  <2>q. QED  BY <2>1, SampleUntouched
<1>6. CASE runB(n)
  <2>1. Frame(n, {"failer", "before", "main", "strays"}) /\ job' = job /\ node'[n].main = "reportBefore"
        BY <1>6, RunB
  <2>q. QED  BY <2>1, SampleUntouched
<1>7. CASE reportBeforeSuite(n)
  <2>1. Frame(n, {"passed", "main"}) /\ job' = job /\ node'[n].main # "runSample"  BY <1>7, ReportBefore
  <2>q. QED  BY <2>1, SampleUntouched
<1>8. CASE runSpecs(n) \/ sampleEnds(n)  BY <1>8, SampleStarts
<1>9. CASE runSample(n)  BY <1>9, SampleRuns
<1>10. CASE reportSpecDidComplete(n)
  <2>1. Frame(n, {"i", "main", "skipRemaining"}) /\ job' = job /\ node'[n].main = "specs"  BY <1>10, DidComplete
  <2>q. QED  BY <2>1, SampleUntouched
<1>11. CASE blockForeverIfInterrupted(n)
  <2>1. Frame(n, {"main"}) /\ job' = job /\ node'[n].main # "runSample"  BY <1>11, Blocks
  <2>q. QED  BY <2>1, SampleUntouched
<1>12. CASE GoTestEnds(n) \/ Crash(n)
  <2>1. Frame(n, {"up", "code"}) /\ job' = job  BY <1>12, GoTestExit, Crashes
  <2>q. QED  BY <2>1, SampleUntouched
<1>13. CASE registerForInterrupts(n)
  <2>1. Frame(n, {"handler"}) /\ job' = job  BY <1>13, Registers
  <2>q. QED  BY <2>1, SampleUntouched
<1>14. CASE markInterrupted(n)
  <2>1. Frame(n, {"interrupted", "handler"}) /\ job' = job  BY <1>14, Marked
  <2>q. QED  BY <2>1, SampleUntouched
<1>15. CASE StrayFails(n)
  <2>1. Frame(n, {"failer", "strays"}) /\ job' = job  BY <1>15, StrayEnds
  <2>q. QED  BY <2>1, SampleUntouched
<1>16. ASSUME NEW g \in {"main", "handler"}, Finish(n, g) PROVE SampleInv'
  <2>0. ASSUME NEW F, Frame(n, F), job' = job, F \subseteq {"failer", "after", "tornDown", "strays", "passed", "main", "handler"},
               node'[n][g] # "runSample", g = "handler" => "main" \notin F
        PROVE  SampleInv'
    <3>1. \/ F \cap {"main", "specs", "i", "todo", "unwinding", "state", "ran"} = {}
          \/ node'[n].main # "runSample"
          BY <2>0
    <3>q. QED  BY <2>0, <3>1, SampleUntouched
  <2>1. CASE runAfterSuite(n, g) /\ job.suite.afterSuite = "none"
    <3>1. Frame(n, {g}) /\ job' = job /\ node'[n][g] = "end"  BY <2>1, NoAfterSuite
    <3>q. QED  BY <2>0, <3>1
  <2>2. CASE runAfterSuite(n, g) /\ job.suite.afterSuite # "none"
    <3>1. Frame(n, {"failer", "after", g, "strays"}) /\ job' = job /\ node'[n][g] = AfterBodyA(n)  BY <2>2, RunAfter
    <3>2. AfterBodyA(n) # "runSample"  BY DEF AfterBodyA
    <3>q. QED  BY <2>0, <3>1, <3>2
  <2>3. CASE waitUntilOtherNodesAreDone(n, g)
    <3>1. Frame(n, {g}) /\ job' = job /\ node'[n][g] = "runAfterB"  BY <2>3, OthersAreDone
    <3>q. QED  BY <2>0, <3>1
  <2>4. CASE runAfterB(n, g)
    <3>1. Frame(n, {"failer", "after", g, "tornDown", "strays"}) /\ job' = job /\ node'[n][g] = "reportAfter"
          BY <2>4, RunAfterB
    <3>q. QED  BY <2>0, <3>1
  <2>5. CASE reportAfterSuite(n, g)
    <3>1. Frame(n, {g, "passed"}) /\ job' = job /\ node'[n][g] = "end"  BY <2>5, ReportAfter
    <3>q. QED  BY <2>0, <3>1
  <2>6. CASE reportSuiteDidEnd(n, g)
    <3>1. Frame(n, {g}) /\ job' = job /\ node'[n][g] = "exit"  BY <2>6, DidEnd
    <3>q. QED  BY <2>0, <3>1
  <2>7. CASE Exits(n, g)
    <3>1. Frame(n, {"up", "code"}) /\ job' = job  BY <2>7, Exit
    <3>q. QED  BY <3>1, SampleUntouched
  <2>q. QED  BY <1>16, <2>1, <2>2, <2>3, <2>4, <2>5, <2>6, <2>7 DEF Finish
<1>q. QED
  BY <1>1, <1>2, <1>3, <1>4, <1>5, <1>6, <1>7, <1>8, <1>9, <1>10, <1>11, <1>12, <1>13, <1>14, <1>15, <1>16
  DEF OwnStep, Main, Handler

LEMMA SampleStep ==
    ASSUME Shape, SharedInv, SampleInv, [Next]_vars
    PROVE  SampleInv'
<1> USE DEF Shape
<1>1. ASSUME NEW n \in Nodes, OwnStep(n) PROVE SampleInv'  BY <1>1, SampleOwnStep
<1>2. ASSUME NEW n \in Nodes, Start(n) PROVE SampleInv'
  <2>1. Frame(n, Fields) /\ job' = job /\ node[n].up = "off"  BY <1>2, Starts
  <2>2. node[n].main = "begin"  BY <2>1 DEF SharedInv, ProcShared
  <2>3. node'[n].main = "begin"  BY <1>2, <2>2, Starts, OffIsProc DEF Agree, Fields
  <2>q. QED  BY <2>1, <2>3, SampleUntouched
<1>3. ASSUME NEW n \in Nodes, Wait(n) PROVE SampleInv'
  <2>1. Frame(n, {"reaped"}) /\ job' = job  BY <1>3, Waited
  <2>q. QED  BY <2>1, SampleUntouched
<1>4. CASE Interrupt
  <2>1. job' = job  BY <1>4, Interrupts
  <2>2. ASSUME NEW n \in Nodes PROVE SampleOk(node'[n], job.suite)
    <3>1. /\ node'[n].main = node[n].main /\ node'[n].specs = node[n].specs /\ node'[n].i = node[n].i
          /\ node'[n].todo = node[n].todo /\ node'[n].unwinding = node[n].unwinding
          /\ node'[n].state = node[n].state /\ node'[n].ran = node[n].ran
          BY <1>4, Interrupts DEF Agree, Fields
    <3>2. SampleOk(node[n], job.suite)  BY DEF SampleInv
    <3>q. QED  BY <3>1, <3>2, SampleSame
  <2>q. QED  BY <2>1, <2>2 DEF SampleInv
<1>a. ASSUME AllOff PROVE SampleInv'
  <2>1. \A n \in Nodes : node'[n].main = "begin"  BY <1>a, AllOffProcs, OffIsProc
  <2>q. QED  BY <2>1 DEF SampleInv, SampleOk
<1>5. CASE Run(SuiteOf(cli.order[cli.next]))  BY <1>5, <1>a, NewJob
<1>6. CASE SuiteRan  BY <1>6, <1>a DEF SuiteRan, AllOff
<1>7. CASE UNCHANGED <<job, node>>  BY <1>7 DEF SampleInv
<1>q. QED  BY <1>1, <1>2, <1>3, <1>4, <1>5, <1>6, <1>7, NextKinds DEF AwaitResult

\* What Unwound says of a process at the end of a sample.
IsUnwound(p, suite) ==
    LET ran == p.ran
        spec == p.specs[p.i]
        of(types) == {i \in DOMAIN ran : ran[i].node.type \in types}
        afterEachs(l) == SetupNodesOfType(suite, spec.containers[l], "AfterEach")
    IN /\ \A i \in of({"AfterEach"}) :
             ran[i].node.level \in Level(spec, ran) /\ ran[i].node.place \in afterEachs(ran[i].node.level)
       /\ \A l \in Level(spec, ran) : \A k \in afterEachs(l) :
             \E i \in of({"AfterEach"}) : ran[i].node.level = l /\ ran[i].node.place = k
       /\ \A i, j \in of({"AfterEach"}) : i < j =>
             \/ ran[i].node.level > ran[j].node.level
             \/ ran[i].node.level = ran[j].node.level /\ ran[i].node.place < ran[j].node.place
       /\ \A i \in DOMAIN ran : \A j \in of({"BeforeEach", "JustBeforeEach", "Subject"}) :
             i < j => ran[i].outcome = "passed"
       /\ of({"Subject"}) # {} =>
             \A type \in {"BeforeEach", "JustBeforeEach"} : \A e \in NodesOf(suite, spec.containers, type) :
                 \E i \in DOMAIN ran : ran[i].node = e
       /\ \/ p.state = "passed" /\ \A i \in DOMAIN ran : ran[i].outcome = "passed"
          \/ \E i \in DOMAIN ran : /\ ran[i].outcome # "passed" /\ p.state = ran[i].outcome
                                   /\ \A j \in DOMAIN ran : j < i => ran[j].outcome = "passed"

LEMMA InNodesOf ==
    ASSUME NEW suite, NEW containers, NEW type
    PROVE  /\ \A e \in NodesOf(suite, containers, type) :
                  /\ e.type = type /\ e.level \in DOMAIN containers
                  /\ e.place \in SetupNodesOfType(suite, containers[e.level], type)
           /\ \A l \in DOMAIN containers : \A k \in SetupNodesOfType(suite, containers[l], type) :
                  \E e \in NodesOf(suite, containers, type) : e.type = type /\ e.level = l /\ e.place = k
<1> DEFINE nodes(l) == {[type |-> type, level |-> l, place |-> k,
                         body |-> suite.containers[containers[l]].setupNodes[k].body] :
                           k \in SetupNodesOfType(suite, containers[l], type)}
<1>1. NodesOf(suite, containers, type) = UNION {nodes(l) : l \in DOMAIN containers}  BY DEF NodesOf
<1>2. ASSUME NEW l, NEW e \in nodes(l)
      PROVE  e.type = type /\ e.level = l /\ e.place \in SetupNodesOfType(suite, containers[l], type)
      BY <1>2
<1>3. ASSUME NEW l, NEW k \in SetupNodesOfType(suite, containers[l], type)
      PROVE  \E e \in nodes(l) : e.type = type /\ e.level = l /\ e.place = k
  <2> DEFINE e == [type |-> type, level |-> l, place |-> k,
                   body |-> suite.containers[containers[l]].setupNodes[k].body]
  <2>1. e \in nodes(l)  BY <1>3
  <2>2. e.type = type /\ e.level = l /\ e.place = k  OBVIOUS
  <2> HIDE DEF e, nodes
  <2>q. QED  BY <2>1, <2>2
<1> HIDE DEF nodes
<1>4. ASSUME NEW e \in NodesOf(suite, containers, type)
      PROVE  /\ e.type = type /\ e.level \in DOMAIN containers
             /\ e.place \in SetupNodesOfType(suite, containers[e.level], type)
  <2>1. PICK l \in DOMAIN containers : e \in nodes(l)  BY <1>1
  <2>q. QED  BY <1>2, <2>1
<1>5. ASSUME NEW l \in DOMAIN containers, NEW k \in SetupNodesOfType(suite, containers[l], type)
      PROVE  \E e \in NodesOf(suite, containers, type) : e.type = type /\ e.level = l /\ e.place = k
      BY <1>1, <1>3
<1>q. QED  BY <1>4, <1>5

\* The way out is over.
LEMMA UnwoundAtEnd ==
    ASSUME NEW p, NEW suite, SampleOk(p, suite), p.main = "runSample", p.unwinding, p.todo = {}
    PROVE  IsUnwound(p, suite)
<1> DEFINE ran == p.ran
           spec == p.specs[p.i]
           all == Ahead(suite, spec)
           out(k) == Unwinding(suite, spec, ran[k].node)
<1>1. /\ IsSeq(ran) /\ FirstFailure(p)
      /\ \/ WayIn(p, all)
         \/ \E k \in DOMAIN ran : WayOut(p, all, out(k), k)
      BY DEF SampleOk
<1>2. ~WayIn(p, all)  BY DEF WayIn
<1>3. PICK k \in DOMAIN ran : WayOut(p, all, out(k), k)  BY <1>1, <1>2
<1>4. DOMAIN ran \subseteq Int  BY <1>1 DEF IsSeq
<1>5. ASSUME NEW e \in all PROVE e.type \in {"BeforeEach", "JustBeforeEach", "Subject"}
      BY <1>5, InNodesOf DEF Ahead
<1>6. ASSUME NEW e \in out(k)
      PROVE  /\ e.type = "AfterEach" /\ e.level \in Entered(spec, ran[k].node)
             /\ e.place \in SetupNodesOfType(suite, spec.containers[e.level], "AfterEach")
      BY <1>6, InNodesOf DEF Unwinding
<1>7. ASSUME NEW j \in DOMAIN ran
      PROVE  /\ j <= k => ran[j].node \in all /\ ran[j].node.type # "AfterEach"
             /\ j > k => ran[j].node \in out(k) /\ ran[j].node.type = "AfterEach"
  <2>1. j <= k => ran[j].node \in all  BY <1>3 DEF WayOut
  <2>2. j > k => ran[j].node \in out(k)  BY <1>3 DEF WayOut
  <2> HIDE DEF all, out
  <2>q. QED  BY <2>1, <2>2, <1>5, <1>6
<1>w. /\ \A j \in DOMAIN ran : j < k => ran[j].outcome = "passed"
      /\ \A j \in DOMAIN ran : j <= k => (ran[j].node.type = "Subject" => j = k)
      /\ ran[k].outcome # "passed" \/ ran[k].node.type = "Subject"
      /\ ran[k].node.type = "Subject" => \A e \in all : \E j \in DOMAIN ran : ran[j].node = e
      /\ \A e \in out(k) : \E j \in DOMAIN ran : j > k /\ ran[j].node = e
      /\ \A i, j \in DOMAIN ran : k < i /\ i < j => Earlier(ran[i].node, ran[j].node)
      BY <1>3 DEF WayOut, IsSubject
<1>8. Level(spec, ran) = Entered(spec, ran[k].node)
  <2>1. CASE ran[k].node.type = "BeforeEach"
    <3>1. ASSUME NEW l \in DOMAIN spec.containers
          PROVE  (\A i \in DOMAIN ran : ran[i].node.type = "BeforeEach" => ran[i].outcome = "passed" \/ l <= ran[i].node.level)
                 <=> l <= ran[k].node.level
      <4>1. ran[k].outcome # "passed"  BY <1>w, <2>1
      <4>2. \A i \in DOMAIN ran : ran[i].node.type = "BeforeEach" => i = k \/ ran[i].outcome = "passed"
            BY <1>4, <1>7, <1>w
      <4>q. QED  BY <2>1, <4>1, <4>2
    <3>q. QED  BY <2>1, <3>1 DEF Level, Entered
  <2>2. CASE ran[k].node.type # "BeforeEach"
    <3>1. \A i \in DOMAIN ran : ran[i].node.type = "BeforeEach" => ran[i].outcome = "passed"
          BY <1>4, <1>7, <1>w, <2>2
    <3>q. QED  BY <2>2, <3>1 DEF Level, Entered
  <2>q. QED  BY <2>1, <2>2
<1> DEFINE of(types) == {i \in DOMAIN ran : ran[i].node.type \in types}
           afterEachs(l) == SetupNodesOfType(suite, spec.containers[l], "AfterEach")
<1>9. \A i \in of({"AfterEach"}) : i > k /\ ran[i].node \in out(k)  BY <1>4, <1>7
<1>c1. \A i \in of({"AfterEach"}) :
           ran[i].node.level \in Level(spec, ran) /\ ran[i].node.place \in afterEachs(ran[i].node.level)
       BY <1>6, <1>8, <1>9
<1>c2. ASSUME NEW l \in Level(spec, ran), NEW place \in afterEachs(l)
       PROVE  \E i \in of({"AfterEach"}) : ran[i].node.level = l /\ ran[i].node.place = place
  <2>1. l \in DOMAIN spec.containers  BY DEF Level
  <2>2. PICK e \in NodesOf(suite, spec.containers, "AfterEach") : e.level = l /\ e.place = place  BY <2>1, InNodesOf
  <2>3. e \in out(k)  BY <1>8, <2>2 DEF Unwinding
  <2>4. PICK j \in DOMAIN ran : j > k /\ ran[j].node = e  BY <1>w, <2>3
  <2>5. j \in of({"AfterEach"})  BY <1>7, <2>4
  <2>q. QED  BY <2>2, <2>4, <2>5
<1>c3. ASSUME NEW i \in of({"AfterEach"}), NEW j \in of({"AfterEach"}), i < j
       PROVE  \/ ran[i].node.level > ran[j].node.level
              \/ ran[i].node.level = ran[j].node.level /\ ran[i].node.place < ran[j].node.place
  <2>1. Earlier(ran[i].node, ran[j].node) /\ ran[i].node.type = "AfterEach"  BY <1>9, <1>c3, <1>w
  <2>q. QED  BY <2>1 DEF Earlier
<1>c4. ASSUME NEW i \in DOMAIN ran, NEW j \in of({"BeforeEach", "JustBeforeEach", "Subject"}), i < j
       PROVE  ran[i].outcome = "passed"
  <2>1. j <= k  BY <1>4, <1>7
  <2>q. QED  BY <1>4, <1>c4, <1>w, <2>1
<1>c5. ASSUME of({"Subject"}) # {}, NEW type \in {"BeforeEach", "JustBeforeEach"}, NEW e \in NodesOf(suite, spec.containers, type)
       PROVE  \E i \in DOMAIN ran : ran[i].node = e
  <2>1. PICK i \in DOMAIN ran : ran[i].node.type = "Subject"  BY <1>c5
  <2>2. i <= k  BY <1>4, <1>7, <2>1
  <2>3. ran[k].node.type = "Subject"  BY <1>w, <2>1, <2>2
  <2>4. e \in all  BY DEF Ahead
  <2>q. QED  BY <1>w, <2>3, <2>4
<1>c6. \/ p.state = "passed" /\ \A i \in DOMAIN ran : ran[i].outcome = "passed"
       \/ \E i \in DOMAIN ran : /\ ran[i].outcome # "passed" /\ p.state = ran[i].outcome
                                /\ \A j \in DOMAIN ran : j < i => ran[j].outcome = "passed"
       BY <1>1 DEF FirstFailure
<1>q. QED  BY <1>c1, <1>c2, <1>c3, <1>c4, <1>c5, <1>c6 DEF IsUnwound

\* At the end of a sample every AfterEach of every container that was entered
\* has run once, inner containers first, and no other; the subject ran only
\* after all setup had run and passed; and the sample has the outcome of the
\* first node that did not pass (spec.go): for any tree of containers, whatever
\* fails, and wherever an interrupt or a crash comes in between.
THEOREM UnwoundHolds == Spec => []Unwound
<1>1. ASSUME Init PROVE Shape /\ SharedInv /\ SampleInv
  <2>1. node = [n \in Nodes |-> Off] /\ remote = NewRemote  BY <1>1 DEF Init
  <2>2. Shape  BY <1>1, ShapeInit
  <2>3. \A n \in Nodes : node[n].main = "begin"  BY <2>1, OffIsProc
  <2>q. QED  BY <2>1, <2>2, <2>3, SharedAfresh DEF Shape, SampleInv, SampleOk
<1>2. ASSUME Shape, SharedInv, SampleInv, [Next]_vars PROVE Shape' /\ SharedInv' /\ SampleInv'
      BY <1>2, ShapeStep, SharedStep, SampleStep
<1>3. ASSUME Shape, SampleInv PROVE Unwound
  <2>1. ASSUME NEW n \in NodesOfJob, At(n, "runSample"), node[n].unwinding, node[n].todo = {}
        PROVE  IsUnwound(node[n], job.suite)
    <3>1. n \in Nodes  BY <1>3, NodeAssumption DEF NodesOfJob, Shape, Nodes
    <3>2. SampleOk(node[n], job.suite)  BY <1>3, <3>1 DEF SampleInv
    <3>q. QED  BY <2>1, <3>2, UnwoundAtEnd DEF At
  <2>q. QED  BY <2>1 DEF Unwound, IsUnwound
<1>q. QED  BY <1>1, <1>2, <1>3, PTL DEF Spec

-----------------------------------------------------------------------------
(* The shares of the nodes.                                                *)

LEMMA TimesMonotone ==
    ASSUME NEW a \in Nat, NEW b \in Nat, NEW c \in Nat, a <= b
    PROVE  a * c \in Nat /\ b * c \in Nat /\ a * c <= b * c
<1>1. b * c = a * c + (b - a) * c  OBVIOUS
<1>2. (b - a) * c >= 0 /\ a * c >= 0 /\ b * c >= 0  OBVIOUS
<1>3. a * c \in Int /\ b * c \in Int /\ (b - a) * c \in Int  OBVIOUS
<1>q. QED  BY <1>1, <1>2, <1>3

LEMMA Division ==
    ASSUME NEW a \in Nat, NEW b \in Nat \ {0}
    PROVE  /\ a \div b \in Nat /\ (a % b) \in 0 .. (b - 1)
           /\ a = ((a \div b) * b) + (a % b)
  OBVIOUS

\* The ranges of the nodes lie side by side, from the first place on.
StartOf(length, total, n) ==
    LET min == length \div total
        extra == length % total
    IN ((n - 1) * min) + (IF n - 1 <= extra THEN n - 1 ELSE extra)

LEMMA Shares ==
    ASSUME NEW length \in Nat, NEW total \in Nat \ {0}, total < length, NEW n \in 1 .. total
    PROVE  LET r == ParallelizedIndexRange(length, total, n)
           IN r.start = StartOf(length, total, n) /\ r.start + r.count = StartOf(length, total, n + 1)
<1> DEFINE min == length \div total
           extra == length % total
           max == IF extra = 0 THEN min ELSE min + 1
<1>1. min \in Nat /\ extra \in Nat  BY Division
<1>2. ParallelizedIndexRange(length, total, n) =
          IF n > extra THEN [start |-> extra * max + (n - extra - 1) * min, count |-> min]
          ELSE [start |-> (n - 1) * max, count |-> max]
      BY DEF ParallelizedIndexRange
<1>3. /\ StartOf(length, total, n) = ((n - 1) * min) + (IF n - 1 <= extra THEN n - 1 ELSE extra)
      /\ StartOf(length, total, n + 1) = (n * min) + (IF n <= extra THEN n ELSE extra)
      BY DEF StartOf
<1>m. (extra = 0 /\ max = min) \/ (extra # 0 /\ max = min + 1)  OBVIOUS
<1> HIDE DEF min, extra, max
<1>4. n * min = ((n - 1) * min) + min  BY <1>1
<1>5. CASE n > extra
  <2>1. extra * max = (extra * min) + extra  BY <1>1, <1>m
  <2>2. (extra * min) + ((n - extra - 1) * min) = (n - 1) * min  BY <1>1
  <2>3. extra * max \in Int /\ extra * min \in Int /\ (n - 1) * min \in Int /\ (n - extra - 1) * min \in Int
        BY <1>1, <1>m
  <2>4. extra * max + (n - extra - 1) * min = ((n - 1) * min) + extra  BY <1>1, <2>1, <2>2, <2>3
  <2>5. (IF n - 1 <= extra THEN n - 1 ELSE extra) = extra /\ (IF n <= extra THEN n ELSE extra) = extra
        BY <1>1, <1>5
  <2>q. QED  BY <1>1, <1>2, <1>3, <1>4, <1>5, <2>3, <2>4, <2>5
<1>6. CASE ~(n > extra)
  <2>1. (n - 1) * max = ((n - 1) * min) + (n - 1)
    <3>1. extra # 0  BY <1>6, <1>1
    <3>2. max = min + 1  BY <1>m, <3>1
    <3>q. QED  BY <1>1, <3>2
  <2>2. (n - 1) * min \in Int  BY <1>1
  <2>q. QED  BY <1>1, <1>2, <1>3, <1>4, <1>6, <1>m, <2>1, <2>2
<1>q. QED  BY <1>5, <1>6

LEMMA StartsInOrder ==
    ASSUME NEW length \in Nat, NEW total \in Nat \ {0}, NEW n \in 1 .. total + 1, NEW m \in 1 .. total + 1, n <= m
    PROVE  /\ StartOf(length, total, n) \in Nat /\ StartOf(length, total, n) <= StartOf(length, total, m)
           /\ StartOf(length, total, total + 1) = length
<1> DEFINE min == length \div total
           extra == length % total
<1>1. min \in Nat /\ extra \in 0 .. (total - 1) /\ length = (min * total) + extra  BY Division
<1>2. /\ StartOf(length, total, n) = ((n - 1) * min) + (IF n - 1 <= extra THEN n - 1 ELSE extra)
      /\ StartOf(length, total, m) = ((m - 1) * min) + (IF m - 1 <= extra THEN m - 1 ELSE extra)
      /\ StartOf(length, total, total + 1) = (total * min) + (IF total <= extra THEN total ELSE extra)
      BY DEF StartOf
<1> HIDE DEF min, extra
<1>3. (n - 1) * min \in Nat /\ (m - 1) * min \in Nat /\ (n - 1) * min <= (m - 1) * min  BY <1>1, TimesMonotone
<1>4. total * min = min * total /\ total * min \in Nat  BY <1>1
<1>q. QED  BY <1>1, <1>2, <1>3, <1>4

\* Two nodes have nothing in common.
LEMMA SharesApart ==
    ASSUME NEW length \in Nat, NEW total \in Nat \ {0}, NEW n \in 1 .. total, NEW m \in 1 .. total, n < m
    PROVE  LET r == ParallelizedIndexRange(length, total, n)
               s == ParallelizedIndexRange(length, total, m)
           IN r.start + r.count <= s.start \/ s.count = 0
<1>1. CASE total >= length  BY <1>1 DEF ParallelizedIndexRange
<1>2. CASE total < length
  <2>1. n + 1 \in 1 .. total + 1 /\ m \in 1 .. total + 1 /\ n + 1 <= m  OBVIOUS
  <2>2. StartOf(length, total, n + 1) <= StartOf(length, total, m)  BY <2>1, StartsInOrder
  <2>q. QED  BY <1>2, <2>2, Shares
<1>q. QED  BY <1>1, <1>2

LEMMA ShareInside ==
    ASSUME NEW length \in Nat, NEW total \in Nat \ {0}, NEW n \in 1 .. total
    PROVE  LET r == ParallelizedIndexRange(length, total, n)
           IN r.start \in Nat /\ r.count \in Nat /\ r.start + r.count <= length
<1>1. CASE total >= length  BY <1>1 DEF ParallelizedIndexRange
<1>2. CASE total < length
  <2>1. n \in 1 .. total + 1 /\ n + 1 \in 1 .. total + 1 /\ total + 1 \in 1 .. total + 1  OBVIOUS
  <2>2. /\ StartOf(length, total, n) \in Nat /\ StartOf(length, total, n + 1) \in Nat
        /\ StartOf(length, total, n) <= StartOf(length, total, n + 1)
        /\ StartOf(length, total, n + 1) <= length
        BY <2>1, StartsInOrder
  <2> DEFINE r == ParallelizedIndexRange(length, total, n)
  <2>3. r.start = StartOf(length, total, n) /\ r.start + r.count = StartOf(length, total, n + 1)  BY <1>2, Shares
  <2>4. r.count \in Int
    <3>1. length \div total \in Int /\ length % total \in Int  BY Division
    <3>q. QED  BY <1>2, <3>1 DEF ParallelizedIndexRange
  <2> HIDE DEF r
  <2>5. r.start \in Nat /\ r.count \in Nat /\ r.start + r.count <= length  BY <2>2, <2>3, <2>4
  <2>q. QED  BY <2>5 DEF r
<1>q. QED  BY <1>1, <1>2

\* Every place is on a node.
LEMMA SharesCover ==
    ASSUME NEW length \in Nat, NEW total \in Nat \ {0}, NEW j \in 1 .. length
    PROVE  \E n \in 1 .. total : LET r == ParallelizedIndexRange(length, total, n) IN r.start < j /\ j <= r.start + r.count
<1>1. CASE total >= length
  <2>1. /\ j \in 1 .. total
        /\ LET r == ParallelizedIndexRange(length, total, j) IN r.start < j /\ j <= r.start + r.count
        BY <1>1 DEF ParallelizedIndexRange
  <2>q. QED  BY <2>1
<1>2. CASE total < length
  <2> DEFINE min == length \div total
             extra == length % total
             start(n) == StartOf(length, total, n)
  <2>1. min \in Nat /\ extra \in 0 .. (total - 1) /\ length = (min * total) + extra  BY Division
  <2>2. \A n \in 1 .. total + 1 : start(n) = ((n - 1) * min) + (IF n - 1 <= extra THEN n - 1 ELSE extra)
        BY DEF StartOf
  <2> SUFFICES ASSUME TRUE PROVE \E n \in 1 .. total : start(n) < j /\ j <= start(n + 1)
      BY <1>2, Shares
  <2> HIDE DEF min, extra, start
  <2>m. min # 0  BY <1>2, <2>1
  <2> DEFINE bound == extra * (min + 1)
  <2>b. bound \in Nat  BY <2>1
  <2>3. CASE j <= bound
    <3> DEFINE q == (j - 1) \div (min + 1)
               rem == (j - 1) % (min + 1)
    <3>1. q \in Nat /\ rem \in 0 .. min /\ j - 1 = (q * (min + 1)) + rem
      <4>1. j - 1 \in Nat /\ min + 1 \in Nat \ {0}  BY <2>1
      <4>2. /\ (j - 1) \div (min + 1) \in Nat /\ ((j - 1) % (min + 1)) \in 0 .. ((min + 1) - 1)
            /\ j - 1 = (((j - 1) \div (min + 1)) * (min + 1)) + ((j - 1) % (min + 1))
            BY <4>1, Division
      <4>q. QED  BY <2>1, <4>2 DEF q, rem
    <3> HIDE DEF q, rem
    <3>2. q < extra
      <4>1. q * (min + 1) \in Nat  BY <2>1, <3>1
      <4>2. q * (min + 1) < bound  BY <2>3, <2>b, <3>1, <4>1
      <4>3. ASSUME extra <= q PROVE FALSE
        <5>1. bound <= q * (min + 1)  BY <2>1, <3>1, <4>3, TimesMonotone
        <5>q. QED  BY <2>b, <4>1, <4>2, <5>1
      <4>q. QED  BY <2>1, <3>1, <4>3
    <3>3. q + 1 \in 1 .. total /\ q + 2 \in 1 .. total + 1  BY <2>1, <3>1, <3>2
    <3>4. start(q + 1) = (q * min) + q /\ start(q + 2) = ((q + 1) * min) + (q + 1)  BY <2>1, <2>2, <3>1, <3>2, <3>3
    <3>5. (q * (min + 1)) = (q * min) + q /\ ((q + 1) * min) = (q * min) + min /\ q * min \in Nat  BY <2>1, <3>1
    <3>6. start(q + 1) < j /\ j <= start(q + 2)  BY <2>1, <3>1, <3>4, <3>5
    <3>q. QED  BY <3>1, <3>3, <3>6
  <2>4. CASE j > bound
    <3> DEFINE left == j - 1 - bound
               q == left \div min
               rem == left % min
    <3>1. left \in Nat  BY <2>4, <2>b
    <3>2. q \in Nat /\ rem \in 0 .. (min - 1) /\ left = (q * min) + rem
      <4>1. min \in Nat \ {0}  BY <2>1, <2>m
      <4>2. /\ left \div min \in Nat /\ (left % min) \in 0 .. (min - 1)
            /\ left = ((left \div min) * min) + (left % min)
            BY <3>1, <4>1, Division
      <4>q. QED  BY <4>2 DEF q, rem
    <3> HIDE DEF q, rem
    <3>3. q * min \in Nat /\ extra * min \in Nat /\ (total - extra) * min \in Nat  BY <2>1, <3>2
    <3>4. q < total - extra
      <4>1. length = bound + ((total - extra) * min)
        <5>1. bound = (extra * min) + extra  BY <2>1
        <5>2. (total - extra) * min = (total * min) - (extra * min)  BY <2>1
        <5>3. total * min = min * total /\ total * min \in Nat  BY <2>1
        <5>q. QED  BY <2>1, <3>3, <5>1, <5>2, <5>3
      <4>2. q * min < (total - extra) * min  BY <2>b, <3>2, <3>3, <4>1
      <4>3. ASSUME total - extra <= q PROVE FALSE
        <5>1. (total - extra) * min <= q * min  BY <2>1, <3>2, <4>3, TimesMonotone
        <5>q. QED  BY <3>3, <4>2, <5>1
      <4>q. QED  BY <2>1, <3>2, <4>3
    <3> DEFINE n == extra + q + 1
    <3>5. n \in 1 .. total /\ n + 1 \in 1 .. total + 1  BY <2>1, <3>2, <3>4
    <3>6. start(n) = ((extra + q) * min) + extra
      <4>1. start(n) = ((n - 1) * min) + (IF n - 1 <= extra THEN n - 1 ELSE extra)  BY <2>2, <3>5
      <4>2. n - 1 = extra + q  BY <2>1, <3>2
      <4>3. (IF n - 1 <= extra THEN n - 1 ELSE extra) = extra  BY <2>1, <3>2
      <4>q. QED  BY <4>1, <4>2, <4>3
    <3>7. start(n + 1) = ((extra + q + 1) * min) + extra
      <4>1. start(n + 1) = (((n + 1) - 1) * min) + (IF (n + 1) - 1 <= extra THEN (n + 1) - 1 ELSE extra)
            BY <2>2, <3>5
      <4>2. (n + 1) - 1 = extra + q + 1  BY <2>1, <3>2
      <4>3. (IF (n + 1) - 1 <= extra THEN (n + 1) - 1 ELSE extra) = extra  BY <2>1, <3>2
      <4>q. QED  BY <4>1, <4>2, <4>3
    <3>8. /\ (extra + q) * min = (extra * min) + (q * min)
          /\ (extra + q + 1) * min = (extra * min) + (q * min) + min
          /\ bound = (extra * min) + extra
          BY <2>1, <3>2
    <3>9. start(n) < j /\ j <= start(n + 1)  BY <2>1, <3>2, <3>3, <3>6, <3>7, <3>8
    <3>q. QED  BY <3>5, <3>9
  <2>q. QED  BY <2>3, <2>4, <2>b
<1>q. QED  BY <1>1, <1>2
-----------------------------------------------------------------------------
(* The verdict of a suite.                                                 *)

\* A spec is a record; the specs of a node are the ones it was given, in that
\* order, whatever became of them.
IsSpec(s) == s = [subject |-> s.subject, containers |-> s.containers, focused |-> s.focused, state |-> s.state]
Own(n) == generateSpecs(job.suite, job.conf[n], job.all[n])

Lists(n) ==
    /\ DOMAIN node[n].specs = DOMAIN Own(n)
    /\ \A j \in DOMAIN node[n].specs : IsSpec(node[n].specs[j]) /\ node[n].specs[j].subject = Own(n)[j].subject

\* The specs of the suite, each subject once, as they are before they run.
IsListing(suite, all) ==
    /\ all = [i \in DOMAIN suite.subjects |-> all[i]]
    /\ \A i \in DOMAIN all : IsSpec(all[i]) /\ all[i].state \in {"invalid", "pending"}
    /\ \A k \in DOMAIN suite.subjects : \E i \in DOMAIN all : \A j \in DOMAIN all : all[j].subject = k <=> j = i

\* What the flags tell the processes of a suite.
JobInv ==
    job.mode # "gotest" =>
        /\ job.total > 0 => DOMAIN job.suite.subjects = 1 .. Len(job.suite.subjects) /\ Len(job.suite.subjects) \in Nat
        /\ \A n \in NodesOfJob : /\ job.conf[n].total = job.total /\ (job.total > 1 => job.conf[n].node = n)
                                 /\ IsListing(job.suite, job.all[n])
        /\ SeedForAll => \A n, k \in NodesOfJob : job.all[n] = job.all[k]

\* The command goes through the suites that it found.
OrderInv ==
    /\ cli.compile = [i \in DOMAIN cli.order |-> cli.compile[i]]
    /\ cli.pc \in {"running", "result", "suiteRan"} => cli.next \in DOMAIN cli.order
    /\ cli.inv.command # "watch" =>
           cli.pc # "watching" /\ \A i \in DOMAIN cli.order : cli.order[i] \in DOMAIN cli.inv.suites

BeforeSpecs == {"begin", "before", "waitForA", "askAlive", "postA", "runB", "reportBefore"}
InSpecs == {"specs", "runSample", "completed"}
AfterSpecs == {"blockIfInterrupted", "after", "waitForOthers", "runAfterB", "reportAfter", "end", "exit"}

\* The specs that a process is through with.
DoneWith(p, j) == j < p.i \/ (j = p.i /\ p.main = "completed")

Clean(p) == p.before \in {"none", "passed"} /\ \A j \in DOMAIN p.specs : p.specs[j].state \in Excusable

\* A process that has not failed by now is clean up to here; what it found out
\* before it was interrupted does not count.
ByNow(p) ==
    /\ p.i \in Nat \ {0}
    /\ p.main \in {"begin", "before", "waitForA", "askAlive"} => p.before = "none"
    /\ p.main = "runB" => p.before \in {"none", "passed"}
    /\ p.main \in BeforeSpecs => p.i = 1 /\ ~p.suiteFailed
    /\ p.main \in InSpecs =>
           /\ p.before \in {"none", "passed"}
           /\ ~p.suiteFailed => \A j \in DOMAIN p.specs : DoneWith(p, j) => p.specs[j].state \in Excusable
    /\ p.main \in {"runSample", "completed"} => p.i \in DOMAIN p.specs
    /\ (p.main \in AfterSpecs /\ p.passed /\ (p.main = "blockIfInterrupted" => ~p.interrupted)) => Clean(p)

\* While nobody typed ^C only the goroutine "main" runs the AfterSuite.
Undisturbed(p) ==
    /\ ~p.signalled /\ p.handler \in {"off", "registering", "listening"}
    /\ p.main \notin {"waitForOthers", "runAfterB", "reportAfter", "end", "exit"} => p.after = "none"
    /\ (p.main \in {"end", "exit"} /\ p.passed) => p.after \in {"none", "passed"}

EndedWell(p) == p.up = "gone" /\ p.code \in {0, FocusExitCode}

ProcVerdict(n) ==
    LET p == node[n]
    IN /\ (p.up = "up" \/ EndedWell(p)) => Lists(n)
       /\ p.up = "up" => n \in NodesOfJob /\ ByNow(p) /\ (cli.typed \/ Undisturbed(p))
       /\ EndedWell(p) => Clean(p) /\ (cli.typed \/ p.after \in {"none", "passed"})

\* What the command made of the processes.
Judged == cli.pc = "suiteRan" /\ cli.compile[cli.next] = "ok"

CliVerdict ==
    /\ cli.signalled => cli.typed
    /\ cli.pc \in {"running", "result"} => cli.compile[cli.next] = "ok" /\ job.total > 0
    /\ cli.pc = "suiteRan" => cli.compile[cli.next] \in {"ok", "error"}
    /\ Judged => job.total > 0
    /\ cli.pc = "running" =>
           cli.collected \subseteq NodesOfJob /\ (cli.suiteRes.passed => \A n \in cli.collected : EndedWell(node[n]))
    /\ (cli.pc \in {"result", "suiteRan"} /\ cli.suiteRes.passed) => \A n \in NodesOfJob : EndedWell(node[n])


\* A filter leaves the number of the specs and their subjects alone.
SameSpecs(specs, u) ==
    /\ DOMAIN u = DOMAIN specs /\ u = [i \in DOMAIN u |-> u[i]]
    /\ \A i \in DOMAIN u : IsSpec(u[i]) /\ u[i].subject = specs[i].subject /\ u[i].state \in {"invalid", "pending", "skipped"}

LEMMA SkipSpec ==
    ASSUME NEW s, IsSpec(s)
    PROVE  IsSpec(Skip(s)) /\ Skip(s).subject = s.subject /\ Skip(s).state = "skipped" /\ Skip(s).containers = s.containers
  BY DEF IsSpec, Skip

\* Whatever the filter, as a set of places.
Skipping(specs, X) == [i \in DOMAIN specs |-> IF i \in X THEN Skip(specs[i]) ELSE specs[i]]

LEMMA SkippingSame ==
    ASSUME NEW all, NEW specs, NEW X, SameSpecs(all, specs)
    PROVE  SameSpecs(all, Skipping(specs, X))
<1> DEFINE u == Skipping(specs, X)
<1>1. DOMAIN u = DOMAIN all /\ u = [i \in DOMAIN u |-> u[i]] /\ DOMAIN specs = DOMAIN all  BY DEF SameSpecs, Skipping
<1>2. ASSUME NEW i \in DOMAIN all
      PROVE  IsSpec(u[i]) /\ u[i].subject = all[i].subject /\ u[i].state \in {"invalid", "pending", "skipped"}
  <2>1. /\ IsSpec(specs[i]) /\ specs[i].subject = all[i].subject /\ specs[i].state \in {"invalid", "pending", "skipped"}
        /\ u[i] = IF i \in X THEN Skip(specs[i]) ELSE specs[i]
        BY <1>1, <1>2 DEF SameSpecs, Skipping
  <2>2. CASE i \in X  BY <2>1, <2>2, SkipSpec
  <2>3. CASE i \notin X  BY <2>1, <2>3
  <2>q. QED  BY <2>2, <2>3
<1> HIDE DEF u
<1>3. SameSpecs(all, u)  BY <1>1, <1>2 DEF SameSpecs
<1>q. QED  BY <1>3 DEF u

\* The specs of a node before they are trimmed.
Filtered(suite, conf, all) ==
    LET focused == ApplyFocus(all, conf.focus, conf.skip)
    IN IF conf.skipMeasurements THEN SkipMeasurements(suite, focused) ELSE focused

LEMMA FilteredSame ==
    ASSUME NEW suite, NEW conf, NEW all, IsListing(suite, all)
    PROVE  SameSpecs(all, Filtered(suite, conf, all))
<1> DEFINE focused == ApplyFocus(all, conf.focus, conf.skip)
<1>0. SameSpecs(all, all)  BY DEF SameSpecs, IsListing
<1>1. SameSpecs(all, focused)
  <2>1. CASE conf.focus = {} /\ conf.skip = {}
    <3>1. CASE HasFocus(all)
      <4> DEFINE X == {i \in DOMAIN all : ~all[i].focused}
      <4>1. focused = Skipping(all, X)
            BY <2>1, <3>1 DEF ApplyFocus, applyProgrammaticFocus, SkipAll, Skipping
      <4> HIDE DEF X, focused
      <4>q. QED  BY <1>0, <4>1, SkippingSame
    <3>2. CASE ~HasFocus(all)
          BY <1>0, <2>1, <3>2 DEF ApplyFocus, applyProgrammaticFocus
    <3>q. QED  BY <3>1, <3>2
  <2>2. CASE ~(conf.focus = {} /\ conf.skip = {})
    <3> DEFINE Out(s) == \/ \E f \in conf.focus : s.subject \notin f
                         \/ \E f \in conf.skip : s.subject \in f
               X == {i \in DOMAIN all : Out(all[i])}
    <3>1. focused = [i \in DOMAIN all |-> IF Out(all[i]) THEN Skip(all[i]) ELSE all[i]]
          BY <2>2 DEF ApplyFocus, applyRegExpFocus, SkipAll
    <3> HIDE DEF Out
    <3>2. focused = Skipping(all, X)  BY <3>1 DEF Skipping
    <3> HIDE DEF X, focused
    <3>q. QED  BY <1>0, <3>2, SkippingSame
  <2>q. QED  BY <2>1, <2>2
<1>2. CASE conf.skipMeasurements
  <2> DEFINE X == {i \in DOMAIN focused : IsMeasurement(suite, focused[i])}
  <2>1. Filtered(suite, conf, all) = Skipping(focused, X)
        BY <1>2 DEF Filtered, SkipMeasurements, SkipAll, Skipping
  <2> HIDE DEF X, focused
  <2>q. QED  BY <1>1, <2>1, SkippingSame
<1>3. CASE ~conf.skipMeasurements  BY <1>1, <1>3 DEF Filtered
<1>q. QED  BY <1>2, <1>3

\* Where the share of a node begins, and how long it is.
ShareOf(length, conf) ==
    IF conf.total > 1 THEN ParallelizedIndexRange(length, conf.total, conf.node) ELSE [start |-> 0, count |-> length]

\* A node has its share of the specs.
LEMMA OwnSpecs ==
    ASSUME NEW suite, NEW conf, NEW all, IsListing(suite, all), NEW length \in Nat, DOMAIN suite.subjects = 1 .. length,
           conf.total \in Nat \ {0}, conf.total > 1 => conf.node \in 1 .. conf.total
    PROVE  LET own == generateSpecs(suite, conf, all)
               r == ShareOf(length, conf)
           IN /\ r.start \in Nat /\ r.count \in Nat /\ r.start + r.count <= length
              /\ DOMAIN own = 1 .. r.count
              /\ \A j \in 1 .. r.count : /\ IsSpec(own[j]) /\ own[j].subject = all[r.start + j].subject
                                         /\ own[j].state \in {"invalid", "pending", "skipped"}
<1> DEFINE u == Filtered(suite, conf, all)
           own == generateSpecs(suite, conf, all)
           r == ShareOf(length, conf)
<1>1. SameSpecs(all, u) /\ DOMAIN all = 1 .. length  BY FilteredSame DEF IsListing
<1>2. own = IF conf.total > 1 THEN TrimForParallelization(u, conf.total, conf.node) ELSE u
      BY DEF generateSpecs, Filtered
<1> DEFINE S == {u[i] : i \in 1 .. length}
<1>3. u \in Seq(S) /\ Len(u) = length /\ \A i \in 1 .. length : u[i] \in S
  <2>1. u \in [1 .. length -> S]  BY <1>1 DEF SameSpecs
  <2> HIDE DEF u, S
  <2>2. u \in Seq(S)  BY <2>1
  <2>q. QED  BY <2>1, <2>2, LenProperties
<1> HIDE DEF u, S
<1>4. CASE conf.total > 1
  <2>1. r = ParallelizedIndexRange(length, conf.total, conf.node)  BY <1>4 DEF ShareOf
  <2>2. own = SubSeq(u, r.start + 1, r.start + r.count)  BY <1>2, <1>3, <1>4, <2>1 DEF TrimForParallelization
  <2>3. r.start \in Nat /\ r.count \in Nat /\ r.start + r.count <= length  BY <1>4, <2>1, ShareInside
  <2> HIDE DEF own, r
  <2> DEFINE first == r.start + 1
             last == r.start + r.count
  <2>4. first \in Int /\ last \in Int /\ \A i \in first .. last : u[i] \in S  BY <1>3, <2>3
  <2>o. own = SubSeq(u, first, last)  BY <2>2
  <2>a. first = r.start + 1 /\ last = r.start + r.count  OBVIOUS
  <2> HIDE DEF first, last
  <2>5. /\ own \in Seq(S) /\ Len(own) = IF first <= last THEN last - first + 1 ELSE 0
        /\ \A i \in 1 .. last - first + 1 : own[i] = u[first + i - 1]
        BY <2>o, <2>4, SubSeqProperties
  <2>6. DOMAIN own = 1 .. Len(own)  BY <2>5, LenProperties
  <2>7. Len(own) = r.count  BY <2>3, <2>5, <2>a
  <2>8. \A j \in 1 .. r.count : own[j] = u[r.start + j] /\ r.start + j \in 1 .. length
    <3> SUFFICES ASSUME NEW j \in 1 .. r.count PROVE own[j] = u[r.start + j] /\ r.start + j \in 1 .. length  OBVIOUS
    <3>1. j \in 1 .. last - first + 1 /\ first + j - 1 = r.start + j  BY <2>3, <2>a
    <3>q. QED  BY <2>3, <2>5, <3>1
  <2>9. \A j \in 1 .. r.count : /\ IsSpec(own[j]) /\ own[j].subject = all[r.start + j].subject
                                /\ own[j].state \in {"invalid", "pending", "skipped"}
        BY <1>1, <2>8 DEF SameSpecs
  <2>q. QED  BY <2>3, <2>6, <2>7, <2>9 DEF own, r
<1>5. CASE ~(conf.total > 1)
  <2>1. r = [start |-> 0, count |-> length] /\ own = u  BY <1>2, <1>5 DEF ShareOf
  <2> HIDE DEF own, r
  <2>q. QED  BY <1>1, <2>1 DEF SameSpecs, own, r
<1>q. QED  BY <1>4, <1>5

LEMMA SpecsAreListed ==
    ASSUME NEW suite, NEW conf, NEW perm \in Seeds(suite, conf), ListsAll(suite, conf)
    PROVE  IsListing(suite, AllSpecs(suite, conf, perm))
<1> DEFINE nodes == Collate(IF conf.randomizeAllSpecs THEN suite ELSE Shuffle(suite, perm))
           specs == [i \in DOMAIN nodes |-> NewSpec(suite, nodes[i])]
           all == AllSpecs(suite, conf, perm)
<1>1. /\ suite.subjects \in Seq(Range(suite.subjects)) /\ DOMAIN all = DOMAIN suite.subjects
      /\ \A k \in DOMAIN suite.subjects : \E i \in DOMAIN all : \A j \in DOMAIN all : all[j].subject = k <=> j = i
      BY DEF ListsAll
<1>2. all = IF conf.randomizeAllSpecs THEN Permuted(specs, perm) ELSE specs  BY DEF AllSpecs
<1>3. \A i \in DOMAIN nodes : IsSpec(specs[i]) /\ specs[i].state \in {"invalid", "pending"}
  <2> SUFFICES ASSUME NEW i \in DOMAIN nodes PROVE IsSpec(specs[i]) /\ specs[i].state \in {"invalid", "pending"}  OBVIOUS
  <2>1. specs[i] = NewSpec(suite, nodes[i])  OBVIOUS
  <2> HIDE DEF specs, nodes
  <2>q. QED  BY <2>1 DEF NewSpec, IsSpec
<1>4. DOMAIN specs = DOMAIN nodes  OBVIOUS
<1> HIDE DEF nodes, specs, all
<1>5. CASE conf.randomizeAllSpecs
  <2>1. all = [i \in DOMAIN specs |-> specs[perm[i]]]  BY <1>2, <1>5 DEF Permuted
  <2>2. DOMAIN specs = DOMAIN suite.subjects /\ DOMAIN suite.subjects = 1 .. Len(suite.subjects)
        BY <1>1, <2>1, LenProperties
  <2>3. perm \in [1 .. Len(suite.subjects) -> 1 .. Len(suite.subjects)]  BY <1>5 DEF Seeds, Orders
  <2>4. \A i \in DOMAIN all : all[i] = specs[perm[i]] /\ perm[i] \in DOMAIN nodes  BY <1>4, <2>1, <2>2, <2>3
  <2>5. all = [i \in DOMAIN suite.subjects |-> all[i]]  BY <2>1, <2>2
  <2>6. \A i \in DOMAIN all : IsSpec(all[i]) /\ all[i].state \in {"invalid", "pending"}  BY <1>3, <2>4
  <2>7. IsListing(suite, all)  BY <1>1, <2>5, <2>6 DEF IsListing
  <2>q. QED  BY <2>7 DEF all
<1>6. CASE ~conf.randomizeAllSpecs
  <2>1. all = specs  BY <1>2, <1>6
  <2>2. all = [i \in DOMAIN suite.subjects |-> all[i]]  BY <1>1, <2>1 DEF specs
  <2>3. IsListing(suite, all)  BY <1>1, <1>3, <1>4, <2>1, <2>2 DEF IsListing
  <2>q. QED  BY <2>3 DEF all
<1>q. QED  BY <1>5, <1>6

\* The flags that matter to the order and the share of the specs.
LEMMA FlagsOfProcess ==
    ASSUME NEW conf, NEW time
    PROVE  LET flags == Flags(BuildFlagArgs(conf), time)
           IN /\ flags.total = IF conf.total # 0 THEN conf.total ELSE 1
              /\ flags.node = IF conf.node # 0 THEN conf.node ELSE 1
              /\ flags.seed = IF conf.seed > 0 THEN conf.seed ELSE time
<1> DEFINE args == BuildFlagArgs(conf)
           default == [Unset EXCEPT !.seed = time, !.node = 1, !.total = 1]
           names == {"seed", "randomizeAllSpecs", "focus", "skip", "skipMeasurements", "failOnPending",
                     "failFast", "node", "total"}
<1>1. DOMAIN Unset = names /\ Unset.seed = 0 /\ Unset.node = 0 /\ Unset.total = 0  BY DEF Unset
<1>2. default.seed = time /\ default.node = 1 /\ default.total = 1  BY DEF Unset
<1>3. /\ DOMAIN args = {f \in names : IF f = "seed" THEN conf[f] > 0 ELSE conf[f] # Unset[f]}
      /\ \A f \in DOMAIN args : args[f] = conf[f]
      BY <1>1 DEF BuildFlagArgs
<1> HIDE DEF args, default
<1>4. Flags(args, time) = [f \in names |-> IF f \in DOMAIN args THEN args[f] ELSE default[f]]
      BY <1>1 DEF Flags, default
<1>5. /\ \A f \in {"total", "node"} : Flags(args, time)[f] = IF conf[f] # Unset[f] THEN conf[f] ELSE default[f]
      /\ Flags(args, time)["seed"] = IF conf["seed"] > 0 THEN conf["seed"] ELSE default["seed"]
      BY <1>3, <1>4
<1>q. QED  BY <1>1, <1>2, <1>5 DEF args

LEMMA ConfOfProcess ==
    ASSUME Shape, NEW suite, NEW n \in 1 .. TotalOf(suite)
    PROVE  /\ TotalOf(suite) \in Nat \ {0}
           /\ ConfOf(suite, n).total = TotalOf(suite)
           /\ TotalOf(suite) > 1 => ConfOf(suite, n).node = n
           /\ SeedForAll => ConfOf(suite, n).seed = cli.inv.conf.seed
<1> DEFINE conf == IF IsParallel(suite) THEN [cli.inv.conf EXCEPT !.node = n, !.total = TotalOf(suite)] ELSE cli.inv.conf
<1>1. /\ cli.inv.numCPU \in Int /\ DOMAIN cli.inv.conf = DOMAIN Unset
      /\ cli.inv.conf.node = 0 /\ cli.inv.conf.total = 0
      BY InvocationAssumption DEF Shape, Unset
<1>2. "seed" \in DOMAIN Unset /\ "node" \in DOMAIN Unset /\ "total" \in DOMAIN Unset  BY DEF Unset
<1>3. ConfOf(suite, n) = Flags(BuildFlagArgs(conf), -n)  BY DEF ConfOf, cmd
<1>4. conf.seed = cli.inv.conf.seed  BY <1>1, <1>2
<1>5. CASE IsParallel(suite)
  <2>1. conf.node = n /\ conf.total = TotalOf(suite)  BY <1>1, <1>2, <1>5
  <2>2. TotalOf(suite) \in Nat \ {0}  BY <1>1, <1>5 DEF TotalOf, IsParallel
  <2> HIDE DEF conf
  <2>q. QED  BY <1>3, <1>4, <2>1, <2>2, FlagsOfProcess DEF SeedForAll
<1>6. CASE ~IsParallel(suite)
  <2>1. conf.node = 0 /\ conf.total = 0 /\ TotalOf(suite) = 1  BY <1>1, <1>6 DEF TotalOf
  <2> HIDE DEF conf
  <2>q. QED  BY <1>3, <1>4, <2>1, FlagsOfProcess DEF SeedForAll
<1>q. QED  BY <1>5, <1>6

\* The flags and the specs of the processes of the next suite.
LEMMA NextJob ==
    ASSUME Shape, OrderInv, NextSuite, Run(SuiteOf(cli.order[cli.next]))
    PROVE  JobInv'
<1> DEFINE id == cli.order[cli.next]
           suite == SuiteOf(id)
           total == TotalOf(suite)
           conf == cli.inv.conf
<1>c. cli'.inv = cli.inv
  <2>1. Next  BY DEF Next, CommandStep
  <2>q. QED  BY <2>1, CliStays DEF Shape
<1>1. PICK perm \in [1 .. total -> Seeds(suite.tree, conf)] :
          /\ \A n, k \in 1 .. total : ConfOf(suite, n).seed = ConfOf(suite, k).seed => perm[n] = perm[k]
          /\ job' = [suite |-> suite.tree, total |-> total, mode |-> ModeOf(suite),
                     conf |-> [n \in 1 .. total |-> ConfOf(suite, n)],
                     all |-> [n \in 1 .. total |-> AllSpecs(suite.tree, conf, perm[n])]]
      BY DEF Run
<1> SUFFICES ASSUME job'.mode # "gotest" PROVE JobInv'  BY DEF JobInv
<1>2. ListsAll(suite.tree, conf)
  <2>1. job'.mode = ModeOf(suite)  BY <1>1
  <2>2. suite.ginkgo  BY <2>1 DEF ModeOf
  <2>3. cli.inv.command # "watch" /\ suite = cli.inv.suites[id]  BY <2>2 DEF SuiteOf, GoTest
  <2>4. id \in DOMAIN cli.inv.suites  BY <2>3 DEF OrderInv, NextSuite
  <2>q. QED  BY <2>3, <2>4, TreeAssumption DEF Shape
<1> HIDE DEF suite, conf
<1>3. ASSUME NEW n \in 1 .. total
      PROVE  /\ job'.conf[n].total = total /\ (total > 1 => job'.conf[n].node = n)
             /\ IsListing(suite.tree, job'.all[n])
             /\ job'.all[n] = AllSpecs(suite.tree, conf, perm[n])
             /\ SeedForAll => ConfOf(suite, n).seed = conf.seed
  <2>1. job'.conf[n] = ConfOf(suite, n) /\ job'.all[n] = AllSpecs(suite.tree, conf, perm[n])  BY <1>1
  <2>2. IsListing(suite.tree, job'.all[n])  BY <1>2, <2>1, SpecsAreListed
  <2>q. QED  BY <2>1, <2>2, ConfOfProcess DEF conf
<1>4. SeedForAll => \A n, k \in 1 .. total : job'.all[n] = job'.all[k]  BY <1>1, <1>3
<1>5. suite.tree.subjects \in Seq(Range(suite.tree.subjects))  BY <1>2 DEF ListsAll
<1>6. DOMAIN suite.tree.subjects = 1 .. Len(suite.tree.subjects) /\ Len(suite.tree.subjects) \in Nat
      BY <1>5, LenProperties
<1>7. job'.suite = suite.tree /\ job'.total = total  BY <1>1
<1> HIDE DEF total
<1>q. QED  BY <1>3, <1>4, <1>6, <1>7, <1>c DEF JobInv, NodesOfJob, SeedForAll

\* The job changes only with the suite.
LEMMA JobStep ==
    ASSUME Shape, OrderInv, JobInv, [Next]_vars
    PROVE  JobInv'
<1>c. cli'.inv = cli.inv  BY CliStays DEF Shape
<1>s. ASSUME job' = job PROVE JobInv'  BY <1>c, <1>s DEF JobInv, NodesOfJob, SeedForAll
<1>1. ASSUME NEW n \in Nodes, OwnStep(n) PROVE JobInv'  BY <1>1, <1>s, OwnStepShape
<1>2. ASSUME NEW n \in Nodes, Start(n) \/ Wait(n) PROVE JobInv'  BY <1>2, <1>s DEF Start, Wait
<1>3. CASE Interrupt \/ AwaitResult  BY <1>3, <1>s DEF Interrupt, AwaitResult
<1>4. CASE NextSuite /\ Run(SuiteOf(cli.order[cli.next]))  BY <1>4, NextJob
<1>5. CASE SuiteRan
  <2>1. job'.total = 0  BY <1>5 DEF SuiteRan, NoSuite
  <2>q. QED  BY <2>1 DEF JobInv, NodesOfJob
<1>6. CASE UNCHANGED <<job, remote, node>>  BY <1>6, <1>s
<1>q. QED  BY <1>1, <1>2, <1>3, <1>4, <1>5, <1>6, NextKinds

\* The steps of the command, as far as the verdict goes: it is elsewhere, it is
\* still at the same suite, or it begins, collects or ends one.
Elsewhere == cli'.pc \notin {"running", "result", "suiteRan"}
Signals ==
    /\ cli'.signalled => cli.signalled \/ cli'.typed
    /\ cli.typed => cli'.typed
    /\ cli'.typed => cli.typed \/ Interrupt

SameSuite ==
    /\ cli'.pc = cli.pc /\ cli'.next = cli.next /\ cli'.order = cli.order
    /\ cli'.suiteRes = cli.suiteRes /\ cli'.collected = cli.collected /\ job' = job
    /\ \A i \in DOMAIN cli.order : cli.compile[i] \in {"ok", "error"} => cli'.compile[i] = cli.compile[i]

LEMMA CommandKinds ==
    ASSUME Shape, OrderInv, [Next]_vars
    PROVE  Signals /\ (Elsewhere \/ SameSuite \/ NextSuite \/ AwaitResult \/ \E n \in Nodes : Completion(n))
<1> DEFINE P == Signals /\ (Elsewhere \/ SameSuite \/ NextSuite \/ AwaitResult \/ \E n \in Nodes : Completion(n))
<1>0. IsCli(cli)  BY DEF Shape
<1>s. ASSUME NEW order PROVE LET c == RunSuites(cli, order)
                             IN IsCli(c) /\ c.pc = "suites" /\ c.signalled = cli.signalled /\ c.typed = cli.typed
      BY <1>0 DEF RunSuites, IsCli, CliFields
<1>c. ASSUME cli' = cli, job' = job PROVE P  BY <1>c DEF Signals, SameSuite
<1>1. CASE NextSuite  BY <1>0, <1>1 DEF NextSuite, Signals, IsCli, CliFields
<1>2. CASE AwaitResult  BY <1>0, <1>2 DEF AwaitResult, Signals, IsCli, CliFields
<1>3. CASE SuiteRan  BY <1>0, <1>3 DEF SuiteRan, Signals, Elsewhere, IsCli, CliFields
<1>4. CASE SuitesDone  BY <1>0, <1>4 DEF SuitesDone, Only, Signals, Elsewhere, IsCli, CliFields
<1>5. CASE RunSpecs  BY <1>s, <1>5 DEF RunSpecs, Only, Signals, Elsewhere
<1>6. CASE RunSpecsEnds
  <2>1. \/ cli' = [cli EXCEPT !.pc = "start"]
        \/ \E code : cli' = [cli EXCEPT !.pc = "exited", !.code = code]
        BY <1>6 DEF RunSpecsEnds, Only
  <2>q. QED  BY <1>0, <2>1 DEF Signals, Elsewhere, IsCli, CliFields
<1>7. CASE WatchSuites
  <2>1. \/ cli' = [cli EXCEPT !.pc = "exited", !.code = 1]
        \/ \E order : cli' = RunSuites(cli, order)
        \/ cli' = [cli EXCEPT !.pc = "watching"]
        BY <1>7 DEF WatchSuites
  <2>q. QED  BY <1>0, <1>s, <2>1 DEF Signals, Elsewhere, IsCli, CliFields
<1>8. CASE Tick
  <2>1. \/ cli' = [cli EXCEPT !.pc = "exited", !.code = 2]
        \/ cli' = cli
        \/ \E order : cli' = [RunSuites(cli, order) EXCEPT !.callback = TRUE]
        BY <1>8 DEF Tick
  <2>2. ASSUME NEW order
        PROVE  LET c == [RunSuites(cli, order) EXCEPT !.callback = TRUE]
               IN c.pc = "suites" /\ c.signalled = cli.signalled /\ c.typed = cli.typed
    <3> DEFINE c == RunSuites(cli, order)
    <3>1. IsCli(c) /\ c.pc = "suites" /\ c.signalled = cli.signalled /\ c.typed = cli.typed  BY <1>s
    <3> HIDE DEF c
    <3>2. LET d == [c EXCEPT !.callback = TRUE] IN d.pc = c.pc /\ d.signalled = c.signalled /\ d.typed = c.typed
          BY <3>1 DEF IsCli, CliFields
    <3>q. QED  BY <3>1, <3>2 DEF c
  <2>3. job' = job  BY <1>8 DEF Tick, suiteVars
  <2>4. CASE cli' = cli  BY <1>c, <2>3, <2>4
  <2>5. CASE cli' = [cli EXCEPT !.pc = "exited", !.code = 2]
        BY <1>0, <2>5 DEF Signals, Elsewhere, IsCli, CliFields
  <2>6. ASSUME NEW order, cli' = [RunSuites(cli, order) EXCEPT !.callback = TRUE] PROVE P
        BY <2>2, <2>6 DEF Signals, Elsewhere
  <2>q. QED  BY <2>1, <2>4, <2>5, <2>6
<1>9. CASE ResumeWatch  BY <1>0, <1>9 DEF ResumeWatch, Only, Signals, Elsewhere, IsCli, CliFields
<1>10. CASE StopWatch  BY <1>0, <1>10 DEF StopWatch, Only, Signals, Elsewhere, IsCli, CliFields
<1>11. CASE handleInterrupt
  <2>1. \E pc, code : /\ cli' = [cli EXCEPT !.signalled = FALSE, !.interrupts = @ + 1, !.pc = pc, !.code = code]
                      /\ pc \in {cli.pc, "exited"}
        BY <1>11 DEF handleInterrupt, Only
  <2>2. job' = job  BY <1>11 DEF handleInterrupt, Only
  <2>q. QED  BY <1>0, <2>1, <2>2 DEF Signals, Elsewhere, SameSuite, IsCli, CliFields
<1>12. ASSUME NEW i, willCompile(i) \/ compile(i) PROVE P
  <2>1. PICK x, y : cli' = [cli EXCEPT !.compile[i] = x, !.compiled = y]
    <3>1. CASE willCompile(i)
      <4>1. cli' = [cli EXCEPT !.compile[i] = "started"]  BY <3>1 DEF willCompile
      <4>2. cli' = [cli EXCEPT !.compile[i] = "started", !.compiled = cli.compiled]
            BY <1>0, <4>1 DEF IsCli, CliFields
      <4>q. QED  BY <4>2
    <3>2. CASE compile(i)  BY <3>2 DEF compile
    <3>q. QED  BY <1>12, <3>1, <3>2
  <2>2. cli.compile[i] \in {"waiting", "started"} /\ job' = job  BY <1>12 DEF willCompile, compile
  <2>3. cli'.compile = [cli.compile EXCEPT ![i] = x]  BY <1>0, <2>1 DEF IsCli, CliFields
  <2>4. \A k \in DOMAIN cli.order : cli.compile[k] \in {"ok", "error"} => cli'.compile[k] = cli.compile[k]
        BY <2>2, <2>3 DEF OrderInv
  <2>5. /\ cli'.pc = cli.pc /\ cli'.next = cli.next /\ cli'.order = cli.order /\ cli'.suiteRes = cli.suiteRes
        /\ cli'.collected = cli.collected /\ cli'.signalled = cli.signalled /\ cli'.typed = cli.typed
        BY <1>0, <2>1 DEF IsCli, CliFields
  <2>q. QED  BY <2>2, <2>4, <2>5 DEF Signals, SameSuite
<1>13. CASE Interrupt
  <2>1. job' = job  BY <1>13 DEF Interrupt
  <2>2. CASE cli' = [cli EXCEPT !.typed = TRUE, !.signalled = TRUE]
        BY <1>0, <1>13, <2>1, <2>2 DEF Signals, SameSuite, IsCli, CliFields
  <2>3. CASE cli' = [cli EXCEPT !.pc = "exited", !.code = 2]
        BY <1>0, <1>13, <2>3 DEF Signals, Elsewhere, IsCli, CliFields
  <2>q. QED  BY <1>13, <2>2, <2>3 DEF Interrupt
<1>14. ASSUME NEW n \in Nodes, Completion(n) PROVE P
  <2>1. \E x, y, z : cli' = [cli EXCEPT !.collected = x, !.suiteRes = y, !.pc = z]  BY <1>14 DEF Completion, Only
  <2>2. Signals  BY <1>0, <2>1 DEF Signals, IsCli, CliFields
  <2>q. QED  BY <1>14, <2>2
<1>15. ASSUME NEW n \in Nodes, Start(n) \/ Wait(n) \/ ProcessStep(n) PROVE P
  <2>1. cli' = cli  BY <1>15 DEF Start, Wait, ProcessStep
  <2>2. job' = job
    <3>1. CASE Start(n) \/ Wait(n)  BY <3>1 DEF Start, Wait
    <3>2. CASE ProcessStep(n)  BY <3>2, OwnStepShape DEF ProcessStep, OwnStep
    <3>q. QED  BY <1>15, <3>1, <3>2
  <2>q. QED  BY <1>c, <2>1, <2>2
<1>16. CASE Develop  BY <1>16, <1>c DEF Develop, suiteVars
<1>17. CASE UNCHANGED vars  BY <1>17, <1>c DEF vars
<1>q. QED
  <2>1. CASE CommandStep  BY <2>1, <1>1, <1>2, <1>3, <1>4, <1>5, <1>6, <1>7, <1>8, <1>9, <1>10 DEF CommandStep
  <2>2. CASE Background  BY <2>2, <1>11, <1>12 DEF Background
  <2>q. QED  BY <2>1, <2>2, <1>13, <1>14, <1>15, <1>16, <1>17 DEF Next

\* The suites that are compiled, and how far each is.
Compiles == cli.compile = [i \in DOMAIN cli.order |-> cli.compile[i]]
Found ==
    cli.inv.command # "watch" =>
        cli.pc # "watching" /\ \A i \in DOMAIN cli.order : cli.order[i] \in DOMAIN cli.inv.suites

LEMMA NewOrder ==
    ASSUME Shape, NEW order, cli' = RunSuites(cli, order) \/ cli' = [RunSuites(cli, order) EXCEPT !.callback = TRUE]
    PROVE  /\ Compiles' /\ cli'.order = order /\ cli'.pc = "suites" /\ cli'.inv = cli.inv
<1>0. IsCli(cli)  BY DEF Shape
<1> DEFINE c == RunSuites(cli, order)
<1>1. IsCli(c) /\ c.order = order /\ c.compile = [i \in DOMAIN order |-> "waiting"] /\ c.pc = "suites" /\ c.inv = cli.inv
      BY <1>0 DEF RunSuites, IsCli, CliFields
<1> HIDE DEF c
<1>2. /\ cli'.order = order /\ cli'.compile = [i \in DOMAIN order |-> "waiting"] /\ cli'.pc = "suites" /\ cli'.inv = cli.inv
  <2>1. CASE cli' = c  BY <1>1, <2>1
  <2>2. CASE cli' = [c EXCEPT !.callback = TRUE]  BY <1>1, <2>2 DEF IsCli, CliFields
  <2>q. QED  BY <2>1, <2>2 DEF c
<1>3. \A i \in DOMAIN order : cli'.compile[i] = "waiting"  BY <1>2
<1>4. cli'.compile = [i \in DOMAIN cli'.order |-> cli'.compile[i]]  BY <1>2, <1>3
<1>q. QED  BY <1>2, <1>4 DEF Compiles

LEMMA OrderStep ==
    ASSUME Shape, OrderInv, [Next]_vars
    PROVE  OrderInv'
<1>0. IsCli(cli) /\ cli.inv \in Invocations  BY DEF Shape
<1>i. Compiles /\ Found  BY DEF OrderInv, Compiles, Found
<1>v. cli'.inv = cli.inv  BY CliStays DEF Shape
<1>k. ASSUME cli'.order = cli.order, cli'.compile = cli.compile, cli'.pc # "watching" \/ cli'.pc = cli.pc
      PROVE  Compiles' /\ Found'
      BY <1>i, <1>k, <1>v DEF Compiles, Found
<1>b. cli'.pc \in {"running", "result", "suiteRan"} => cli'.next \in DOMAIN cli'.order
  <2>1. CASE Elsewhere  BY <2>1 DEF Elsewhere
  <2>2. CASE SameSuite  BY <2>2 DEF SameSuite, OrderInv
  <2>3. CASE NextSuite  BY <1>0, <2>3 DEF NextSuite, IsCli, CliFields
  <2>4. CASE AwaitResult  BY <1>0, <2>4 DEF AwaitResult, OrderInv, IsCli, CliFields
  <2>5. ASSUME NEW n \in Nodes, Completion(n) PROVE cli'.next \in DOMAIN cli'.order
    <3>1. \E x, y, z : cli' = [cli EXCEPT !.collected = x, !.suiteRes = y, !.pc = z]  BY <2>5 DEF Completion, Only
    <3>2. cli.pc = "running"  BY <2>5 DEF Completion
    <3>q. QED  BY <1>0, <3>1, <3>2 DEF OrderInv, IsCli, CliFields
  <2>q. QED  BY <2>1, <2>2, <2>3, <2>4, <2>5, CommandKinds
<1> SUFFICES Compiles' /\ Found'  BY <1>b DEF OrderInv, Compiles, Found
<1>1. CASE NextSuite  BY <1>0, <1>1, <1>k DEF NextSuite, IsCli, CliFields
<1>2. CASE AwaitResult  BY <1>0, <1>2, <1>k DEF AwaitResult, IsCli, CliFields
<1>3. CASE SuiteRan
  <2>1. cli'.order = cli.order /\ cli'.compile = cli.compile  BY <1>0, <1>3 DEF SuiteRan, IsCli, CliFields
  <2>2. cli'.pc \in {"suites", "ran"}  BY <1>0, <1>3 DEF SuiteRan, IsCli, CliFields
  <2>q. QED  BY <1>k, <2>1, <2>2
<1>4. CASE SuitesDone  BY <1>0, <1>4, <1>k DEF SuitesDone, Only, IsCli, CliFields
<1>5. CASE RunSpecs
  <2>1. PICK order \in IF cli.inv.randomizeSuites THEN Orders(Len(cli.inv.suites)) ELSE {[i \in DOMAIN cli.inv.suites |-> i]} :
            cli' = RunSuites(cli, order)
        BY <1>5 DEF RunSpecs, Only
  <2>2. Compiles' /\ cli'.order = order /\ cli'.pc = "suites"  BY <2>1, NewOrder
  <2>3. cli.inv.suites \in Seq(Range(cli.inv.suites))  BY <1>0, InvocationAssumption
  <2>4. DOMAIN cli.inv.suites = 1 .. Len(cli.inv.suites)  BY <2>3, LenProperties
  <2>5. \A i \in DOMAIN order : order[i] \in DOMAIN cli.inv.suites
    <3>1. CASE cli.inv.randomizeSuites  BY <2>1, <2>4, <3>1 DEF Orders
    <3>2. CASE ~cli.inv.randomizeSuites  BY <2>1, <3>2
    <3>q. QED  BY <3>1, <3>2
  <2>q. QED  BY <1>v, <2>2, <2>5 DEF Found
<1>6. CASE RunSpecsEnds
  <2>1. \/ cli' = [cli EXCEPT !.pc = "start"]
        \/ \E code : cli' = [cli EXCEPT !.pc = "exited", !.code = code]
        BY <1>6 DEF RunSpecsEnds, Only
  <2>2. cli'.order = cli.order /\ cli'.compile = cli.compile /\ cli'.pc \in {"start", "exited"}
        BY <1>0, <2>1 DEF IsCli, CliFields
  <2>q. QED  BY <1>k, <2>2
<1>7. CASE WatchSuites \/ Tick
  <2>1. \/ cli' = [cli EXCEPT !.pc = "exited", !.code = 1]
        \/ cli' = [cli EXCEPT !.pc = "exited", !.code = 2]
        \/ cli' = [cli EXCEPT !.pc = "watching"]
        \/ cli' = cli
        \/ \E order : cli' = RunSuites(cli, order) \/ cli' = [RunSuites(cli, order) EXCEPT !.callback = TRUE]
        BY <1>7 DEF WatchSuites, Tick
  <2>2. cli.inv.command = "watch"
    <3>1. CASE WatchSuites  BY <3>1 DEF WatchSuites, main
    <3>2. CASE Tick  BY <3>2, <1>i DEF Tick, Found
    <3>q. QED  BY <1>7, <3>1, <3>2
  <2>3. Found'  BY <1>v, <2>2 DEF Found
  <2>4. ASSUME cli'.order = cli.order, cli'.compile = cli.compile PROVE Compiles'  BY <1>i, <2>4 DEF Compiles
  <2>5. Compiles'
    <3>1. ASSUME NEW order, cli' = RunSuites(cli, order) \/ cli' = [RunSuites(cli, order) EXCEPT !.callback = TRUE] PROVE Compiles'
          BY <3>1, NewOrder
    <3>2. CASE \/ cli' = [cli EXCEPT !.pc = "exited", !.code = 1]
               \/ cli' = [cli EXCEPT !.pc = "exited", !.code = 2]
               \/ cli' = [cli EXCEPT !.pc = "watching"]
               \/ cli' = cli
          BY <1>0, <2>4, <3>2 DEF IsCli, CliFields
    <3>q. QED  BY <2>1, <3>1, <3>2
  <2>q. QED  BY <2>3, <2>5
<1>8. CASE ResumeWatch
  <2>1. cli' = [cli EXCEPT !.pc = "watching"] /\ cli.inv.command = "watch"  BY <1>8 DEF ResumeWatch, Only
  <2>2. cli'.order = cli.order /\ cli'.compile = cli.compile  BY <1>0, <2>1 DEF IsCli, CliFields
  <2>q. QED  BY <1>i, <1>v, <2>1, <2>2 DEF Compiles, Found
<1>9. CASE StopWatch  BY <1>0, <1>9, <1>k DEF StopWatch, Only, IsCli, CliFields
<1>10. CASE handleInterrupt
  <2>1. \E pc, code : /\ cli' = [cli EXCEPT !.signalled = FALSE, !.interrupts = @ + 1, !.pc = pc, !.code = code]
                      /\ pc \in {cli.pc, "exited"}
        BY <1>10 DEF handleInterrupt, Only
  <2>q. QED  BY <1>0, <2>1, <1>k DEF IsCli, CliFields
<1>11. ASSUME NEW i, willCompile(i) \/ compile(i) PROVE Compiles' /\ Found'
  <2>1. PICK x, y : cli' = [cli EXCEPT !.compile[i] = x, !.compiled = y]
    <3>1. CASE willCompile(i)
      <4>1. cli' = [cli EXCEPT !.compile[i] = "started"]  BY <3>1 DEF willCompile
      <4>2. cli' = [cli EXCEPT !.compile[i] = "started", !.compiled = cli.compiled]
            BY <1>0, <4>1 DEF IsCli, CliFields
      <4>q. QED  BY <4>2
    <3>2. CASE compile(i)  BY <3>2 DEF compile
    <3>q. QED  BY <1>11, <3>1, <3>2
  <2>2. cli'.compile = [cli.compile EXCEPT ![i] = x] /\ cli'.order = cli.order /\ cli'.pc = cli.pc
        BY <1>0, <2>1 DEF IsCli, CliFields
  <2>q. QED  BY <1>i, <1>v, <2>2 DEF Compiles, Found
<1>12. CASE Interrupt  BY <1>0, <1>12, <1>k DEF Interrupt, IsCli, CliFields
<1>13. ASSUME NEW n \in Nodes, Completion(n) PROVE Compiles' /\ Found'
  <2>1. PICK x, y, z : cli' = [cli EXCEPT !.collected = x, !.suiteRes = y, !.pc = z] /\ z \in {cli.pc, "result", "suiteRan"}
        BY <1>13 DEF Completion, Only
  <2>q. QED  BY <1>0, <2>1, <1>k DEF IsCli, CliFields
<1>14. CASE cli' = cli  BY <1>14, <1>k
<1>q. QED
  <2>1. CASE CommandStep  BY <2>1, <1>1, <1>2, <1>3, <1>4, <1>5, <1>6, <1>7, <1>8, <1>9 DEF CommandStep
  <2>2. CASE Background  BY <2>2, <1>10, <1>11 DEF Background
  <2>3. ASSUME NEW n \in Nodes, Start(n) \/ Wait(n) \/ ProcessStep(n) PROVE cli' = cli
        BY <2>3 DEF Start, Wait, ProcessStep
  <2>4. CASE Develop \/ UNCHANGED vars  BY <2>4, <1>14 DEF Develop, vars
  <2>q. QED  BY <2>1, <2>2, <2>3, <2>4, <1>12, <1>13, <1>14 DEF Next

\* A node numbers its specs from 1 on.
LEMMA SpecsNumbered ==
    ASSUME Shape, JobInv, job.mode # "gotest", NEW n \in NodesOfJob, Lists(n)
    PROVE  \E count \in Nat : DOMAIN node[n].specs = 1 .. count
<1> DEFINE suite == job.suite
           conf == job.conf[n]
           all == job.all[n]
           length == Len(suite.subjects)
           r == ShareOf(length, conf)
<1>1. job.total \in Nat /\ job.total > 0 /\ n \in 1 .. job.total  BY NodeAssumption DEF Shape, NodesOfJob
<1>2. DOMAIN suite.subjects = 1 .. length /\ length \in Nat /\ IsListing(suite, all)  BY <1>1 DEF JobInv
<1>3. conf.total \in Nat \ {0} /\ (conf.total > 1 => conf.node \in 1 .. conf.total)  BY <1>1 DEF JobInv
<1>4. DOMAIN Own(n) = DOMAIN generateSpecs(suite, conf, all)  BY DEF Own
<1> HIDE DEF suite, conf, all, length
<1>5. r.count \in Nat /\ DOMAIN generateSpecs(suite, conf, all) = 1 .. r.count  BY <1>2, <1>3, OwnSpecs
<1>q. QED  BY <1>4, <1>5 DEF Lists

\* A process that stays up.
LEMMA StaysUp ==
    ASSUME NEW n \in Nodes, ProcVerdict(n), node[n].up = "up", node'[n].up = "up", Lists(n)', job' = job, cli' = cli,
           ByNow(node'[n]), Undisturbed(node[n]) => Undisturbed(node'[n])
    PROVE  ProcVerdict(n)'
  BY DEF ProcVerdict, EndedWell, NodesOfJob

\* One whose specs do not change.
LEMMA SameSpecsUp ==
    ASSUME NEW n \in Nodes, ProcVerdict(n), NEW F, Frame(n, F), "specs" \notin F, "up" \notin F, node[n].up = "up",
           job' = job, cli' = cli, ByNow(node'[n]), Undisturbed(node[n]) => Undisturbed(node'[n])
    PROVE  ProcVerdict(n)'
<1>1. node'[n].up = node[n].up /\ node'[n].specs = node[n].specs  BY DEF Frame, Agree, Fields
<1>2. Lists(n)'  BY <1>1 DEF ProcVerdict, Lists, Own
<1>q. QED  BY <1>1, <1>2, StaysUp

\* The steps up to the specs.
LEMMA VerdictBefore ==
    ASSUME Shape, JobInv, job.mode # "gotest", NEW n \in Nodes, ProcVerdict(n), cli' = cli,
           \/ reportSuiteWillBegin(n) \/ runBeforeSuite(n) \/ runA(n) \/ postA(n) \/ waitForA(n) \/ askAlive(n) \/ runB(n)
           \/ reportBeforeSuite(n)
    PROVE  ProcVerdict(n)'
<1> USE DEF Shape
<1> DEFINE p == node[n]
           q == node'[n]
<1>b. ASSUME p.up = "up" PROVE ByNow(p) /\ n \in NodesOfJob /\ Lists(n)  BY <1>b DEF ProcVerdict
<1>1. CASE reportSuiteWillBegin(n)
  <2>1. /\ Frame(n, {"main", "handler"}) /\ p.up = "up" /\ p.main = "begin" /\ q.main = "before" /\ q.handler = "registering"
        /\ job' = job
        BY <1>1, WillBegin
  <2>2. ByNow(q)  BY <1>b, <2>1 DEF Frame, Agree, Fields, ByNow, BeforeSpecs, InSpecs, AfterSpecs
  <2>3. Undisturbed(p) => Undisturbed(q)  BY <2>1 DEF Frame, Agree, Fields, Undisturbed
  <2>q. QED  BY <2>1, <2>2, <2>3, SameSpecsUp
<1>2. CASE runBeforeSuite(n) /\ job.suite.beforeSuite = "simple" /\ ~p.interrupted
  <2>1. /\ Frame(n, {"failer", "before", "main", "strays"}) /\ p.up = "up" /\ p.main = "before" /\ q.main = "reportBefore"
        /\ job' = job
        BY <1>2, RunSimple
  <2>2. ByNow(q)  BY <1>b, <2>1 DEF Frame, Agree, Fields, ByNow, BeforeSpecs, InSpecs, AfterSpecs
  <2>3. Undisturbed(p) => Undisturbed(q)  BY <2>1 DEF Frame, Agree, Fields, Undisturbed
  <2>q. QED  BY <2>1, <2>2, <2>3, SameSpecsUp
<1>3. CASE runBeforeSuite(n) /\ ~(job.suite.beforeSuite = "simple" /\ ~p.interrupted)
  <2>1. /\ Frame(n, {"main"}) /\ p.up = "up" /\ p.main = "before" /\ q.main \in {"specs", "waitForA"} /\ job' = job
        BY <1>3, SetupPassedOver
  <2>2. PICK count \in Nat : DOMAIN p.specs = 1 .. count  BY <1>b, <2>1, SpecsNumbered
  <2>3. /\ q.specs = p.specs /\ q.i = 1 /\ q.before = "none" /\ q.suiteFailed = p.suiteFailed
        BY <1>b, <2>1 DEF Frame, Agree, Fields, ByNow, BeforeSpecs
  <2>4. \A j \in DOMAIN q.specs : ~DoneWith(q, j)  BY <2>1, <2>2, <2>3 DEF DoneWith
  <2>5. ByNow(q)  BY <1>b, <2>1, <2>3, <2>4 DEF ByNow, BeforeSpecs, InSpecs, AfterSpecs
  <2>6. Undisturbed(p) => Undisturbed(q)  BY <2>1 DEF Frame, Agree, Fields, Undisturbed
  <2>q. QED  BY <2>1, <2>5, <2>6, SameSpecsUp
<1>4. CASE runA(n)
  <2>1. /\ Frame(n, {"failer", "before", "main", "data", "strays"}) /\ p.up = "up" /\ p.main = "before"
        /\ q.main \in {"postA", "runB", "reportBefore"} /\ (q.main = "runB" => q.before = "passed") /\ job' = job
        BY <1>4, RunA DEF MainAfterA
  <2>2. ByNow(q)  BY <1>b, <2>1 DEF Frame, Agree, Fields, ByNow, BeforeSpecs, InSpecs, AfterSpecs
  <2>3. Undisturbed(p) => Undisturbed(q)  BY <2>1 DEF Frame, Agree, Fields, Undisturbed
  <2>q. QED  BY <2>1, <2>2, <2>3, SameSpecsUp
<1>5. CASE postA(n)
  <2>1. /\ Frame(n, {"main"}) /\ p.up = "up" /\ p.main = "postA"
        /\ q.main \in {"runB", "reportBefore"} /\ (q.main = "runB" => p.before = "passed") /\ job' = job
        BY <1>5, PostA
  <2>2. ByNow(q)  BY <1>b, <2>1 DEF Frame, Agree, Fields, ByNow, BeforeSpecs, InSpecs, AfterSpecs
  <2>3. Undisturbed(p) => Undisturbed(q)  BY <2>1 DEF Frame, Agree, Fields, Undisturbed
  <2>q. QED  BY <2>1, <2>2, <2>3, SameSpecsUp
<1>6. CASE waitForA(n)
  <2>1. /\ Frame(n, {"data", "main", "before"}) /\ p.up = "up" /\ p.main = "waitForA"
        /\ (q.main = "reportBefore" \/ (q.main \in {"runB", "askAlive"} /\ q.before = p.before)) /\ job' = job
        BY <1>6, WaitForA
  <2>2. ByNow(q)  BY <1>b, <2>1 DEF Frame, Agree, Fields, ByNow, BeforeSpecs, InSpecs, AfterSpecs
  <2>3. Undisturbed(p) => Undisturbed(q)  BY <2>1 DEF Frame, Agree, Fields, Undisturbed
  <2>q. QED  BY <2>1, <2>2, <2>3, SameSpecsUp
<1>6a. CASE askAlive(n)
  <2>1. /\ Frame(n, {"main", "before"}) /\ p.up = "up" /\ p.main = "askAlive"
        /\ (q.main = "reportBefore" \/ (q.main = "waitForA" /\ q.before = p.before)) /\ job' = job
        BY <1>6a, AskAlive
  <2>2. ByNow(q)  BY <1>b, <2>1 DEF Frame, Agree, Fields, ByNow, BeforeSpecs, InSpecs, AfterSpecs
  <2>3. Undisturbed(p) => Undisturbed(q)  BY <2>1 DEF Frame, Agree, Fields, Undisturbed
  <2>q. QED  BY <2>1, <2>2, <2>3, SameSpecsUp
<1>7. CASE runB(n)
  <2>1. /\ Frame(n, {"failer", "before", "main", "strays"}) /\ p.up = "up" /\ p.main = "runB" /\ q.main = "reportBefore"
        /\ job' = job
        BY <1>7, RunB
  <2>2. ByNow(q)  BY <1>b, <2>1 DEF Frame, Agree, Fields, ByNow, BeforeSpecs, InSpecs, AfterSpecs
  <2>3. Undisturbed(p) => Undisturbed(q)  BY <2>1 DEF Frame, Agree, Fields, Undisturbed
  <2>q. QED  BY <2>1, <2>2, <2>3, SameSpecsUp
<1>8. CASE reportBeforeSuite(n)
  <2>1. /\ Frame(n, {"passed", "main"}) /\ p.up = "up" /\ p.main = "reportBefore" /\ q.passed = (p.before = "passed")
        /\ q.main = IF p.before = "passed" THEN "specs" ELSE "blockIfInterrupted"
        /\ job' = job
        BY <1>8, ReportBefore
  <2>2. PICK count \in Nat : DOMAIN p.specs = 1 .. count  BY <1>b, <2>1, SpecsNumbered
  <2>3. /\ q.specs = p.specs /\ q.i = 1 /\ q.before = p.before /\ q.suiteFailed = p.suiteFailed
        BY <1>b, <2>1 DEF Frame, Agree, Fields, ByNow, BeforeSpecs
  <2>4. \A j \in DOMAIN q.specs : ~DoneWith(q, j)  BY <2>1, <2>2, <2>3 DEF DoneWith
  <2>5. ByNow(q)
    <3>1. CASE p.before = "passed"  BY <2>1, <2>3, <2>4, <3>1 DEF ByNow, BeforeSpecs, InSpecs, AfterSpecs
    <3>2. CASE p.before # "passed"
      <4>1. ~q.passed /\ q.main = "blockIfInterrupted"  BY <2>1, <3>2
      <4>q. QED  BY <2>3, <4>1 DEF ByNow, BeforeSpecs, InSpecs, AfterSpecs
    <3>q. QED  BY <3>1, <3>2
  <2>6. Undisturbed(p) => Undisturbed(q)  BY <2>1 DEF Frame, Agree, Fields, Undisturbed
  <2>q. QED  BY <2>1, <2>5, <2>6, SameSpecsUp
<1>q. QED  BY <1>1, <1>2, <1>3, <1>4, <1>5, <1>6, <1>6a, <1>7, <1>8

\* The next spec is set, and nothing else about the specs.
LEMMA SetSpec ==
    ASSUME NEW n \in Nodes, Lists(n), job' = job, NEW i \in DOMAIN node[n].specs, NEW spec, IsSpec(spec),
           spec.subject = node[n].specs[i].subject, node'[n].specs = [node[n].specs EXCEPT ![i] = spec]
    PROVE  /\ Lists(n)' /\ DOMAIN node'[n].specs = DOMAIN node[n].specs
           /\ node'[n].specs[i] = spec
           /\ \A j \in DOMAIN node[n].specs : j # i => node'[n].specs[j] = node[n].specs[j]
<1>1. /\ DOMAIN node'[n].specs = DOMAIN node[n].specs
      /\ node'[n].specs[i] = spec
      /\ \A j \in DOMAIN node[n].specs : j # i => node'[n].specs[j] = node[n].specs[j]
      OBVIOUS
<1>2. Own(n)' = Own(n)  BY DEF Own
<1>3. ASSUME NEW j \in DOMAIN node'[n].specs
      PROVE  IsSpec(node'[n].specs[j]) /\ node'[n].specs[j].subject = Own(n)[j].subject
      BY <1>1, <1>3 DEF Lists
<1>4. DOMAIN node'[n].specs = DOMAIN Own(n)  BY <1>1 DEF Lists
<1>5. Lists(n)'  BY <1>2, <1>3, <1>4 DEF Lists
<1>q. QED  BY <1>1, <1>5

\* The specs, one after the other.
LEMMA VerdictSpecs ==
    ASSUME Shape, JobInv, job.mode # "gotest", NEW n \in Nodes, ProcVerdict(n), cli' = cli,
           runSpecs(n) \/ runSample(n) \/ sampleEnds(n) \/ reportSpecDidComplete(n)
    PROVE  ProcVerdict(n)'
<1> USE DEF Shape
<1> DEFINE p == node[n]
           q == node'[n]
           spec == NextSpec(n)
<1>u. p.up = "up"  BY DEF runSpecs, runSample, sampleEnds, reportSpecDidComplete, At, IsUp
<1>b. ByNow(p) /\ n \in NodesOfJob /\ Lists(n) /\ p.i \in Nat \ {0}  BY <1>u DEF ProcVerdict, ByNow
<1>c. PICK count \in Nat : DOMAIN p.specs = 1 .. count  BY <1>b, SpecsNumbered
<1>n. ASSUME p.i \in DOMAIN p.specs PROVE IsSpec(spec) /\ spec.subject = p.specs[p.i].subject
  <2>1. IsSpec(p.specs[p.i])  BY <1>b, <1>n DEF Lists
  <2>q. QED  BY <2>1, SkipSpec DEF NextSpec
<1>1. CASE runSpecs(n) /\ (p.interrupted \/ p.i \notin DOMAIN p.specs)
  <2>1. /\ Frame(n, {"main", "passed"}) /\ p.main = "specs" /\ q.main = "blockIfInterrupted" /\ job' = job
        /\ q.passed = IF p.i \in DOMAIN p.specs THEN p.suiteFailed ELSE ~p.suiteFailed
        BY <1>1, RunSpecsEnd
  <2>2. /\ q.specs = p.specs /\ q.i = p.i /\ q.before = p.before /\ q.interrupted = p.interrupted
        BY <2>1 DEF Frame, Agree, Fields
  <2>3. ByNow(q)
    <3>1. ASSUME ~q.interrupted, q.passed PROVE Clean(q)
      <4>1. p.i \notin DOMAIN p.specs /\ ~p.suiteFailed  BY <1>1, <2>1, <2>2, <3>1
      <4>2. \A j \in DOMAIN p.specs : DoneWith(p, j)  BY <1>b, <1>c, <4>1 DEF DoneWith
      <4>3. p.before \in {"none", "passed"} /\ \A j \in DOMAIN p.specs : p.specs[j].state \in Excusable
            BY <1>b, <2>1, <4>1, <4>2 DEF ByNow, InSpecs
      <4>q. QED  BY <2>2, <4>3 DEF Clean
    <3>q. QED  BY <1>b, <2>1, <2>2, <3>1 DEF ByNow, BeforeSpecs, InSpecs, AfterSpecs
  <2>4. Undisturbed(p) => Undisturbed(q)  BY <2>1 DEF Frame, Agree, Fields, Undisturbed
  <2>q. QED  BY <1>u, <2>1, <2>3, <2>4, SameSpecsUp
<1>2. CASE runSpecs(n) /\ ~(p.interrupted \/ p.i \notin DOMAIN p.specs) /\ Runs(spec)
  <2>1. /\ Frame(n, {"specs", "todo", "unwinding", "state", "ran", "main", "sample"})
        /\ p.main = "specs" /\ q.main = "runSample" /\ q.specs = [p.specs EXCEPT ![p.i] = spec] /\ job' = job
        BY <1>2, RunSpecsRun
  <2>2. /\ Lists(n)' /\ DOMAIN q.specs = DOMAIN p.specs
        /\ \A j \in DOMAIN p.specs : j # p.i => q.specs[j] = p.specs[j]
        BY <1>2, <1>b, <1>n, <2>1, SetSpec
  <2>3. q.i = p.i /\ q.before = p.before /\ q.suiteFailed = p.suiteFailed /\ q.up = p.up
        BY <2>1 DEF Frame, Agree, Fields
  <2>4. \A j \in DOMAIN q.specs : DoneWith(q, j) => DoneWith(p, j) /\ q.specs[j] = p.specs[j]
        BY <1>b, <1>c, <2>1, <2>2, <2>3 DEF DoneWith
  <2>5. ByNow(q)  BY <1>2, <1>b, <2>1, <2>2, <2>3, <2>4 DEF ByNow, BeforeSpecs, InSpecs, AfterSpecs
  <2>6. Undisturbed(p) => Undisturbed(q)  BY <2>1 DEF Frame, Agree, Fields, Undisturbed
  <2>q. QED  BY <1>u, <2>1, <2>2, <2>3, <2>5, <2>6, StaysUp
<1>3. CASE runSpecs(n) /\ ~(p.interrupted \/ p.i \notin DOMAIN p.specs) /\ ~Runs(spec)
  <2>1. /\ Frame(n, {"specs", "main", "suiteFailed"}) /\ job' = job
        /\ p.main = "specs" /\ q.main = "completed" /\ q.specs = [p.specs EXCEPT ![p.i] = spec]
        /\ q.suiteFailed = (p.suiteFailed \/ (Pending(spec) /\ job.conf[n].failOnPending))
        BY <1>3, RunSpecsPass
  <2>2. /\ Lists(n)' /\ DOMAIN q.specs = DOMAIN p.specs /\ q.specs[p.i] = spec
        /\ \A j \in DOMAIN p.specs : j # p.i => q.specs[j] = p.specs[j]
        BY <1>3, <1>b, <1>n, <2>1, SetSpec
  <2>3. q.i = p.i /\ q.before = p.before /\ q.up = p.up  BY <2>1 DEF Frame, Agree, Fields
  <2>4. spec.state \in Excusable /\ (~q.suiteFailed => ~p.suiteFailed)
        BY <1>3, <2>1 DEF Runs, Skipped, Pending, Excusable
  <2>5. \A j \in DOMAIN q.specs : DoneWith(q, j) => j = p.i \/ (DoneWith(p, j) /\ q.specs[j] = p.specs[j])
        BY <1>b, <1>c, <2>1, <2>2, <2>3 DEF DoneWith
  <2>6. ~p.suiteFailed => \A j \in DOMAIN p.specs : DoneWith(p, j) => p.specs[j].state \in Excusable
        BY <1>b, <2>1 DEF ByNow, InSpecs
  <2>7. ~q.suiteFailed => \A j \in DOMAIN q.specs : DoneWith(q, j) => q.specs[j].state \in Excusable
        BY <2>2, <2>4, <2>5, <2>6
  <2>8. ByNow(q)  BY <1>3, <1>b, <2>1, <2>2, <2>3, <2>7 DEF ByNow, BeforeSpecs, InSpecs, AfterSpecs
  <2>9. Undisturbed(p) => Undisturbed(q)  BY <2>1 DEF Frame, Agree, Fields, Undisturbed
  <2>q. QED  BY <1>u, <2>1, <2>2, <2>3, <2>8, <2>9, StaysUp
<1>4. CASE runSample(n) \/ (sampleEnds(n) /\ MoreSamples(n))
  <2> DEFINE F == {"failer", "ran", "state", "todo", "unwinding", "strays", "sample"}
  <2>1. Frame(n, F) /\ job' = job
    <3>1. ASSUME NEW G, Frame(n, G), G \subseteq F PROVE Frame(n, F)  BY <3>1 DEF Frame, Agree
    <3>2. CASE runSample(n)  BY <3>1, <3>2, RunSample
    <3>3. CASE sampleEnds(n) /\ MoreSamples(n)  BY <3>1, <3>3, SampleAgain
    <3>q. QED  BY <1>4, <3>2, <3>3
  <2>2. /\ q.specs = p.specs /\ q.i = p.i /\ q.before = p.before /\ q.interrupted = p.interrupted /\ q.main = p.main
        /\ q.suiteFailed = p.suiteFailed /\ q.passed = p.passed
        BY <2>1 DEF Frame, Agree, Fields
  <2>3. ByNow(q)  BY <1>b, <2>2 DEF ByNow, Clean, DoneWith
  <2>4. Undisturbed(p) => Undisturbed(q)  BY <2>1 DEF Frame, Agree, Fields, Undisturbed
  <2>q. QED  BY <1>u, <2>1, <2>3, <2>4, SameSpecsUp
<1>5. CASE sampleEnds(n) /\ ~MoreSamples(n)
  <2>1. /\ Frame(n, {"specs", "main", "suiteFailed"}) /\ job' = job
        /\ p.main = "runSample" /\ q.main = "completed" /\ q.specs = [p.specs EXCEPT ![p.i].state = p.state]
        /\ q.suiteFailed = (p.suiteFailed \/ p.state # "passed")
        BY <1>5, SampleLast
  <2> DEFINE ended == [p.specs[p.i] EXCEPT !.state = p.state]
  <2>i. p.i \in DOMAIN p.specs  BY <1>b, <2>1 DEF ByNow
  <2>e. IsSpec(ended) /\ ended.subject = p.specs[p.i].subject /\ ended.state = p.state
    <3>1. IsSpec(p.specs[p.i])  BY <1>b, <2>i DEF Lists
    <3>q. QED  BY <3>1 DEF IsSpec
  <2>s. q.specs = [p.specs EXCEPT ![p.i] = ended]  BY <2>1
  <2> HIDE DEF ended
  <2>2. /\ Lists(n)' /\ DOMAIN q.specs = DOMAIN p.specs /\ q.specs[p.i] = ended
        /\ \A j \in DOMAIN p.specs : j # p.i => q.specs[j] = p.specs[j]
        BY <1>b, <2>1, <2>i, <2>e, <2>s, SetSpec
  <2>3. q.i = p.i /\ q.before = p.before /\ q.up = p.up  BY <2>1 DEF Frame, Agree, Fields
  <2>4. ~q.suiteFailed => ended.state \in Excusable /\ ~p.suiteFailed  BY <2>1, <2>e DEF Excusable
  <2>5. \A j \in DOMAIN q.specs : DoneWith(q, j) => j = p.i \/ (DoneWith(p, j) /\ q.specs[j] = p.specs[j])
        BY <1>b, <1>c, <2>1, <2>2, <2>3 DEF DoneWith
  <2>6. ~p.suiteFailed => \A j \in DOMAIN p.specs : DoneWith(p, j) => p.specs[j].state \in Excusable
        BY <1>b, <2>1 DEF ByNow, InSpecs
  <2>7. ~q.suiteFailed => \A j \in DOMAIN q.specs : DoneWith(q, j) => q.specs[j].state \in Excusable
        BY <2>2, <2>4, <2>5, <2>6
  <2>8. ByNow(q)  BY <1>b, <2>1, <2>2, <2>3, <2>i, <2>7 DEF ByNow, BeforeSpecs, InSpecs, AfterSpecs
  <2>9. Undisturbed(p) => Undisturbed(q)  BY <2>1 DEF Frame, Agree, Fields, Undisturbed
  <2>q. QED  BY <1>u, <2>1, <2>2, <2>3, <2>8, <2>9, StaysUp
<1>6. CASE reportSpecDidComplete(n)
  <2>1. /\ Frame(n, {"i", "main", "skipRemaining"}) /\ p.main = "completed" /\ q.main = "specs" /\ q.i = p.i + 1 /\ job' = job
        BY <1>6, DidComplete
  <2>2. q.specs = p.specs /\ q.before = p.before /\ q.suiteFailed = p.suiteFailed  BY <2>1 DEF Frame, Agree, Fields
  <2>3. \A j \in DOMAIN q.specs : DoneWith(q, j) => DoneWith(p, j)  BY <1>b, <1>c, <2>1, <2>2 DEF DoneWith
  <2>4. ByNow(q)  BY <1>b, <2>1, <2>2, <2>3 DEF ByNow, BeforeSpecs, InSpecs, AfterSpecs
  <2>5. Undisturbed(p) => Undisturbed(q)  BY <2>1 DEF Frame, Agree, Fields, Undisturbed
  <2>q. QED  BY <1>u, <2>1, <2>4, <2>5, SameSpecsUp
<1>q. QED  BY <1>1, <1>2, <1>3, <1>4, <1>5, <1>6

\* The AfterSuite, whichever goroutine runs it, and the end of the process.
LEMMA VerdictAfter ==
    ASSUME Shape, NEW n \in Nodes, ProcVerdict(n), cli' = cli, NEW g \in {"main", "handler"}, Finish(n, g)
    PROVE  ProcVerdict(n)'
<1> USE DEF Shape
<1> DEFINE p == node[n]
           q == node'[n]
<1>b. ASSUME p.up = "up"
      PROVE  /\ ByNow(p) /\ n \in NodesOfJob /\ Lists(n) /\ (cli.typed \/ Undisturbed(p))
             /\ g = "handler" => p.handler \in {"off", "registering", "listening"} \/ cli.typed
      BY <1>b DEF ProcVerdict, Undisturbed
<1>c. ASSUME NEW F, Frame(n, F), F \cap {"specs", "up", "before", "i", "suiteFailed", "interrupted", "signalled"} = {},
             p.up = "up", job' = job, p[g] \notin {"off", "registering", "listening"},
             \/ "main" \notin F
             \/ /\ g = "main" /\ p.main \in AfterSpecs \ {"blockIfInterrupted"}
                /\ q.main \in AfterSpecs \ {"blockIfInterrupted"},
             "handler" \in F => g = "handler",
             q.passed => p.passed,
             (g = "main" /\ p.handler \in {"off", "registering", "listening"} /\ Undisturbed(p)) => Undisturbed(q)
      PROVE  ProcVerdict(n)'
  <2>1. /\ q.specs = p.specs /\ q.i = p.i /\ q.before = p.before /\ q.interrupted = p.interrupted
        /\ q.suiteFailed = p.suiteFailed
        BY <1>c DEF Frame, Agree, Fields
  <2>2. q.main = p.main \/ (p.main \in AfterSpecs \ {"blockIfInterrupted"} /\ q.main \in AfterSpecs \ {"blockIfInterrupted"})
        BY <1>c DEF Frame, Agree, Fields
  <2>3. ByNow(q)
    <3>1. ByNow(p)  BY <1>b, <1>c
    <3>2. Clean(p) => Clean(q)  BY <2>1 DEF Clean
    <3>3. CASE q.main = p.main
      <4>1. \A j \in DOMAIN q.specs : DoneWith(q, j) => DoneWith(p, j)  BY <2>1, <3>3 DEF DoneWith
      <4>q. QED  BY <1>c, <2>1, <3>1, <3>2, <3>3, <4>1 DEF ByNow
    <3>4. CASE p.main \in AfterSpecs \ {"blockIfInterrupted"} /\ q.main \in AfterSpecs \ {"blockIfInterrupted"}
          BY <1>c, <2>1, <3>1, <3>2, <3>4 DEF ByNow, BeforeSpecs, InSpecs, AfterSpecs
    <3>q. QED  BY <2>2, <3>3, <3>4
  <2>4. Undisturbed(p) => Undisturbed(q)
    <3> SUFFICES ASSUME Undisturbed(p) PROVE Undisturbed(q)  OBVIOUS
    <3>1. p.handler \in {"off", "registering", "listening"}  BY DEF Undisturbed
    <3>2. g = "main"  BY <1>c, <3>1
    <3>q. QED  BY <1>c, <3>1, <3>2
  <2>q. QED  BY <1>c, <2>3, <2>4, SameSpecsUp
<1>1. CASE runAfterSuite(n, g) /\ job.suite.afterSuite = "none"
  <2>1. Frame(n, {g}) /\ p.up = "up" /\ p[g] = "after" /\ q[g] = "end" /\ job' = job  BY <1>1, NoAfterSuite
  <2>2. (g = "main" /\ Undisturbed(p)) => Undisturbed(q)  BY <2>1 DEF Frame, Agree, Fields, Undisturbed
  <2>3. q.passed = p.passed  BY <2>1 DEF Frame, Agree, Fields
  <2> DEFINE F == {g}
  <2>4. Frame(n, F) /\ ("handler" \in F => g = "handler") /\ ("main" \notin F \/ g = "main")
        /\ F \cap {"specs", "up", "before", "i", "suiteFailed", "interrupted", "signalled"} = {}
        BY <2>1
  <2> HIDE DEF F
  <2>q. QED  BY <1>c, <2>1, <2>2, <2>3, <2>4 DEF AfterSpecs
<1>2. CASE runAfterSuite(n, g) /\ job.suite.afterSuite # "none"
  <2>1. /\ Frame(n, {"failer", "after", g, "strays"}) /\ p.up = "up" /\ p[g] = "after" /\ q[g] = AfterBodyA(n) /\ job' = job
        BY <1>2, RunAfter
  <2>a. AfterBodyA(n) \in {"reportAfter", "waitForOthers", "runAfterB"}  BY DEF AfterBodyA
  <2>2. (g = "main" /\ Undisturbed(p)) => Undisturbed(q)  BY <2>1, <2>a DEF Frame, Agree, Fields, Undisturbed
  <2>3. q.passed = p.passed  BY <2>1 DEF Frame, Agree, Fields
  <2> DEFINE F == {"failer", "after", g, "strays"}
  <2>4. Frame(n, F) /\ ("handler" \in F => g = "handler") /\ ("main" \notin F \/ g = "main")
        /\ F \cap {"specs", "up", "before", "i", "suiteFailed", "interrupted", "signalled"} = {}
        BY <2>1
  <2> HIDE DEF F
  <2>q. QED  BY <1>c, <2>1, <2>a, <2>2, <2>3, <2>4 DEF AfterSpecs
<1>3. CASE waitUntilOtherNodesAreDone(n, g)
  <2>1. Frame(n, {g}) /\ p.up = "up" /\ p[g] = "waitForOthers" /\ q[g] = "runAfterB" /\ job' = job
        BY <1>3, OthersAreDone
  <2>2. (g = "main" /\ Undisturbed(p)) => Undisturbed(q)  BY <2>1 DEF Frame, Agree, Fields, Undisturbed
  <2>3. q.passed = p.passed  BY <2>1 DEF Frame, Agree, Fields
  <2> DEFINE F == {g}
  <2>4. Frame(n, F) /\ ("handler" \in F => g = "handler") /\ ("main" \notin F \/ g = "main")
        /\ F \cap {"specs", "up", "before", "i", "suiteFailed", "interrupted", "signalled"} = {}
        BY <2>1
  <2> HIDE DEF F
  <2>q. QED  BY <1>c, <2>1, <2>2, <2>3, <2>4 DEF AfterSpecs
<1>4. CASE runAfterB(n, g)
  <2>1. /\ Frame(n, {"failer", "after", g, "tornDown", "strays"}) /\ p.up = "up" /\ p[g] = "runAfterB"
        /\ q[g] = "reportAfter" /\ job' = job
        BY <1>4, RunAfterB
  <2>2. (g = "main" /\ Undisturbed(p)) => Undisturbed(q)  BY <2>1 DEF Frame, Agree, Fields, Undisturbed
  <2>3. q.passed = p.passed  BY <2>1 DEF Frame, Agree, Fields
  <2> DEFINE F == {"failer", "after", g, "tornDown", "strays"}
  <2>4. Frame(n, F) /\ ("handler" \in F => g = "handler") /\ ("main" \notin F \/ g = "main")
        /\ F \cap {"specs", "up", "before", "i", "suiteFailed", "interrupted", "signalled"} = {}
        BY <2>1
  <2> HIDE DEF F
  <2>q. QED  BY <1>c, <2>1, <2>2, <2>3, <2>4 DEF AfterSpecs
<1>5. CASE reportAfterSuite(n, g)
  <2>1. /\ Frame(n, {g, "passed"}) /\ p.up = "up" /\ p[g] = "reportAfter" /\ q[g] = "end" /\ job' = job
        /\ q.passed = (IF g = "main" THEN p.after = "passed" /\ p.passed ELSE p.passed)
        BY <1>5, ReportAfter
  <2>3. q.passed => p.passed /\ (g = "main" => p.after = "passed")  BY <2>1
  <2>2. (g = "main" /\ Undisturbed(p)) => Undisturbed(q)  BY <2>1, <2>3 DEF Frame, Agree, Fields, Undisturbed
  <2> DEFINE F == {g, "passed"}
  <2>4. Frame(n, F) /\ ("handler" \in F => g = "handler") /\ ("main" \notin F \/ g = "main")
        /\ F \cap {"specs", "up", "before", "i", "suiteFailed", "interrupted", "signalled"} = {}
        BY <2>1
  <2> HIDE DEF F
  <2>q. QED  BY <1>c, <2>1, <2>2, <2>3, <2>4 DEF AfterSpecs
<1>6. CASE reportSuiteDidEnd(n, g)
  <2>1. Frame(n, {g}) /\ p.up = "up" /\ p[g] = "end" /\ q[g] = "exit" /\ job' = job  BY <1>6, DidEnd
  <2>2. (g = "main" /\ Undisturbed(p)) => Undisturbed(q)  BY <2>1 DEF Frame, Agree, Fields, Undisturbed
  <2>3. q.passed = p.passed  BY <2>1 DEF Frame, Agree, Fields
  <2> DEFINE F == {g}
  <2>4. Frame(n, F) /\ ("handler" \in F => g = "handler") /\ ("main" \notin F \/ g = "main")
        /\ F \cap {"specs", "up", "before", "i", "suiteFailed", "interrupted", "signalled"} = {}
        BY <2>1
  <2> HIDE DEF F
  <2>q. QED  BY <1>c, <2>1, <2>2, <2>3, <2>4 DEF AfterSpecs
<1>7. CASE Exits(n, g)
  <2>1. /\ Frame(n, {"up", "code"}) /\ p.up = "up" /\ p[g] = "exit" /\ q.up = "gone" /\ job' = job
        /\ q.code = (IF g = "handler" THEN 1 ELSE SuiteRun(p))
        BY <1>7, Exit
  <2>2. q.specs = p.specs /\ q.before = p.before /\ q.after = p.after  BY <2>1 DEF Frame, Agree, Fields
  <2>3. Lists(n)'  BY <1>b, <2>1, <2>2 DEF Lists, Own
  <2>4. ASSUME EndedWell(q) PROVE Clean(q) /\ (cli.typed \/ q.after \in {"none", "passed"})
    <3>1. g = "main" /\ p.passed  BY <2>1, <2>4 DEF EndedWell, FocusExitCode, SuiteRun
    <3>2. Clean(p)  BY <1>b, <2>1, <3>1 DEF ByNow, AfterSpecs
    <3>3. cli.typed \/ p.after \in {"none", "passed"}  BY <1>b, <2>1, <3>1 DEF Undisturbed
    <3>q. QED  BY <2>2, <3>2, <3>3 DEF Clean
  <2>q. QED  BY <2>1, <2>3, <2>4 DEF ProcVerdict
<1>q. QED  BY <1>1, <1>2, <1>3, <1>4, <1>5, <1>6, <1>7 DEF Finish

\* Every step of a process.
LEMMA VerdictOwn ==
    ASSUME Shape, JobInv, job.mode # "gotest", NEW n \in Nodes, ProcVerdict(n), cli' = cli, OwnStep(n)
    PROVE  ProcVerdict(n)'
<1> USE DEF Shape
<1> DEFINE p == node[n]
           q == node'[n]
<1>b. ASSUME p.up = "up" PROVE ByNow(p) /\ Lists(n) /\ (cli.typed \/ Undisturbed(p))  BY <1>b DEF ProcVerdict
<1>1. CASE blockForeverIfInterrupted(n)
  <2>1. /\ Frame(n, {"main"}) /\ p.up = "up" /\ p.main = "blockIfInterrupted" /\ job' = job
        /\ q.main = IF p.interrupted THEN "blocked" ELSE "after"
        BY <1>1, Blocks
  <2>2. /\ q.specs = p.specs /\ q.before = p.before /\ q.i = p.i /\ q.passed = p.passed
        BY <2>1 DEF Frame, Agree, Fields
  <2>3. ByNow(q)
    <3>1. CASE p.interrupted  BY <1>b, <2>1, <2>2, <3>1 DEF ByNow, BeforeSpecs, InSpecs, AfterSpecs
    <3>2. CASE ~p.interrupted
      <4>1. p.passed => Clean(p)  BY <1>b, <2>1, <3>2 DEF ByNow, AfterSpecs
      <4>2. q.passed => Clean(q)  BY <2>2, <4>1 DEF Clean
      <4>3. q.main = "after" /\ q.i \in Nat \ {0}  BY <1>b, <2>1, <2>2, <3>2 DEF ByNow
      <4>q. QED  BY <4>2, <4>3 DEF ByNow, BeforeSpecs, InSpecs, AfterSpecs
    <3>q. QED  BY <3>1, <3>2
  <2>4. Undisturbed(p) => Undisturbed(q)  BY <2>1 DEF Frame, Agree, Fields, Undisturbed
  <2>q. QED  BY <2>1, <2>3, <2>4, SameSpecsUp
<1>2. CASE registerForInterrupts(n)
  <2>1. Frame(n, {"handler"}) /\ p.up = "up" /\ q.handler = "listening" /\ job' = job  BY <1>2, Registers
  <2>2. /\ q.specs = p.specs /\ q.before = p.before /\ q.i = p.i /\ q.passed = p.passed /\ q.main = p.main
        /\ q.suiteFailed = p.suiteFailed /\ q.interrupted = p.interrupted
        BY <2>1 DEF Frame, Agree, Fields
  <2>3. ByNow(q)  BY <1>b, <2>1, <2>2 DEF ByNow, Clean, DoneWith
  <2>4. Undisturbed(p) => Undisturbed(q)  BY <2>1 DEF Frame, Agree, Fields, Undisturbed
  <2>q. QED  BY <2>1, <2>3, <2>4, SameSpecsUp
<1>3. CASE markInterrupted(n)
  <2>1. Frame(n, {"interrupted", "handler"}) /\ p.up = "up" /\ p.signalled /\ q.interrupted = TRUE /\ job' = job
        BY <1>3, Marked
  <2>2. /\ q.specs = p.specs /\ q.before = p.before /\ q.i = p.i /\ q.passed = p.passed /\ q.main = p.main
        /\ q.suiteFailed = p.suiteFailed
        BY <2>1 DEF Frame, Agree, Fields
  <2>3. ByNow(q)  BY <1>b, <2>1, <2>2 DEF ByNow, Clean, DoneWith
  <2>4. Undisturbed(p) => Undisturbed(q)  BY <2>1 DEF Undisturbed
  <2>q. QED  BY <2>1, <2>3, <2>4, SameSpecsUp
<1>4. CASE StrayFails(n)
  <2>1. Frame(n, {"failer", "strays"}) /\ p.up = "up" /\ job' = job  BY <1>4, StrayEnds
  <2>2. /\ q.specs = p.specs /\ q.before = p.before /\ q.i = p.i /\ q.passed = p.passed /\ q.main = p.main
        /\ q.suiteFailed = p.suiteFailed /\ q.interrupted = p.interrupted
        BY <2>1 DEF Frame, Agree, Fields
  <2>3. ByNow(q)  BY <1>b, <2>1, <2>2 DEF ByNow, Clean, DoneWith
  <2>4. Undisturbed(p) => Undisturbed(q)  BY <2>1 DEF Frame, Agree, Fields, Undisturbed
  <2>q. QED  BY <2>1, <2>3, <2>4, SameSpecsUp
<1>5. CASE Crash(n)
  <2>1. q.up = "gone" /\ q.code \in {2, Killed}  BY <1>5, Crashes
  <2>q. QED  BY <2>1 DEF ProcVerdict, EndedWell, Killed, FocusExitCode
<1>6. CASE GoTestEnds(n)  BY <1>6 DEF GoTestEnds
<1>7. CASE \/ reportSuiteWillBegin(n) \/ runBeforeSuite(n) \/ runA(n) \/ postA(n) \/ waitForA(n) \/ askAlive(n) \/ runB(n)
           \/ reportBeforeSuite(n)
      BY <1>7, VerdictBefore
<1>8. CASE runSpecs(n) \/ runSample(n) \/ sampleEnds(n) \/ reportSpecDidComplete(n)  BY <1>8, VerdictSpecs
<1>9. CASE Finish(n, "main") \/ Finish(n, "handler")  BY <1>9, VerdictAfter
<1>q. QED  BY <1>1, <1>2, <1>3, <1>4, <1>5, <1>6, <1>7, <1>8, <1>9 DEF OwnStep, Main, Handler

\* Only a process that is up takes a step of its own, and nobody else does.
LEMMA MainUp ==
    ASSUME Shape, NEW n \in Nodes, Main(n)
    PROVE  node[n].up = "up" /\ \A k \in Nodes \ {n} : node'[k] = node[k]
<1> USE DEF Shape
<1>1. CASE reportSuiteWillBegin(n)  BY <1>1, WillBegin DEF Frame
<1>2. CASE runBeforeSuite(n)  BY <1>2, RunSimple, SetupPassedOver DEF Frame
<1>3. CASE runA(n)  BY <1>3, RunA DEF Frame
<1>4. CASE postA(n)  BY <1>4, PostA DEF Frame
<1>5. CASE waitForA(n) \/ askAlive(n)  BY <1>5, WaitForA, AskAlive DEF Frame
<1>6. CASE runB(n)  BY <1>6, RunB DEF Frame
<1>7. CASE reportBeforeSuite(n)  BY <1>7, ReportBefore DEF Frame
<1>8. CASE runSpecs(n) \/ sampleEnds(n)  BY <1>8, StartSampleFrames DEF Frame, runSpecs, sampleEnds, At, IsUp
<1>9. CASE runSample(n)  BY <1>9, RunSample DEF Frame
<1>10. CASE reportSpecDidComplete(n)  BY <1>10, DidComplete DEF Frame
<1>11. CASE blockForeverIfInterrupted(n)  BY <1>11, Blocks DEF Frame
<1>12. CASE GoTestEnds(n)  BY <1>12, GoTestExit DEF Frame
<1>q. QED  BY <1>1, <1>2, <1>3, <1>4, <1>5, <1>6, <1>7, <1>8, <1>9, <1>10, <1>11, <1>12 DEF Main

LEMMA RestUp ==
    ASSUME Shape, NEW n \in Nodes, Finish(n, "main") \/ Handler(n) \/ StrayFails(n) \/ Crash(n)
    PROVE  node[n].up = "up" /\ \A k \in Nodes \ {n} : node'[k] = node[k]
<1> USE DEF Shape
<1>1. ASSUME NEW g \in {"main", "handler"}, Finish(n, g)
      PROVE  node[n].up = "up" /\ \A k \in Nodes \ {n} : node'[k] = node[k]
  <2>1. CASE runAfterSuite(n, g) /\ job.suite.afterSuite = "none"  BY <2>1, NoAfterSuite DEF Frame
  <2>2. CASE runAfterSuite(n, g) /\ job.suite.afterSuite # "none"  BY <2>2, RunAfter DEF Frame
  <2>3. CASE waitUntilOtherNodesAreDone(n, g)  BY <2>3, OthersAreDone DEF Frame
  <2>4. CASE runAfterB(n, g)  BY <2>4, RunAfterB DEF Frame
  <2>5. CASE reportAfterSuite(n, g)  BY <2>5, ReportAfter DEF Frame
  <2>6. CASE reportSuiteDidEnd(n, g)  BY <2>6, DidEnd DEF Frame
  <2>7. CASE Exits(n, g)  BY <2>7, Exit DEF Frame
  <2>q. QED  BY <1>1, <2>1, <2>2, <2>3, <2>4, <2>5, <2>6, <2>7 DEF Finish
<1>2. CASE registerForInterrupts(n)  BY <1>2, Registers DEF Frame
<1>3. CASE markInterrupted(n)  BY <1>3, Marked DEF Frame
<1>4. CASE StrayFails(n)  BY <1>4, StrayEnds DEF Frame
<1>5. CASE Crash(n)  BY <1>5, Crashes DEF Frame
<1>q. QED  BY <1>1, <1>2, <1>3, <1>4, <1>5 DEF Handler

\* A process that is gone stays as it is while the command is at its suite.
LEMMA GoneStays ==
    ASSUME Shape, [Next]_vars, SameSuite \/ AwaitResult \/ \E k \in Nodes : Completion(k),
           NEW n \in Nodes, node[n].up = "gone"
    PROVE  Agree(node[n], node'[n], {"reaped"})
<1> USE DEF Shape
<1>0. IsCli(cli)  OBVIOUS
<1>e. node'[n] = node[n] => Agree(node[n], node'[n], {"reaped"})  BY DEF Agree
<1>1. ASSUME NEW k \in Nodes, OwnStep(k), cli' = cli PROVE Agree(node[n], node'[n], {"reaped"})
  <2>1. node[k].up = "up" /\ \A j \in Nodes \ {k} : node'[j] = node[j]
    <3>1. CASE Main(k)  BY <3>1, MainUp
    <3>2. CASE Finish(k, "main") \/ Handler(k) \/ StrayFails(k) \/ Crash(k)  BY <3>2, RestUp
    <3>q. QED  BY <1>1, <3>1, <3>2 DEF OwnStep
  <2>q. QED  BY <1>0, <1>e, <2>1
<1>2. ASSUME NEW k \in Nodes, Start(k) PROVE Agree(node[n], node'[n], {"reaped"})
  <2>1. node[k].up = "off" /\ \A j \in Nodes \ {k} : node'[j] = node[j]  BY <1>2, Starts DEF Frame
  <2>q. QED  BY <1>0, <1>e, <2>1
<1>3. ASSUME NEW k \in Nodes, Wait(k) PROVE Agree(node[n], node'[n], {"reaped"})
  <2>1. Frame(k, {"reaped"})  BY <1>3, Waited
  <2>q. QED  BY <1>e, <2>1 DEF Frame
<1>4. CASE Interrupt  BY <1>0, <1>e, <1>4, Interrupts
<1>5. CASE NextSuite \/ SuiteRan
  <2>1. cli.pc \in {"suites", "suiteRan"} /\ cli'.pc # cli.pc
        BY <1>0, <1>5 DEF NextSuite, SuiteRan, IsCli, CliFields
  <2>2. ~AwaitResult /\ ~\E k \in Nodes : Completion(k)  BY <2>1 DEF AwaitResult, Completion
  <2>q. QED  BY <2>1, <2>2 DEF SameSuite
<1>6. CASE AwaitResult  BY <1>e, <1>6 DEF AwaitResult
<1>7. CASE UNCHANGED <<job, remote, node>>  BY <1>e, <1>7
<1>q. QED  BY <1>1, <1>2, <1>3, <1>4, <1>5, <1>6, <1>7, NextKinds

LEMMA EndedStays ==
    ASSUME Shape, [Next]_vars, SameSuite \/ AwaitResult \/ \E k \in Nodes : Completion(k),
           NEW n \in Nodes, EndedWell(node[n])
    PROVE  EndedWell(node'[n])
<1>1. Agree(node[n], node'[n], {"reaped"})  BY GoneStays DEF EndedWell
<1>q. QED  BY <1>1 DEF EndedWell, Agree, Fields

\* The nodes of the suite are all collected when there are enough of them.
LEMMA AllCollected ==
    ASSUME NEW total \in Nat, NEW S \in SUBSET (1 .. total), NEW n \in 1 .. total, n \notin S, ~(Cardinality(S) + 1 < total)
    PROVE  S \cup {n} = 1 .. total
<1>1. IsFiniteSet(1 .. total) /\ Cardinality(1 .. total) = total  BY FS_Interval
<1>2. IsFiniteSet(S) /\ Cardinality(S) \in Nat  BY <1>1, FS_Subset, FS_CardinalityType
<1>3. IsFiniteSet(S \cup {n}) /\ Cardinality(S \cup {n}) = Cardinality(S) + 1  BY <1>2, FS_AddElement
<1>4. S \cup {n} \in SUBSET (1 .. total)  OBVIOUS
<1>5. Cardinality(S \cup {n}) <= Cardinality(1 .. total)  BY <1>1, <1>4, FS_Subset
<1>6. Cardinality(S \cup {n}) = Cardinality(1 .. total)  BY <1>1, <1>2, <1>3, <1>5
<1>q. QED  BY <1>1, <1>4, <1>6, FS_Subset

LEMMA CliVerdictStep ==
    ASSUME Shape, SharedInv, OrderInv, CliVerdict, [Next]_vars
    PROVE  CliVerdict'
<1> USE DEF Shape
<1>0. IsCli(cli) /\ job.total \in Nat /\ NodesOfJob \subseteq Nodes  BY NodeAssumption DEF NodesOfJob, Nodes
<1>k. Signals /\ (Elsewhere \/ SameSuite \/ NextSuite \/ AwaitResult \/ \E n \in Nodes : Completion(n))
      BY CommandKinds
<1>s. cli'.signalled => cli'.typed  BY <1>k DEF Signals, CliVerdict
<1>1. CASE Elsewhere  BY <1>1, <1>s DEF Elsewhere, CliVerdict, Judged
<1>2. CASE SameSuite
  <2>1. /\ cli'.pc = cli.pc /\ cli'.next = cli.next /\ cli'.suiteRes = cli.suiteRes /\ cli'.collected = cli.collected
        /\ job' = job
        BY <1>2 DEF SameSuite
  <2>2. cli.pc \in {"running", "result", "suiteRan"} => cli'.compile[cli.next] = cli.compile[cli.next]
        BY <1>2 DEF SameSuite, OrderInv, CliVerdict
  <2>3. \A n \in NodesOfJob : EndedWell(node[n]) => EndedWell(node'[n])  BY <1>0, <1>2, EndedStays
  <2>q. QED  BY <1>s, <2>1, <2>2, <2>3 DEF CliVerdict, Judged, NodesOfJob
<1>3. CASE NextSuite
  <2>1. cli'.next = cli.next /\ cli'.compile = cli.compile  BY <1>0, <1>3 DEF NextSuite, IsCli, CliFields
  <2>2. CASE cli.compile[cli.next] = "ok" /\ Run(SuiteOf(cli.order[cli.next])) /\ cli'.pc = "running" /\ cli'.collected = {}
    <3>1. job'.total \in 1 .. MaxNodes  BY <2>2, NewJob
    <3>q. QED  BY <1>s, <2>1, <2>2, <3>1 DEF CliVerdict, Judged
  <2>3. CASE cli.compile[cli.next] = "error" /\ cli'.pc = "suiteRan" /\ cli'.suiteRes = FailingRunResult
        BY <1>s, <2>1, <2>3 DEF CliVerdict, Judged, FailingRunResult
  <2>q. QED
    <3>1. \/ /\ cli.compile[cli.next] = "ok" /\ Run(SuiteOf(cli.order[cli.next]))
             /\ cli' = [cli EXCEPT !.pc = "running", !.suiteRes = PassingRunResult, !.collected = {}]
          \/ /\ cli.compile[cli.next] = "error"
             /\ cli' = [cli EXCEPT !.pc = "suiteRan", !.suiteRes = FailingRunResult]
          BY <1>3 DEF NextSuite
    <3>q. QED  BY <1>0, <2>2, <2>3, <3>1 DEF IsCli, CliFields
<1>4. CASE AwaitResult
  <2>1. /\ cli.pc = "result" /\ cli'.pc = "suiteRan" /\ cli'.next = cli.next /\ cli'.compile = cli.compile
        /\ cli'.suiteRes = cli.suiteRes /\ job' = job /\ node' = node
        BY <1>0, <1>4 DEF AwaitResult, IsCli, CliFields
  <2>q. QED  BY <1>s, <2>1 DEF CliVerdict, Judged, NodesOfJob
<1>5. ASSUME NEW n \in Nodes, Completion(n) PROVE CliVerdict'
  <2> DEFINE pc == IF Cardinality(cli.collected) + 1 < job.total THEN cli.pc
                   ELSE IF job.mode = "parallel" THEN "result" ELSE "suiteRan"
             res == Merge(cli.suiteRes, ResultOf(node[n]))
  <2>1. /\ cli.pc = "running" /\ n \in 1 .. job.total /\ n \notin cli.collected
        /\ node[n].reaped \/ node[n].up = "failed"
        /\ cli' = [cli EXCEPT !.collected = cli.collected \cup {n}, !.suiteRes = res, !.pc = pc]
        /\ job' = job /\ node' = node
        BY <1>0, <1>5 DEF Completion, Only, IsCli, CliFields
  <2>2. res.passed => cli.suiteRes.passed /\ EndedWell(node[n])
    <3>1. res.passed => cli.suiteRes.passed /\ ResultOf(node[n]).passed  BY DEF Merge
    <3>2. node[n].up = "failed" \/ node[n].up = "gone"  BY <2>1 DEF SharedInv, ProcShared
    <3>3. ResultOf(node[n]).passed => EndedWell(node[n])  BY <3>2 DEF ResultOf, FailingRunResult, EndedWell
    <3>q. QED  BY <3>1, <3>3
  <2>3. pc = "running" \/ pc \in {"result", "suiteRan"}  BY <2>1
  <2>4. pc # "running" => cli.collected \cup {n} = 1 .. job.total
    <3>1. cli.collected \in SUBSET (1 .. job.total)  BY <2>1 DEF CliVerdict, NodesOfJob
    <3>2. pc # "running" => ~(Cardinality(cli.collected) + 1 < job.total)  BY <2>1
    <3>q. QED  BY <1>0, <2>1, <3>1, <3>2, AllCollected
  <2> HIDE DEF pc, res
  <2>5. /\ cli'.collected = cli.collected \cup {n} /\ cli'.suiteRes = res /\ cli'.pc = pc
        /\ cli'.next = cli.next /\ cli'.compile = cli.compile
        BY <1>0, <2>1 DEF IsCli, CliFields
  <2>6. cli'.collected \subseteq 1 .. job.total /\ (res.passed => \A k \in cli'.collected : EndedWell(node[k]))
        BY <2>1, <2>2, <2>5 DEF CliVerdict, NodesOfJob
  <2>7. cli.compile[cli.next] = "ok" /\ job.total > 0  BY <2>1 DEF CliVerdict
  <2>q. QED  BY <1>s, <2>1, <2>3, <2>4, <2>5, <2>6, <2>7 DEF CliVerdict, Judged, NodesOfJob
<1>q. QED  BY <1>k, <1>1, <1>2, <1>3, <1>4, <1>5

ProcsVerdict == job.mode # "gotest" => \A n \in Nodes : ProcVerdict(n)

LEMMA ProcsVerdictStep ==
    ASSUME Shape, JobInv, OrderInv, CliVerdict, ProcsVerdict, [Next]_vars
    PROVE  ProcsVerdict'
<1> USE DEF Shape
<1>t. cli.typed => cli'.typed  BY CommandKinds DEF Signals
<1>s. ASSUME NEW k \in Nodes, ProcVerdict(k), node'[k] = node[k], job' = job PROVE ProcVerdict(k)'
      BY <1>t, <1>s DEF ProcVerdict, Lists, Own, NodesOfJob
<1>a. ASSUME AllOff PROVE ProcsVerdict'
  <2>1. \A n \in Nodes : node'[n].up = "off"  BY <1>a, AllOffProcs, OffIsProc
  <2>q. QED  BY <2>1 DEF ProcsVerdict, ProcVerdict, EndedWell
<1>1. ASSUME NEW n \in Nodes, OwnStep(n), cli' = cli PROVE ProcsVerdict'
  <2> SUFFICES ASSUME job'.mode # "gotest", NEW k \in Nodes PROVE ProcVerdict(k)'  BY DEF ProcsVerdict
  <2>0. job' = job /\ ProcVerdict(k)  BY <1>1, OwnStepShape DEF ProcsVerdict
  <2>1. CASE k = n  BY <1>1, <2>0, <2>1, VerdictOwn
  <2>2. CASE k # n
    <3>1. node'[k] = node[k]  BY <1>1, <2>2, MainUp, RestUp DEF OwnStep
    <3>q. QED  BY <1>s, <2>0, <3>1
  <2>q. QED  BY <2>1, <2>2
<1>2. ASSUME NEW n \in Nodes, Start(n) PROVE ProcsVerdict'
  <2> SUFFICES ASSUME job'.mode # "gotest", NEW k \in Nodes PROVE ProcVerdict(k)'  BY DEF ProcsVerdict
  <2>0. /\ job' = job /\ cli' = cli /\ n <= job.total /\ ProcVerdict(k)
        /\ \A j \in Nodes \ {n} : node'[j] = node[j]
        BY <1>2, Starts DEF Frame, ProcsVerdict
  <2>1. CASE k # n  BY <1>s, <2>0, <2>1
  <2>2. CASE k = n /\ node'[n].up # "up"
    <3>1. ~EndedWell(node'[n])  BY <1>2, <2>2, Starts DEF EndedWell, FocusExitCode
    <3>q. QED  BY <2>2, <3>1 DEF ProcVerdict
  <2>3. CASE k = n /\ node'[n].up = "up"
    <3> DEFINE q == node'[n]
    <3>1. Agree(Off, q, {"up", "specs", "focused"}) /\ q.specs = generateSpecs(job.suite, job.conf[n], job.all[n])
          BY <1>2, <2>3, Starts
    <3>2. /\ q.main = "begin" /\ q.handler = "off" /\ q.signalled = FALSE /\ q.i = 1 /\ q.suiteFailed = FALSE
          /\ q.before = "none" /\ q.after = "none"
          BY <3>1, OffIsProc DEF Agree, Fields
    <3>3. ByNow(q) /\ Undisturbed(q)  BY <3>2 DEF ByNow, Undisturbed, BeforeSpecs, InSpecs, AfterSpecs
    <3>4. n \in NodesOfJob  BY <2>0, NodeAssumption DEF NodesOfJob, Nodes
    <3>5. Lists(n)'
      <4> DEFINE suite == job.suite
                 conf == job.conf[n]
                 all == job.all[n]
                 length == Len(suite.subjects)
                 own == generateSpecs(suite, conf, all)
                 r == ShareOf(length, conf)
      <4>1. job.total \in Nat /\ job.total > 0 /\ n \in 1 .. job.total  BY <3>4, NodeAssumption DEF NodesOfJob
      <4>2. DOMAIN suite.subjects = 1 .. length /\ length \in Nat /\ IsListing(suite, all)
            BY <2>0, <3>4, <4>1 DEF JobInv
      <4>3. conf.total \in Nat \ {0} /\ (conf.total > 1 => conf.node \in 1 .. conf.total)
            BY <2>0, <3>4, <4>1 DEF JobInv
      <4>4. q.specs = own /\ Own(n)' = own  BY <2>0, <3>1 DEF Own
      <4> HIDE DEF suite, conf, all, length, own
      <4>5. DOMAIN own = 1 .. r.count /\ \A j \in 1 .. r.count : IsSpec(own[j])  BY <4>2, <4>3, OwnSpecs DEF own
      <4>q. QED  BY <4>4, <4>5 DEF Lists
    <3>q. QED  BY <2>0, <2>3, <3>3, <3>4, <3>5 DEF ProcVerdict, EndedWell, NodesOfJob
  <2>q. QED  BY <2>1, <2>2, <2>3
<1>3. ASSUME NEW n \in Nodes, Wait(n) PROVE ProcsVerdict'
  <2> SUFFICES ASSUME job'.mode # "gotest", NEW k \in Nodes PROVE ProcVerdict(k)'  BY DEF ProcsVerdict
  <2>0. Frame(n, {"reaped"}) /\ job' = job /\ cli' = cli /\ node[n].up = "gone"  BY <1>3, Waited
  <2>1. ProcVerdict(k)  BY <2>0 DEF ProcsVerdict
  <2>2. CASE k # n
    <3>1. node'[k] = node[k]  BY <2>0, <2>2 DEF Frame
    <3>q. QED  BY <1>s, <2>0, <2>1, <3>1
  <2>3. CASE k = n
    <3> DEFINE p == node[n]
               q == node'[n]
    <3>1. q.up = "gone" /\ q.code = p.code /\ q.specs = p.specs /\ q.before = p.before /\ q.after = p.after
          BY <2>0 DEF Frame, Agree, Fields
    <3>2. EndedWell(q) => EndedWell(p)  BY <2>0, <3>1 DEF EndedWell
    <3>3. Lists(n) => Lists(n)'  BY <2>0, <3>1 DEF Lists, Own
    <3>4. Clean(p) => Clean(q)  BY <3>1 DEF Clean
    <3>q. QED  BY <2>0, <2>1, <2>3, <3>1, <3>2, <3>3, <3>4 DEF ProcVerdict
  <2>q. QED  BY <2>2, <2>3
<1>4. CASE Interrupt
  <2> SUFFICES ASSUME job'.mode # "gotest", NEW k \in Nodes PROVE ProcVerdict(k)'  BY DEF ProcsVerdict
  <2>0. job' = job /\ ProcVerdict(k)  BY <1>4, Interrupts DEF ProcsVerdict
  <2>1. cli'.typed
    <3>0. IsCli(cli)  OBVIOUS
    <3>1. CASE cli' = [cli EXCEPT !.typed = TRUE, !.signalled = TRUE]  BY <3>0, <3>1 DEF IsCli, CliFields
    <3>2. CASE cli.signalled  BY <1>t, <3>2 DEF CliVerdict
    <3>q. QED  BY <1>4, <3>1, <3>2 DEF Interrupt
  <2>2. CASE node'[k] = node[k]  BY <1>s, <2>0, <2>2
  <2>3. CASE /\ node[k].up = "up" /\ Agree(node[k], node'[k], {"signalled"})
    <3> DEFINE p == node[k]
               q == node'[k]
    <3>1. /\ q.up = "up" /\ q.specs = p.specs /\ q.before = p.before /\ q.i = p.i /\ q.passed = p.passed /\ q.main = p.main
          /\ q.suiteFailed = p.suiteFailed /\ q.interrupted = p.interrupted
          BY <2>3 DEF Agree, Fields
    <3>2. ByNow(p) /\ Lists(k) /\ k \in NodesOfJob  BY <2>0, <2>3 DEF ProcVerdict
    <3>3. ByNow(q)  BY <3>1, <3>2 DEF ByNow, Clean, DoneWith
    <3>4. Lists(k)'  BY <2>0, <3>1, <3>2 DEF Lists, Own
    <3>q. QED  BY <2>0, <2>1, <3>1, <3>2, <3>3, <3>4 DEF ProcVerdict, EndedWell, NodesOfJob
  <2>4. CASE node'[k].up = "gone" /\ node'[k].code \in {1, 2}
        BY <2>4 DEF ProcVerdict, EndedWell, FocusExitCode
  <2>q. QED  BY <1>4, <2>2, <2>3, <2>4, Interrupts
<1>5. CASE Run(SuiteOf(cli.order[cli.next]))  BY <1>5, <1>a DEF Run, AllOff
<1>6. CASE SuiteRan  BY <1>6, <1>a DEF SuiteRan, AllOff
<1>7. CASE AwaitResult \/ UNCHANGED <<job, remote, node>>
  <2>1. job' = job /\ node' = node  BY <1>7 DEF AwaitResult
  <2>q. QED  BY <1>s, <2>1 DEF ProcsVerdict
<1>q. QED  BY <1>1, <1>2, <1>3, <1>4, <1>5, <1>6, <1>7, NextKinds

LEMMA VerdictInit ==
    ASSUME Init
    PROVE  JobInv /\ OrderInv /\ CliVerdict /\ ProcsVerdict
<1>1. PICK inv \in Invocations :
          cli = [inv |-> inv, pc |-> "start", order |-> <<>>, next |-> 1, compile |-> <<>>, compiled |-> {},
                 callback |-> FALSE, res |-> PassingRunResult, suiteRes |-> PassingRunResult, collected |-> {},
                 typed |-> FALSE, signalled |-> FALSE, interrupts |-> 0, code |-> 0]
      BY DEF Init
<1>2. cli.pc = "start" /\ cli.order = <<>> /\ cli.compile = <<>> /\ cli.signalled = FALSE  BY <1>1
<1>3. job.total = 0 /\ node = [n \in Nodes |-> Off]  BY DEF Init, NoSuite
<1>4. JobInv  BY <1>3 DEF JobInv, NodesOfJob
<1>5. OrderInv
  <2>1. DOMAIN <<>> = {} /\ <<>> = [i \in {} |-> <<>>[i]]  OBVIOUS
  <2>q. QED  BY <1>2, <2>1 DEF OrderInv
<1>6. CliVerdict  BY <1>2 DEF CliVerdict, Judged
<1>7. \A n \in Nodes : node[n].up = "off"  BY <1>3, OffIsProc
<1>8. ProcsVerdict  BY <1>7 DEF ProcsVerdict, ProcVerdict, EndedWell
<1>q. QED  BY <1>4, <1>5, <1>6, <1>8

\* The ranges of the nodes are a partition: every place is on one node, once.
THEOREM SharesPartition ==
    ASSUME NEW length \in Nat, NEW total \in Nat \ {0}, NEW i \in 1 .. length
    PROVE  \E n \in 1 .. total : \A m \in 1 .. total :
               LET r == ParallelizedIndexRange(length, total, m) IN (r.start < i /\ i <= r.start + r.count) <=> m = n
<1> DEFINE r(n) == ParallelizedIndexRange(length, total, n)
           in(n) == r(n).start < i /\ i <= r(n).start + r(n).count
<1>1. PICK n \in 1 .. total : in(n)  BY SharesCover
<1>2. \A m \in 1 .. total : r(m).start \in Nat /\ r(m).count \in Nat  BY ShareInside
<1>3. ASSUME NEW m \in 1 .. total, NEW k \in 1 .. total, m < k, in(m), in(k) PROVE FALSE
  <2>1. r(m).start + r(m).count <= r(k).start \/ r(k).count = 0  BY <1>3, SharesApart
  <2> HIDE DEF r
  <2>q. QED  BY <1>2, <1>3, <2>1
<1> HIDE DEF r, in
<1>4. ASSUME NEW m \in 1 .. total, in(m) PROVE m = n
  <2>1. m < n \/ m = n \/ n < m  OBVIOUS
  <2>q. QED  BY <1>1, <1>3, <1>4, <2>1
<1>5. \A m \in 1 .. total : in(m) <=> m = n  BY <1>1, <1>4
<1>q. QED  BY <1>5 DEF in, r

\* What the flags tell the nodes, and which of them has a place.
Numbered(total, conf) == \A n \in 1 .. total : conf[n].total = total /\ (total > 1 => conf[n].node = n)

HasPlace(length, conf, i, m) == LET r == ShareOf(length, conf[m]) IN r.start < i /\ i <= r.start + r.count

\* The same for the share that the flags of a process give it.
LEMMA OnePlace ==
    ASSUME NEW length \in Nat, NEW total \in Nat \ {0}, NEW i \in 1 .. length, NEW conf, Numbered(total, conf)
    PROVE  \E n \in 1 .. total : \A m \in 1 .. total : HasPlace(length, conf, i, m) <=> m = n
<1> USE DEF Numbered, HasPlace
<1>1. CASE total > 1
  <2>1. \A m \in 1 .. total : ShareOf(length, conf[m]) = ParallelizedIndexRange(length, total, m)  BY <1>1 DEF ShareOf
  <2>2. PICK n \in 1 .. total : \A m \in 1 .. total :
            LET r == ParallelizedIndexRange(length, total, m) IN (r.start < i /\ i <= r.start + r.count) <=> m = n
        BY SharesPartition
  <2>3. ASSUME NEW m \in 1 .. total
        PROVE  HasPlace(length, conf, i, m) <=> m = n
    <3>1. ShareOf(length, conf[m]) = ParallelizedIndexRange(length, total, m)  BY <1>1, <2>1
    <3>q. QED  BY <2>2, <3>1
  <2>q. QED  BY <2>3
<1>2. CASE ~(total > 1)
  <2>1. total = 1  BY <1>2
  <2>2. ShareOf(length, conf[1]) = [start |-> 0, count |-> length]  BY <2>1 DEF ShareOf
  <2>3. 1 \in 1 .. total /\ \A m \in 1 .. total : m = 1  BY <2>1
  <2>4. HasPlace(length, conf, i, 1)  BY <2>2
  <2> WITNESS 1 \in 1 .. total
  <2>q. QED  BY <2>3, <2>4
<1>q. QED  BY <1>1, <1>2

\* The node of a spec, and its place there.
LEMMA OneOwner ==
    ASSUME JobInv, job.mode # "gotest", job.total \in Nat \ {0}, SeedForAll \/ job.total = 1,
           \A n \in NodesOfJob : Lists(n), NEW k \in DOMAIN job.suite.subjects
    PROVE  \E n \in NodesOfJob : \E j \in DOMAIN node[n].specs : \A m \in NodesOfJob : \A h \in DOMAIN node[m].specs :
               node[m].specs[h].subject = k <=> m = n /\ h = j
<1> DEFINE suite == job.suite
           length == Len(suite.subjects)
           start(n) == ShareOf(length, job.conf[n]).start
           count(n) == ShareOf(length, job.conf[n]).count
           all == job.all[1]
<1>1. NodesOfJob = 1 .. job.total /\ 1 \in NodesOfJob  BY DEF NodesOfJob
<1>2. DOMAIN suite.subjects = 1 .. length /\ length \in Nat  BY DEF JobInv
<1>3. \A n \in NodesOfJob : job.all[n] = all  BY <1>1 DEF JobInv
<1>4. IsListing(suite, all)  BY <1>1 DEF JobInv
<1>5. DOMAIN all = 1 .. length  BY <1>2, <1>4 DEF IsListing
<1>6. PICK i \in 1 .. length : \A j \in 1 .. length : all[j].subject = k <=> j = i
  <2>1. \A e \in DOMAIN suite.subjects : \E i \in DOMAIN all : \A j \in DOMAIN all : all[j].subject = e <=> j = i
        BY <1>4 DEF IsListing
  <2> HIDE DEF all, length
  <2>q. QED  BY <1>5, <2>1
<1>7. ASSUME NEW n \in NodesOfJob
      PROVE  /\ start(n) \in Nat /\ count(n) \in Nat /\ start(n) + count(n) <= length
             /\ DOMAIN node[n].specs = 1 .. count(n)
             /\ \A h \in 1 .. count(n) : node[n].specs[h].subject = all[start(n) + h].subject
  <2> DEFINE conf == job.conf[n]
             own == generateSpecs(suite, conf, all)
  <2>1. conf.total \in Nat \ {0} /\ (conf.total > 1 => conf.node \in 1 .. conf.total)  BY <1>1 DEF JobInv
  <2>2. Own(n) = own  BY <1>3 DEF Own
  <2> HIDE DEF conf, own, all, suite, length
  <2>3. LET r == ShareOf(length, conf)
        IN /\ r.start \in Nat /\ r.count \in Nat /\ r.start + r.count <= length
           /\ DOMAIN own = 1 .. r.count
           /\ \A h \in 1 .. r.count : own[h].subject = all[r.start + h].subject
    <3>1. length \in Nat /\ DOMAIN suite.subjects = 1 .. length /\ IsListing(suite, all)  BY <1>2, <1>4
    <3>2. LET mine == generateSpecs(suite, conf, all)
              r == ShareOf(length, conf)
          IN /\ r.start \in Nat /\ r.count \in Nat /\ r.start + r.count <= length
             /\ DOMAIN mine = 1 .. r.count
             /\ \A h \in 1 .. r.count : /\ IsSpec(mine[h]) /\ mine[h].subject = all[r.start + h].subject
                                         /\ mine[h].state \in {"invalid", "pending", "skipped"}
          BY <3>1, <2>1, OwnSpecs
    <3>q. QED  BY <3>2 DEF own
  <2>q. QED  BY <2>2, <2>3 DEF Lists, conf
<1>8. PICK n \in NodesOfJob : \A m \in NodesOfJob : HasPlace(length, job.conf, i, m) <=> m = n
  <2>1. Numbered(job.total, job.conf)  BY <1>1 DEF JobInv, Numbered
  <2>2. length \in Nat  BY <1>2
  <2>3. \E n \in 1 .. job.total : \A m \in 1 .. job.total : HasPlace(length, job.conf, i, m) <=> m = n
    <3> HIDE DEF suite, length
    <3>q. QED  BY <2>1, <2>2, OnePlace
  <2>q. QED  BY <1>1, <2>3
<1>p. \A m \in NodesOfJob : HasPlace(length, job.conf, i, m) <=> start(m) < i /\ i <= start(m) + count(m)
      BY DEF HasPlace
<1> HIDE DEF start, count, all, suite, length
<1>9. start(n) < i /\ i <= start(n) + count(n)  BY <1>8, <1>p
<1> DEFINE j == i - start(n)
<1>10. j \in DOMAIN node[n].specs  BY <1>2, <1>7, <1>9
<1>11. ASSUME NEW m \in NodesOfJob, NEW h \in DOMAIN node[m].specs
       PROVE  node[m].specs[h].subject = k <=> m = n /\ h = j
  <2>1. h \in 1 .. count(m) /\ start(m) + h \in 1 .. length /\ start(m) \in Nat /\ count(m) \in Nat
        BY <1>2, <1>7, <1>11
  <2>2. node[m].specs[h].subject = k <=> start(m) + h = i  BY <1>6, <1>7, <2>1
  <2>3. ASSUME start(m) + h = i PROVE m = n /\ h = j
    <3>1. start(m) < i /\ i <= start(m) + count(m)  BY <2>1, <2>3
    <3>2. m = n  BY <1>8, <1>p, <3>1
    <3>q. QED  BY <2>1, <2>3, <3>2
  <2>4. ASSUME m = n, h = j PROVE start(m) + h = i  BY <2>1, <2>4
  <2>q. QED  BY <2>2, <2>3, <2>4
<1> HIDE DEF j
<1>q. QED  BY <1>10, <1>11

\* What a passing verdict rests on.
LEMMA PassedMeansWell ==
    ASSUME Shape, JobInv, CliVerdict, ProcsVerdict, VerdictReached, cli.suiteRes.passed, SeedForAll \/ job.total = 1
    PROVE  AllWell
<1>1. job.mode # "gotest" /\ cli.pc \in {"result", "suiteRan"} /\ cli.compile[cli.next] = "ok"  BY DEF VerdictReached
<1>2. job.total \in 1 .. MaxNodes /\ job.total \in Nat \ {0}  BY <1>1, NodeAssumption DEF CliVerdict, Judged, Shape
<1>3. \A n \in NodesOfJob : n \in Nodes  BY <1>2, NodeAssumption DEF NodesOfJob, Nodes
<1>4. \A n \in NodesOfJob : Lists(n) /\ Clean(node[n]) /\ (cli.typed \/ node[n].after \in {"none", "passed"})
      BY <1>1, <1>3 DEF CliVerdict, ProcsVerdict, ProcVerdict
<1>5. ASSUME NEW k \in DOMAIN job.suite.subjects
      PROVE  Occurrences(k, Excusable) = 1 /\ Occurrences(k, {"invalid", "failed", "panicked", "timedout"}) = 0
  <2> DEFINE Placed(n, states) == {<<n, i>> : i \in {i \in DOMAIN node[n].specs : node[n].specs[i].subject = k
                                                                       /\ node[n].specs[i].state \in states}}
             All(states) == UNION {Placed(n, states) : n \in NodesOfJob}
             bad == {"invalid", "failed", "panicked", "timedout"}
  <2>1. PICK n \in NodesOfJob : \E j \in DOMAIN node[n].specs : \A m \in NodesOfJob : \A h \in DOMAIN node[m].specs :
               node[m].specs[h].subject = k <=> m = n /\ h = j
        BY <1>1, <1>2, <1>4, OneOwner
  <2>2. PICK j \in DOMAIN node[n].specs : \A m \in NodesOfJob : \A h \in DOMAIN node[m].specs :
               node[m].specs[h].subject = k <=> m = n /\ h = j
        BY <2>1
  <2>3. All(Excusable) = {<<n, j>>}
    <3>1. \A m \in NodesOfJob : \A h \in DOMAIN node[m].specs : node[m].specs[h].state \in Excusable
          BY <1>4 DEF Clean
    <3>q. QED  BY <2>2, <3>1
  <2>4. All(bad) = {}
    <3>1. \A m \in NodesOfJob : \A h \in DOMAIN node[m].specs : node[m].specs[h].state \notin bad
          BY <1>4 DEF Clean, Excusable
    <3>q. QED  BY <3>1
  <2>5. Occurrences(k, Excusable) = Cardinality(All(Excusable)) /\ Occurrences(k, bad) = Cardinality(All(bad))
        BY DEF Occurrences
  <2>q. QED  BY <2>3, <2>4, <2>5, FS_Singleton, FS_EmptySet
<1>q. QED  BY <1>4, <1>5 DEF AllWell, Clean

-----------------------------------------------------------------------------
(* A suite in which nothing went wrong.                                    *)

\* A pending spec is not to be there.
Excused(n) == job.conf[n].failOnPending /\ \E i \in DOMAIN node[n].specs : Pending(node[n].specs[i])

SharesSetup == job.suite.beforeSuite = "synchronized" /\ job.total > 1
SharedData == remote.beforeSuiteData.state = "passed"

\* A process that is up has passed so far, or has a pending spec.
Passing(n) ==
    LET p == node[n]
    IN /\ p.failer = "passed" /\ p.strays = 0 /\ ~p.interrupted /\ ~p.skipRemaining
       /\ p.before \in {"none", "passed"} /\ p.after \in {"none", "passed"}
       /\ p.main \in {"postA", "reportBefore"} => p.before = "passed"
       /\ p.main \in {"waitForOthers", "runAfterB", "reportAfter"} => p.after = "passed"
       /\ p.main = "runSample" => p.state = "passed" /\ Runs(p.specs[p.i])
       /\ \A j \in DOMAIN p.specs : ~Failed(p.specs[j])
       /\ (p.suiteFailed \/ ~p.passed) => Excused(n)
       /\ p.main \in {"waitForA", "askAlive"} => n # 1 /\ SharesSetup

Smooth(n) ==
    LET p == node[n]
    IN /\ p.up # "failed"
       /\ p.up = "up" => Passing(n)
       /\ p.up = "gone" => p.code \in {0, FocusExitCode} \/ Excused(n)

\* Node 1 gives its data to the server before it goes on.
DataGiven ==
    SharesSetup =>
        /\ remote.beforeSuiteData.state \in {"pending", "passed"}
        /\ node[1].up = "gone" \/ (node[1].up = "up" /\ node[1].main \notin {"begin", "before", "postA"}) => SharedData

\* Whoever failed was excused.
FailuresExcused ==
    (cli.pc \in {"running", "result", "suiteRan"} /\ cli.compile[cli.next] = "ok" /\ ~cli.suiteRes.passed) =>
        \E n \in NodesOfJob : node[n].up = "gone" /\ Excused(n)

AtRisk == job.mode # "gotest" /\ ~job.suite.panicked /\ ~ToldTooLate

SmoothInv ==
    NothingWrong =>
        /\ ~cli.typed
        /\ AtRisk => DataGiven /\ FailuresExcused /\ \A n \in Nodes : Smooth(n)

\* A step spends nothing of what may go wrong, or one of it.
LEMMA OwnRisk ==
    ASSUME Shape, NEW n \in Nodes, OwnStep(n)
    PROVE  Fine \/ Wrong
<1> USE DEF Shape
<1>b. ASSUME NEW outcome, BodyRan(n, outcome) PROVE Fine \/ Wrong  BY <1>b DEF BodyRan
<1>1. ASSUME NEW g \in {"main", "handler"}, Finish(n, g) PROVE Fine \/ Wrong
  <2>1. CASE runAfterSuite(n, g) /\ job.suite.afterSuite = "none"  BY <2>1, NoAfterSuite DEF Fine
  <2>2. CASE runAfterSuite(n, g) /\ job.suite.afterSuite # "none"  BY <1>b, <2>2, RunAfter
  <2>3. CASE waitUntilOtherNodesAreDone(n, g)  BY <2>3, OthersAreDone DEF Fine
  <2>4. CASE runAfterB(n, g)  BY <1>b, <2>4, RunAfterB
  <2>5. CASE reportAfterSuite(n, g) \/ reportSuiteDidEnd(n, g)  BY <2>5, ReportingSteps
  <2>6. CASE Exits(n, g)  BY <2>6, Exit DEF Fine
  <2>q. QED  BY <1>1, <2>1, <2>2, <2>3, <2>4, <2>5, <2>6 DEF Finish
<1>2. CASE reportSuiteWillBegin(n) \/ reportBeforeSuite(n) \/ reportSpecDidComplete(n)  BY <1>2, ReportingSteps
<1>3. CASE runBeforeSuite(n) /\ job.suite.beforeSuite = "simple" /\ ~node[n].interrupted  BY <1>b, <1>3, RunSimple
<1>4. CASE runBeforeSuite(n) /\ ~(job.suite.beforeSuite = "simple" /\ ~node[n].interrupted)
      BY <1>4, SetupPassedOver DEF Fine
<1>5. CASE runA(n)  BY <1>b, <1>5, RunA
<1>6. CASE postA(n)  BY <1>6 DEF postA
<1>7. CASE waitForA(n) \/ askAlive(n)  BY <1>7, WaitForA, AskAlive
<1>8. CASE runB(n)  BY <1>b, <1>8, RunB
<1>9. CASE runSample(n)  BY <1>b, <1>9, RunSample
<1>10. CASE runSpecs(n) \/ sampleEnds(n)  BY <1>10, StartSampleFrames DEF Fine
<1>11. CASE blockForeverIfInterrupted(n)  BY <1>11, Blocks DEF Fine
<1>12. CASE GoTestEnds(n)  BY <1>12, GoTestExit
<1>13. CASE registerForInterrupts(n)  BY <1>13, Registers DEF Fine
<1>14. CASE markInterrupted(n)  BY <1>14, Marked DEF Fine
<1>15. CASE StrayFails(n)  BY <1>15, StrayEnds DEF Fine
<1>16. CASE Crash(n)  BY <1>16, Crashes
<1>q. QED
  <2>1. CASE Main(n)
        BY <2>1, <1>2, <1>3, <1>4, <1>5, <1>6, <1>7, <1>8, <1>9, <1>10, <1>11, <1>12 DEF Main
  <2>2. CASE Finish(n, "main") \/ Handler(n)  BY <2>2, <1>1, <1>13, <1>14 DEF Handler
  <2>q. QED  BY <2>1, <2>2, <1>15, <1>16 DEF OwnStep

LEMMA NextRisk ==
    ASSUME Shape, [Next]_vars
    PROVE  Fine \/ Wrong
<1>1. CASE CommandStep
  <2>1. CASE NextSuite \/ AwaitResult \/ SuiteRan \/ SuitesDone \/ RunSpecs
        BY <2>1 DEF NextSuite, AwaitResult, SuiteRan, SuitesDone, RunSpecs, Only, Fine
  <2>2. CASE RunSpecsEnds \/ WatchSuites \/ Tick \/ ResumeWatch \/ StopWatch
        BY <2>2 DEF RunSpecsEnds, WatchSuites, Tick, ResumeWatch, StopWatch, Only, Fine
  <2>q. QED  BY <1>1, <2>1, <2>2 DEF CommandStep
<1>2. CASE handleInterrupt  BY <1>2 DEF handleInterrupt, Only, Fine
<1>3. ASSUME NEW i, willCompile(i) \/ compile(i) PROVE Fine \/ Wrong  BY <1>3 DEF willCompile, compile, Fine
<1>4. CASE Interrupt  BY <1>4 DEF Interrupt
<1>5. CASE Develop  BY <1>5 DEF Develop, Fine
<1>6. ASSUME NEW n \in Nodes, Start(n) \/ Wait(n) \/ Completion(n) PROVE Fine \/ Wrong
      BY <1>6 DEF Start, Wait, Completion, Only, Fine
<1>7. ASSUME NEW n \in Nodes, ProcessStep(n) PROVE Fine \/ Wrong  BY <1>7, OwnRisk DEF ProcessStep, OwnStep
<1>8. CASE UNCHANGED vars  BY <1>8 DEF vars, Fine
<1>q. QED  BY <1>1, <1>2, <1>3, <1>4, <1>5, <1>6, <1>7, <1>8 DEF Next, Background

\* What may still go wrong: nothing has, as long as nothing has been spent.
Spends == mayGoWrong \in Nat /\ mayGoWrong <= cli.inv.mayGoWrong

LEMMA SpendsStep ==
    ASSUME Shape, Spends, [Next]_vars
    PROVE  /\ Spends' /\ (Wrong => mayGoWrong' # mayGoWrong)
           /\ NothingWrong' => NothingWrong /\ ~Wrong /\ mayGoWrong' = mayGoWrong
<1>1. cli'.inv = cli.inv  BY CliStays DEF Shape
<1>2. cli.inv.mayGoWrong \in Nat  BY InvocationAssumption DEF Shape
<1>3. CASE Fine  BY <1>1, <1>2, <1>3 DEF Fine, Spends, Wrong, NothingWrong
<1>4. CASE Wrong  BY <1>1, <1>2, <1>4 DEF Wrong, Spends, NothingWrong
<1>q. QED  BY <1>3, <1>4, NextRisk

\* When nothing goes wrong a body passes.
LEMMA BodyPasses ==
    ASSUME NEW n, node[n].failer = "passed", node[n].strays = 0, ~Wrong, NEW outcome, BodyRan(n, outcome)
    PROVE  outcome = "passed" /\ node'[n].strays = 0
  BY DEF BodyRan

\* A process whose specs do not change is excused as before.
LEMMA ExcusedSame ==
    ASSUME NEW n \in Nodes, node'[n].specs = node[n].specs, job' = job
    PROVE  Excused(n)' <=> Excused(n)
  BY DEF Excused

\* A node 1 that has gone has given its data.
LEMMA GoneHasGiven ==
    ASSUME SharedInv, SharesSetup, DataGiven, ~Alive[1]
    PROVE  node[1].up = "gone" /\ SharedData
<1>1. 1 \in Nodes  BY NodeAssumption DEF Nodes
<1>2. Alive[1] = ~(node[1].reaped /\ node[1].code # Killed)  BY <1>1 DEF Alive
<1>q. QED  BY <1>1, <1>2 DEF SharedInv, ProcShared, DataGiven

LEMMA SmoothBefore ==
    ASSUME Shape, SharedInv, DataGiven, ~ToldTooLate', NEW n \in Nodes, n \in NodesOfJob, Passing(n), ~Wrong,
           \/ reportSuiteWillBegin(n) \/ runBeforeSuite(n) \/ runA(n) \/ postA(n) \/ waitForA(n) \/ askAlive(n) \/ runB(n)
           \/ reportBeforeSuite(n)
    PROVE  node'[n].up = "up" /\ Passing(n)'
<1> USE DEF Shape
<1> DEFINE p == node[n]
           q == node'[n]
<1>e. ASSUME NEW F, Frame(n, F), "specs" \notin F, job' = job
      PROVE  q.specs = p.specs /\ (Excused(n)' <=> Excused(n)) /\ (SharesSetup' <=> SharesSetup)
  <2>1. q.specs = p.specs  BY <1>e DEF Frame, Agree, Fields
  <2>q. QED  BY <1>e, <2>1, ExcusedSame DEF SharesSetup
<1>1. CASE reportSuiteWillBegin(n)
  <2>1. /\ Frame(n, {"main", "handler"}) /\ p.up = "up" /\ q.main = "before" /\ job' = job
        BY <1>1, WillBegin
  <2>2. q.specs = p.specs /\ (Excused(n)' <=> Excused(n))  BY <2>1, <1>e
  <2>q. QED  BY <2>1, <2>2 DEF Frame, Agree, Fields, Passing
<1>2. CASE runBeforeSuite(n) /\ job.suite.beforeSuite = "simple" /\ ~p.interrupted
  <2>1. PICK outcome :
            /\ Frame(n, {"failer", "before", "main", "strays"}) /\ p.up = "up" /\ job' = job
            /\ BodyRan(n, outcome) /\ q.failer = "passed" /\ q.before = outcome /\ q.main = "reportBefore"
        BY <1>2, RunSimple
  <2>2. q.specs = p.specs /\ (Excused(n)' <=> Excused(n))  BY <2>1, <1>e
  <2>3. outcome = "passed" /\ q.strays = 0  BY <2>1, BodyPasses DEF Passing
  <2>q. QED  BY <2>1, <2>2, <2>3 DEF Frame, Agree, Fields, Passing
<1>3. CASE runBeforeSuite(n) /\ ~(job.suite.beforeSuite = "simple" /\ ~p.interrupted)
  <2>1. /\ Frame(n, {"main"}) /\ p.up = "up" /\ job' = job
        /\ \/ q.main = "specs"
           \/ n # 1 /\ job.suite.beforeSuite = "synchronized" /\ q.main = "waitForA"
        BY <1>3, SetupPassedOver
  <2>2. q.specs = p.specs /\ (Excused(n)' <=> Excused(n)) /\ (SharesSetup' <=> SharesSetup)  BY <2>1, <1>e
  <2>3. q.main = "waitForA" => n # 1 /\ SharesSetup
    <3>1. job.total \in Nat /\ n \in 1 .. job.total  BY NodeAssumption DEF NodesOfJob
    <3>q. QED  BY <2>1, <3>1 DEF SharesSetup
  <2>4. q.main \in {"specs", "waitForA"}  BY <2>1
  <2>q. QED  BY <2>1, <2>2, <2>3, <2>4 DEF Frame, Agree, Fields, Passing
<1>4. CASE runA(n)
  <2>1. PICK outcome :
            /\ Frame(n, {"failer", "before", "main", "data", "strays"}) /\ p.up = "up" /\ job' = job
            /\ BodyRan(n, outcome) /\ q.failer = "passed" /\ q.before = outcome /\ q.main = MainAfterA(outcome)
        BY <1>4, RunA
  <2>2. q.specs = p.specs /\ (Excused(n)' <=> Excused(n))  BY <2>1, <1>e
  <2>3. outcome = "passed" /\ q.strays = 0  BY <2>1, BodyPasses DEF Passing
  <2>4. q.main \in {"postA", "runB"}  BY <2>1, <2>3 DEF MainAfterA
  <2>q. QED  BY <2>1, <2>2, <2>3, <2>4 DEF Frame, Agree, Fields, Passing
<1>5. CASE postA(n)
  <2>1. /\ Frame(n, {"main"}) /\ p.up = "up" /\ p.main = "postA" /\ job' = job
        /\ q.main = IF p.before = "passed" THEN "runB" ELSE "reportBefore"
        BY <1>5, PostA
  <2>2. q.specs = p.specs /\ (Excused(n)' <=> Excused(n))  BY <2>1, <1>e
  <2>3. q.main = "runB"  BY <2>1 DEF Passing
  <2>q. QED  BY <2>1, <2>2, <2>3 DEF Frame, Agree, Fields, Passing
<1>6. CASE waitForA(n)
  <2>1. /\ Frame(n, {"data", "main", "before"}) /\ p.up = "up" /\ p.main = "waitForA" /\ job' = job
        /\ \/ q.before = p.before /\ q.main \in {"runB", "askAlive"}
           \/ Wrong \/ remote.beforeSuiteData.state = "failed"
        BY <1>6, WaitForA
  <2>2. q.specs = p.specs /\ (Excused(n)' <=> Excused(n)) /\ (SharesSetup' <=> SharesSetup)  BY <2>1, <1>e
  <2>3. n # 1 /\ SharesSetup /\ remote.beforeSuiteData.state # "failed"  BY <2>1 DEF Passing, DataGiven
  <2>4. q.before = p.before /\ q.main \in {"runB", "askAlive"}  BY <2>1, <2>3
  <2>q. QED  BY <2>1, <2>2, <2>3, <2>4 DEF Frame, Agree, Fields, Passing
<1>6a. CASE askAlive(n)
  <2>1. /\ Frame(n, {"main", "before"}) /\ p.up = "up" /\ p.main = "askAlive" /\ job' = job /\ remote' = remote
        /\ \/ q.before = p.before /\ q.main = "waitForA"
           \/ q.before = "failed" /\ (Wrong \/ ~Alive[1])
        BY <1>6a, AskAlive
  <2>2. q.specs = p.specs /\ (Excused(n)' <=> Excused(n)) /\ (SharesSetup' <=> SharesSetup)  BY <2>1, <1>e
  <2>3. n # 1 /\ SharesSetup  BY <2>1 DEF Passing
  <2>4. ASSUME q.before = "failed", ~Alive[1] PROVE FALSE
    <3>1. node[1].up = "gone" /\ SharedData  BY <2>3, <2>4, GoneHasGiven
    <3>2. node'[1] = node[1]  BY <2>1, <2>3, NodeAssumption DEF Frame, Nodes
    <3>3. n \in NodesOfJob' \ {1}  BY <2>1, <2>3 DEF NodesOfJob
    <3>q. QED  BY <2>1, <2>3, <2>4, <3>1, <3>2, <3>3 DEF ToldTooLate, SharedData, SharesSetup
  <2>5. q.before = p.before /\ q.main = "waitForA"  BY <2>1, <2>4
  <2>q. QED  BY <2>1, <2>2, <2>3, <2>5 DEF Frame, Agree, Fields, Passing
<1>7. CASE runB(n)
  <2>1. PICK outcome :
            /\ Frame(n, {"failer", "before", "main", "strays"}) /\ p.up = "up" /\ job' = job
            /\ BodyRan(n, outcome) /\ q.failer = "passed" /\ q.before = outcome /\ q.main = "reportBefore"
        BY <1>7, RunB
  <2>2. q.specs = p.specs /\ (Excused(n)' <=> Excused(n))  BY <2>1, <1>e
  <2>3. outcome = "passed" /\ q.strays = 0  BY <2>1, BodyPasses DEF Passing
  <2>q. QED  BY <2>1, <2>2, <2>3 DEF Frame, Agree, Fields, Passing
<1>8. CASE reportBeforeSuite(n)
  <2>1. /\ Frame(n, {"passed", "main"}) /\ p.up = "up" /\ p.main = "reportBefore" /\ q.passed = (p.before = "passed")
        /\ q.main = (IF p.before = "passed" THEN "specs" ELSE "blockIfInterrupted") /\ job' = job
        BY <1>8, ReportBefore
  <2>2. q.specs = p.specs /\ (Excused(n)' <=> Excused(n))  BY <2>1, <1>e
  <2>3. q.main = "specs" /\ q.passed = TRUE  BY <2>1 DEF Passing
  <2>q. QED  BY <2>1, <2>2, <2>3 DEF Frame, Agree, Fields, Passing
<1>q. QED  BY <1>1, <1>2, <1>3, <1>4, <1>5, <1>6, <1>6a, <1>7, <1>8

\* A spec that is not pending may be set, to a state that is not a failure.
LEMMA PassingSpecs ==
    ASSUME NEW n \in Nodes, Passing(n), job' = job, NEW i \in DOMAIN node[n].specs, NEW spec, ~Failed(spec),
           node'[n].specs = [node[n].specs EXCEPT ![i] = spec], Pending(node[n].specs[i]) => Pending(spec)
    PROVE  (\A j \in DOMAIN node'[n].specs : ~Failed(node'[n].specs[j])) /\ (Excused(n) => Excused(n)')
<1>1. /\ DOMAIN node'[n].specs = DOMAIN node[n].specs /\ node'[n].specs[i] = spec
      /\ \A j \in DOMAIN node[n].specs : j # i => node'[n].specs[j] = node[n].specs[j]
      OBVIOUS
<1>2. \A j \in DOMAIN node'[n].specs : ~Failed(node'[n].specs[j])
  <2> SUFFICES ASSUME NEW j \in DOMAIN node'[n].specs PROVE ~Failed(node'[n].specs[j])  OBVIOUS
  <2>1. CASE j = i  BY <1>1, <2>1
  <2>2. CASE j # i  BY <1>1, <2>2 DEF Passing
  <2>q. QED  BY <2>1, <2>2
<1>3. ASSUME Excused(n) PROVE Excused(n)'
  <2>1. PICK j \in DOMAIN node[n].specs : Pending(node[n].specs[j])  BY <1>3 DEF Excused
  <2>2. Pending(node'[n].specs[j])
    <3>1. CASE j = i  BY <1>1, <2>1, <3>1
    <3>2. CASE j # i  BY <1>1, <2>1, <3>2
    <3>q. QED  BY <3>1, <3>2
  <2>3. job.conf[n].failOnPending  BY <1>3 DEF Excused
  <2>q. QED  BY <1>1, <2>2, <2>3 DEF Excused
<1>q. QED  BY <1>2, <1>3

LEMMA SmoothSpecs ==
    ASSUME Shape, NEW n \in Nodes, Lists(n), ByNow(node[n]), Passing(n), ~Wrong,
           runSpecs(n) \/ runSample(n) \/ sampleEnds(n) \/ reportSpecDidComplete(n)
    PROVE  node'[n].up = "up" /\ Passing(n)'
<1> USE DEF Shape
<1> DEFINE p == node[n]
           q == node'[n]
           spec == p.specs[p.i]
<1>e. ASSUME NEW F, Frame(n, F), "specs" \notin F, job' = job
      PROVE  q.specs = p.specs /\ (Excused(n)' <=> Excused(n))
  <2>1. q.specs = p.specs  BY <1>e DEF Frame, Agree, Fields
  <2>q. QED  BY <1>e, <2>1, ExcusedSame
<1>n. NextSpec(n) = spec  BY DEF NextSpec, Passing
<1>1. CASE runSpecs(n) /\ (p.interrupted \/ p.i \notin DOMAIN p.specs)
  <2>1. /\ Frame(n, {"main", "passed"}) /\ p.up = "up" /\ q.main = "blockIfInterrupted" /\ job' = job
        /\ q.passed = IF p.i \in DOMAIN p.specs THEN p.suiteFailed ELSE ~p.suiteFailed
        BY <1>1, RunSpecsEnd DEF Fine
  <2>2. q.specs = p.specs /\ (Excused(n)' <=> Excused(n))  BY <2>1, <1>e
  <2>3. q.passed = ~p.suiteFailed  BY <1>1, <2>1 DEF Passing
  <2>q. QED  BY <2>1, <2>2, <2>3 DEF Frame, Agree, Fields, Passing
<1>2. CASE runSpecs(n) /\ ~(p.interrupted \/ p.i \notin DOMAIN p.specs) /\ Runs(spec)
  <2>1. /\ Frame(n, {"specs", "todo", "unwinding", "state", "ran", "main", "sample"}) /\ p.up = "up"
        /\ q.main = "runSample" /\ q.specs = [p.specs EXCEPT ![p.i] = spec] /\ q.state = "passed" /\ job' = job
        BY <1>2, <1>n, RunSpecsRun DEF AtStart
  <2>2. p.i \in DOMAIN p.specs /\ ~Failed(spec)  BY <1>2 DEF Passing
  <2>3. (\A j \in DOMAIN q.specs : ~Failed(q.specs[j])) /\ (Excused(n) => Excused(n)')  BY <2>1, <2>2, PassingSpecs
  <2>4. q.i = p.i /\ q.specs[p.i] = spec  BY <2>1, <2>2 DEF Frame, Agree, Fields
  <2>q. QED  BY <1>2, <2>1, <2>3, <2>4 DEF Frame, Agree, Fields, Passing
<1>3. CASE runSpecs(n) /\ ~(p.interrupted \/ p.i \notin DOMAIN p.specs) /\ ~Runs(spec)
  <2>1. /\ Frame(n, {"specs", "main", "suiteFailed"}) /\ p.up = "up" /\ job' = job
        /\ q.main = "completed" /\ q.specs = [p.specs EXCEPT ![p.i] = spec]
        /\ q.suiteFailed = (p.suiteFailed \/ (Pending(spec) /\ job.conf[n].failOnPending))
        BY <1>3, <1>n, RunSpecsPass
  <2>2. p.i \in DOMAIN p.specs /\ ~Failed(spec)  BY <1>3 DEF Passing
  <2>3. (\A j \in DOMAIN q.specs : ~Failed(q.specs[j])) /\ (Excused(n) => Excused(n)')  BY <2>1, <2>2, PassingSpecs
  <2>4. (Pending(spec) /\ job.conf[n].failOnPending) => Excused(n)  BY <2>2 DEF Excused
  <2>5. q.suiteFailed => Excused(n)'  BY <2>1, <2>3, <2>4 DEF Passing
  <2>q. QED  BY <2>1, <2>3, <2>5 DEF Frame, Agree, Fields, Passing
<1>4. CASE runSample(n)
  <2>1. PICK outcome :
            /\ Frame(n, {"failer", "ran", "state", "todo", "unwinding", "strays"}) /\ p.up = "up" /\ p.main = "runSample"
            /\ job' = job /\ BodyRan(n, outcome) /\ q.failer = "passed" /\ q.state = StateAfter(n, outcome)
        BY <1>4, RunSample
  <2>2. q.specs = p.specs /\ (Excused(n)' <=> Excused(n))  BY <2>1, <1>e
  <2>3. outcome = "passed" /\ q.strays = 0  BY <2>1, BodyPasses DEF Passing
  <2>4. q.state = "passed"  BY <2>1, <2>3 DEF StateAfter, Passing
  <2>q. QED  BY <2>1, <2>2, <2>3, <2>4 DEF Frame, Agree, Fields, Passing
<1>5. CASE sampleEnds(n) /\ MoreSamples(n)
  <2>1. /\ Frame(n, {"todo", "unwinding", "state", "ran", "sample"}) /\ p.up = "up" /\ p.main = "runSample"
        /\ q.state = "passed" /\ job' = job
        BY <1>5, SampleAgain DEF AtStart
  <2>2. q.specs = p.specs /\ (Excused(n)' <=> Excused(n))  BY <2>1, <1>e
  <2>q. QED  BY <2>1, <2>2 DEF Frame, Agree, Fields, Passing
<1>6. CASE sampleEnds(n) /\ ~MoreSamples(n)
  <2>1. /\ Frame(n, {"specs", "main", "suiteFailed"}) /\ p.up = "up" /\ job' = job
        /\ p.main = "runSample" /\ q.main = "completed" /\ q.specs = [p.specs EXCEPT ![p.i].state = p.state]
        /\ q.suiteFailed = (p.suiteFailed \/ p.state # "passed")
        BY <1>6, SampleLast
  <2> DEFINE ended == [spec EXCEPT !.state = p.state]
  <2>2. p.i \in DOMAIN p.specs /\ p.state = "passed" /\ ~Pending(spec)  BY <2>1 DEF ByNow, Passing, Runs
  <2>3. ended.state = "passed"
    <3>1. IsSpec(spec)  BY <2>2 DEF Lists
    <3>q. QED  BY <2>2, <3>1 DEF IsSpec
  <2>4. q.specs = [p.specs EXCEPT ![p.i] = ended]  BY <2>1
  <2> HIDE DEF ended
  <2>5. ~Failed(ended)  BY <2>3 DEF Failed
  <2>6. (\A j \in DOMAIN q.specs : ~Failed(q.specs[j])) /\ (Excused(n) => Excused(n)')
        BY <2>1, <2>2, <2>4, <2>5, PassingSpecs
  <2>q. QED  BY <2>1, <2>2, <2>6 DEF Frame, Agree, Fields, Passing
<1>7. CASE reportSpecDidComplete(n)
  <2>1. Frame(n, {"i", "main", "skipRemaining"}) /\ p.up = "up" /\ p.main = "completed" /\ q.main = "specs" /\ job' = job
        BY <1>7, DidComplete
  <2>2. q.specs = p.specs /\ (Excused(n)' <=> Excused(n))  BY <2>1, <1>e
  <2>3. ~q.skipRemaining
    <3> DEFINE skip == p.skipRemaining \/ (Failed(spec) /\ job.conf[n].failFast)
    <3>1. node' = [node EXCEPT ![n].i = @ + 1, ![n].main = "specs", ![n].skipRemaining = skip]
          BY <1>7 DEF reportSpecDidComplete
    <3>2. p.i \in DOMAIN p.specs  BY <2>1 DEF ByNow
    <3>3. ~skip  BY <3>2 DEF Passing
    <3>4. IsProc(p) /\ n \in DOMAIN node  BY DEF Procs
    <3> HIDE DEF skip
    <3>5. q.skipRemaining = skip  BY <3>1, <3>4 DEF IsProc, Fields
    <3>q. QED  BY <3>3, <3>5
  <2>q. QED  BY <2>1, <2>2, <2>3 DEF Frame, Agree, Fields, Passing
<1>q. QED  BY <1>1, <1>2, <1>3, <1>4, <1>5, <1>6, <1>7, <1>n

\* The AfterSuite and the end.
LEMMA SmoothAfter ==
    ASSUME Shape, NEW n \in Nodes, Passing(n), ~Wrong, Finish(n, "main")
    PROVE  Smooth(n)'
<1> USE DEF Shape
<1> DEFINE p == node[n]
           q == node'[n]
           g == "main"
<1>g. g \in {"main", "handler"}  OBVIOUS
<1>e. ASSUME NEW F, Frame(n, F), "specs" \notin F, job' = job
      PROVE  q.specs = p.specs /\ (Excused(n)' <=> Excused(n))
  <2>1. q.specs = p.specs  BY <1>e DEF Frame, Agree, Fields
  <2>q. QED  BY <1>e, <2>1, ExcusedSame
<1>u. ASSUME q.up = "up", Passing(n)' PROVE Smooth(n)'  BY <1>u DEF Smooth
<1>1. CASE runAfterSuite(n, g) /\ job.suite.afterSuite = "none"
  <2>1. Frame(n, {"main"}) /\ p.up = "up" /\ q.main = "end" /\ job' = job  BY <1>1, <1>g, NoAfterSuite
  <2>2. q.specs = p.specs /\ (Excused(n)' <=> Excused(n))  BY <2>1, <1>e
  <2>3. q.up = "up" /\ Passing(n)'  BY <2>1, <2>2 DEF Frame, Agree, Fields, Passing
  <2>q. QED  BY <1>u, <2>3
<1>2. CASE runAfterSuite(n, g) /\ job.suite.afterSuite # "none"
  <2>1. PICK outcome :
            /\ Frame(n, {"failer", "after", "main", "strays"}) /\ p.up = "up" /\ job' = job
            /\ BodyRan(n, outcome) /\ q.failer = "passed" /\ q.after = outcome /\ q.main = AfterBodyA(n)
        BY <1>2, <1>g, RunAfter
  <2>2. q.specs = p.specs /\ (Excused(n)' <=> Excused(n))  BY <2>1, <1>e
  <2>3. outcome = "passed" /\ q.strays = 0  BY <2>1, BodyPasses DEF Passing
  <2>4. q.main \in {"reportAfter", "waitForOthers", "runAfterB"}  BY <2>1 DEF AfterBodyA
  <2>5. q.up = "up" /\ Passing(n)'  BY <2>1, <2>2, <2>3, <2>4 DEF Frame, Agree, Fields, Passing
  <2>q. QED  BY <1>u, <2>5
<1>3. CASE waitUntilOtherNodesAreDone(n, g)
  <2>1. Frame(n, {"main"}) /\ p.up = "up" /\ p.main = "waitForOthers" /\ q.main = "runAfterB" /\ job' = job
        BY <1>3, <1>g, OthersAreDone
  <2>2. q.specs = p.specs /\ (Excused(n)' <=> Excused(n))  BY <2>1, <1>e
  <2>3. q.up = "up" /\ Passing(n)'  BY <2>1, <2>2 DEF Frame, Agree, Fields, Passing
  <2>q. QED  BY <1>u, <2>3
<1>4. CASE runAfterB(n, g)
  <2>1. PICK outcome :
            /\ Frame(n, {"failer", "after", "main", "tornDown", "strays"}) /\ p.up = "up" /\ p.main = "runAfterB" /\ job' = job
            /\ BodyRan(n, outcome) /\ q.failer = "passed" /\ q.after = AfterAfterB(n, outcome) /\ q.main = "reportAfter"
        BY <1>4, <1>g, RunAfterB
  <2>2. q.specs = p.specs /\ (Excused(n)' <=> Excused(n))  BY <2>1, <1>e
  <2>3. outcome = "passed" /\ q.strays = 0  BY <2>1, BodyPasses DEF Passing
  <2>4. q.after = "passed"  BY <2>1, <2>3 DEF AfterAfterB, Passing
  <2>5. q.up = "up" /\ Passing(n)'  BY <2>1, <2>2, <2>3, <2>4 DEF Frame, Agree, Fields, Passing
  <2>q. QED  BY <1>u, <2>5
<1>5. CASE reportAfterSuite(n, g)
  <2>1. /\ Frame(n, {"main", "passed"}) /\ p.up = "up" /\ p.main = "reportAfter" /\ q.main = "end" /\ job' = job
        /\ q.passed = (p.after = "passed" /\ p.passed)
        BY <1>5, <1>g, ReportAfter
  <2>2. q.specs = p.specs /\ (Excused(n)' <=> Excused(n))  BY <2>1, <1>e
  <2>3. ~q.passed => ~p.passed  BY <2>1 DEF Passing
  <2>4. q.up = "up" /\ Passing(n)'  BY <2>1, <2>2, <2>3 DEF Frame, Agree, Fields, Passing
  <2>q. QED  BY <1>u, <2>4
<1>6. CASE reportSuiteDidEnd(n, g)
  <2>1. Frame(n, {"main"}) /\ p.up = "up" /\ q.main = "exit" /\ job' = job  BY <1>6, <1>g, DidEnd
  <2>2. q.specs = p.specs /\ (Excused(n)' <=> Excused(n))  BY <2>1, <1>e
  <2>3. q.up = "up" /\ Passing(n)'  BY <2>1, <2>2 DEF Frame, Agree, Fields, Passing
  <2>q. QED  BY <1>u, <2>3
<1>7. CASE Exits(n, g)
  <2>1. Frame(n, {"up", "code"}) /\ p.up = "up" /\ q.up = "gone" /\ q.code = SuiteRun(p) /\ job' = job
        BY <1>7, <1>g, Exit
  <2>2. Excused(n)' <=> Excused(n)  BY <2>1, <1>e
  <2>3. SuiteRun(p) \in {0, FocusExitCode} \/ Excused(n)  BY DEF SuiteRun, Passing
  <2>q. QED  BY <2>1, <2>2, <2>3 DEF Smooth
<1>q. QED  BY <1>1, <1>2, <1>3, <1>4, <1>5, <1>6, <1>7 DEF Finish

\* Every step of a process, when nothing goes wrong.
LEMMA SmoothOwn ==
    ASSUME Shape, SharedInv, DataGiven, ~ToldTooLate', job.mode # "gotest", NEW n \in Nodes, ProcVerdict(n), ~cli.typed,
           Smooth(n), ~Wrong, OwnStep(n)
    PROVE  Smooth(n)' /\ node[n].up = "up"
<1> USE DEF Shape
<1> DEFINE p == node[n]
           q == node'[n]
<1>0. p.up = "up"
  <2>1. CASE Main(n)  BY <2>1, MainUp
  <2>2. CASE Finish(n, "main") \/ Handler(n) \/ StrayFails(n) \/ Crash(n)  BY <2>2, RestUp
  <2>q. QED  BY <2>1, <2>2 DEF OwnStep
<1>1. Passing(n) /\ Lists(n) /\ ByNow(p) /\ n \in NodesOfJob /\ Undisturbed(p)  BY <1>0 DEF Smooth, ProcVerdict
<1>e. ASSUME NEW F, Frame(n, F), "specs" \notin F, job' = job
      PROVE  q.specs = p.specs /\ (Excused(n)' <=> Excused(n))
  <2>1. q.specs = p.specs  BY <1>e DEF Frame, Agree, Fields
  <2>q. QED  BY <1>e, <2>1, ExcusedSame
<1>u. ASSUME q.up = "up", Passing(n)' PROVE Smooth(n)'  BY <1>u DEF Smooth
<1>2. CASE \/ reportSuiteWillBegin(n) \/ runBeforeSuite(n) \/ runA(n) \/ postA(n) \/ waitForA(n) \/ askAlive(n) \/ runB(n)
           \/ reportBeforeSuite(n)
      BY <1>0, <1>1, <1>2, <1>u, SmoothBefore
<1>3. CASE runSpecs(n) \/ runSample(n) \/ sampleEnds(n) \/ reportSpecDidComplete(n)
      BY <1>0, <1>1, <1>3, <1>u, SmoothSpecs
<1>4. CASE blockForeverIfInterrupted(n)
  <2>1. /\ Frame(n, {"main"}) /\ p.up = "up" /\ job' = job /\ q.main = IF p.interrupted THEN "blocked" ELSE "after"
        BY <1>4, Blocks
  <2>2. q.specs = p.specs /\ (Excused(n)' <=> Excused(n))  BY <2>1, <1>e
  <2>3. q.main = "after"  BY <1>1, <2>1 DEF Passing
  <2>4. q.up = "up" /\ Passing(n)'  BY <1>1, <2>1, <2>2, <2>3 DEF Frame, Agree, Fields, Passing
  <2>q. QED  BY <1>0, <1>u, <2>4
<1>5. CASE GoTestEnds(n)  BY <1>5 DEF GoTestEnds
<1>6. CASE Finish(n, "main")  BY <1>0, <1>1, <1>6, SmoothAfter
<1>7. CASE registerForInterrupts(n)
  <2>1. Frame(n, {"handler"}) /\ p.up = "up" /\ job' = job  BY <1>7, Registers
  <2>2. q.specs = p.specs /\ (Excused(n)' <=> Excused(n))  BY <2>1, <1>e
  <2>3. SharesSetup' <=> SharesSetup  BY <2>1 DEF SharesSetup
  <2>4. q.up = "up" /\ Passing(n)'  BY <1>1, <2>1, <2>2, <2>3 DEF Frame, Agree, Fields, Passing
  <2>q. QED  BY <1>0, <1>u, <2>4
<1>8. CASE markInterrupted(n)  BY <1>1, <1>8, Marked DEF Undisturbed
<1>9. CASE Finish(n, "handler")
  <2>1. p.handler \in {"after", "waitForOthers", "runAfterB", "reportAfter", "end", "exit"}

            BY <1>9 DEF Finish, runAfterSuite, waitUntilOtherNodesAreDone, runAfterB, reportAfterSuite,
                reportSuiteDidEnd, Exits, AtIn
  <2>q. QED  BY <1>1, <2>1 DEF Undisturbed
<1>10. CASE StrayFails(n)  BY <1>1, <1>10 DEF StrayFails, Passing
<1>11. CASE Crash(n)  BY <1>11, Crashes
<1>q. QED  BY <1>0, <1>2, <1>3, <1>4, <1>5, <1>6, <1>7, <1>8, <1>9, <1>10, <1>11 DEF OwnStep, Main, Handler

\* Only one step is about the data that the server keeps.
LEMMA DataKept ==
    ASSUME Shape, NEW n \in Nodes, OwnStep(n), ~postA(n)
    PROVE  remote'.beforeSuiteData = remote.beforeSuiteData
<1> USE DEF Shape
<1>1. ASSUME NEW g \in {"main", "handler"}, Finish(n, g) PROVE remote'.beforeSuiteData = remote.beforeSuiteData
  <2>1. CASE runAfterSuite(n, g) \/ waitUntilOtherNodesAreDone(n, g) \/ runAfterB(n, g) \/ Exits(n, g)
        BY <2>1 DEF runAfterSuite, waitUntilOtherNodesAreDone, runAfterB, Exits
  <2>2. CASE reportAfterSuite(n, g) \/ reportSuiteDidEnd(n, g)  BY <2>2, ReportingSteps
  <2>q. QED  BY <1>1, <2>1, <2>2 DEF Finish
<1>2. CASE Main(n)
  <2>1. CASE reportSuiteWillBegin(n) \/ reportBeforeSuite(n) \/ reportSpecDidComplete(n)  BY <2>1, ReportingSteps
  <2>2. CASE runBeforeSuite(n) \/ runA(n) \/ waitForA(n) \/ askAlive(n) \/ runB(n)
        BY <2>2 DEF runBeforeSuite, runA, waitForA, askAlive, runB
  <2>3. CASE runSpecs(n) \/ runSample(n) \/ sampleEnds(n) \/ blockForeverIfInterrupted(n) \/ GoTestEnds(n)
        BY <2>3 DEF runSpecs, runSample, sampleEnds, blockForeverIfInterrupted, GoTestEnds
  <2>q. QED  BY <1>2, <2>1, <2>2, <2>3 DEF Main
<1>3. CASE registerForInterrupts(n) \/ markInterrupted(n) \/ StrayFails(n) \/ Crash(n)
      BY <1>3 DEF registerForInterrupts, markInterrupted, StrayFails, Crash
<1>q. QED  BY <1>1, <1>2, <1>3 DEF OwnStep, Handler

\* Where node 1 has not given its data yet.
BeforeData == {"begin", "before", "postA"}

\* It gives them before it goes on.
LEMMA GivesFirst ==
    ASSUME Shape, NEW n \in Nodes, n = 1, SharesSetup, job.mode # "gotest", Passing(n), Undisturbed(node[n]), ~Wrong,
           OwnStep(n), ~postA(n), node'[n].up = "gone" \/ node'[n].main \notin BeforeData
    PROVE  node[n].main \notin BeforeData
<1> USE DEF Shape
<1> DEFINE p == node[n]
           q == node'[n]
<1>1. CASE reportSuiteWillBegin(n)  BY <1>1, WillBegin DEF Frame, Agree, Fields, BeforeData
<1>2. CASE runBeforeSuite(n)  BY <1>2 DEF runBeforeSuite, SharesSetup, Passing
<1>3. CASE runA(n)
  <2>1. PICK outcome : /\ Frame(n, {"failer", "before", "main", "data", "strays"}) /\ p.up = "up"
                       /\ q.main = MainAfterA(outcome)
        BY <1>3, RunA
  <2>2. q.main = "postA" /\ q.up = "up"  BY <2>1 DEF MainAfterA, SharesSetup, Frame, Agree, Fields
  <2>q. QED  BY <2>2 DEF BeforeData
<1>4. CASE waitForA(n) \/ askAlive(n) \/ runB(n) \/ reportBeforeSuite(n) \/ runSpecs(n) \/ runSample(n) \/ sampleEnds(n)
           \/ reportSpecDidComplete(n) \/ blockForeverIfInterrupted(n)
      BY <1>4 DEF waitForA, askAlive, runB, reportBeforeSuite, runSpecs, runSample, sampleEnds, reportSpecDidComplete,
                  blockForeverIfInterrupted, At, BeforeData
<1>5. CASE GoTestEnds(n)  BY <1>5 DEF GoTestEnds
<1>6. CASE Finish(n, "main")

          BY <1>6 DEF Finish, runAfterSuite, waitUntilOtherNodesAreDone, runAfterB, reportAfterSuite,
              reportSuiteDidEnd, Exits,
                  AtIn, BeforeData
<1>7. CASE registerForInterrupts(n)
  <2>1. q.main = p.main /\ q.up = "up"  BY <1>7, Registers DEF Frame, Agree, Fields
  <2>q. QED  BY <2>1
<1>8. CASE markInterrupted(n)
  <2>1. q.main = p.main /\ q.up = "up"  BY <1>8, Marked DEF Frame, Agree, Fields
  <2>q. QED  BY <2>1
<1>9. CASE Finish(n, "handler")
  <2>1. p.handler \in {"after", "waitForOthers", "runAfterB", "reportAfter", "end", "exit"}

            BY <1>9 DEF Finish, runAfterSuite, waitUntilOtherNodesAreDone, runAfterB, reportAfterSuite,
                reportSuiteDidEnd, Exits, AtIn
  <2>q. QED  BY <2>1 DEF Undisturbed
<1>10. CASE StrayFails(n)  BY <1>10 DEF StrayFails, Passing
<1>11. CASE Crash(n)  BY <1>11, Crashes
<1>q. QED  BY <1>1, <1>2, <1>3, <1>4, <1>5, <1>6, <1>7, <1>8, <1>9, <1>10, <1>11 DEF OwnStep, Main, Handler

LEMMA DataStep ==
    ASSUME Shape, SharedInv, DataGiven, ~ToldTooLate', job.mode # "gotest", NEW n \in Nodes, ProcVerdict(n), ~cli.typed,
           Smooth(n), ~Wrong, OwnStep(n)
    PROVE  DataGiven'
<1> USE DEF Shape
<1>0. job' = job  BY OwnStepShape
<1>s. SharesSetup' <=> SharesSetup  BY <1>0 DEF SharesSetup
<1>u. node[n].up = "up"  BY SmoothOwn
<1>1. Passing(n) /\ Undisturbed(node[n])  BY <1>u DEF Smooth, ProcVerdict
<1> SUFFICES ASSUME SharesSetup
             PROVE  /\ remote'.beforeSuiteData.state \in {"pending", "passed"}
                    /\ (node'[1].up = "gone" \/ (node'[1].up = "up" /\ node'[1].main \notin BeforeData)) => SharedData'
    BY <1>s DEF DataGiven, BeforeData
<1>2. CASE postA(n)
  <2>1. /\ Frame(n, {"main"}) /\ node[n].main = "postA"  BY <1>2, PostA
  <2>2. node[n].before = "passed"  BY <1>1, <2>1 DEF Passing
  <2>3. remote' = [remote EXCEPT !.beforeSuiteData = RemoteBeforeSuiteData("passed", node[n].data)]
        BY <1>2, <2>2 DEF postA
  <2>4. remote'.beforeSuiteData = RemoteBeforeSuiteData("passed", node[n].data)
        BY <2>3 DEF IsRemote, RemoteFields
  <2>5. remote'.beforeSuiteData.state = "passed"  BY <2>4 DEF RemoteBeforeSuiteData
  <2>q. QED  BY <2>5 DEF SharedData
<1>3. CASE ~postA(n)
  <2>1. remote'.beforeSuiteData = remote.beforeSuiteData  BY <1>3, DataKept
  <2>2. SharedData' <=> SharedData  BY <2>1 DEF SharedData
  <2>3. CASE n # 1
    <3>1. node'[1] = node[1]
      <4>1. 1 \in Nodes \ {n}  BY <2>3, NodeAssumption DEF Nodes
      <4>2. \A k \in Nodes \ {n} : node'[k] = node[k]
        <5>1. CASE Main(n)  BY <5>1, MainUp
        <5>2. CASE Finish(n, "main") \/ Handler(n) \/ StrayFails(n) \/ Crash(n)  BY <5>2, RestUp
        <5>q. QED  BY <5>1, <5>2 DEF OwnStep
      <4>q. QED  BY <4>1, <4>2
    <3>q. QED  BY <2>1, <2>2, <3>1 DEF DataGiven, BeforeData
  <2>4. CASE n = 1
    <3>1. (node'[n].up = "gone" \/ node'[n].main \notin BeforeData) => node[n].main \notin BeforeData
          BY <1>1, <1>3, <2>4, GivesFirst
    <3>q. QED  BY <1>u, <2>1, <2>2, <2>4, <3>1 DEF DataGiven, BeforeData
  <2>q. QED  BY <2>3, <2>4
<1>q. QED  BY <1>2, <1>3

\* Processes that were not started, and a server that knows nothing.
LEMMA SmoothAfresh ==
    ASSUME AllOff, remote' = NewRemote
    PROVE  DataGiven' /\ \A n \in Nodes : Smooth(n)'
<1>1. \A n \in Nodes : node'[n] = Off  BY AllOffProcs
<1>2. 1 \in Nodes  BY NodeAssumption DEF Nodes
<1>3. remote'.beforeSuiteData.state = "pending"  BY NewRemoteData
<1>q. QED  BY <1>1, <1>2, <1>3, OffIsProc DEF DataGiven, Smooth

\* A process is started in a suite whose tree does not panic.
LEMMA SmoothStart ==
    ASSUME Shape, JobInv, DataGiven, AtRisk, NEW n \in Nodes, Start(n), ~Wrong, \A k \in Nodes : Smooth(k)
    PROVE  DataGiven' /\ \A k \in Nodes : Smooth(k)'
<1> USE DEF Shape
<1> DEFINE q == node'[n]
<1>1. /\ job' = job /\ remote' = remote /\ n <= job.total /\ node[n].up = "off"
      /\ \A k \in Nodes \ {n} : node'[k] = node[k]
      /\ Agree(Off, q, {"up", "specs", "focused"}) /\ q.up = "up"
      /\ q.specs = generateSpecs(job.suite, job.conf[n], job.all[n])
      BY Starts DEF Frame, AtRisk
<1>2. /\ q.main = "begin" /\ q.failer = "passed" /\ q.strays = 0 /\ ~q.interrupted /\ ~q.skipRemaining
      /\ q.before = "none" /\ q.after = "none" /\ ~q.suiteFailed /\ q.passed
      BY <1>1, OffIsProc DEF Agree, Fields
<1>3. \A j \in DOMAIN q.specs : ~Failed(q.specs[j])
  <2> DEFINE suite == job.suite
             conf == job.conf[n]
             all == job.all[n]
             length == Len(suite.subjects)
             own == generateSpecs(suite, conf, all)
             r == ShareOf(length, conf)
  <2>0. n \in NodesOfJob /\ job.mode # "gotest"  BY <1>1, NodeAssumption DEF NodesOfJob, Nodes, AtRisk
  <2>1. job.total \in Nat /\ job.total > 0 /\ n \in 1 .. job.total  BY <2>0, NodeAssumption DEF NodesOfJob
  <2>2. DOMAIN suite.subjects = 1 .. length /\ length \in Nat /\ IsListing(suite, all)  BY <2>0, <2>1 DEF JobInv
  <2>3. conf.total \in Nat \ {0} /\ (conf.total > 1 => conf.node \in 1 .. conf.total)  BY <2>0, <2>1 DEF JobInv
  <2>4. q.specs = own  BY <1>1
  <2> HIDE DEF suite, conf, all, length, own
  <2>5. DOMAIN own = 1 .. r.count /\ \A j \in 1 .. r.count : own[j].state \in {"invalid", "pending", "skipped"}
        BY <2>2, <2>3, OwnSpecs DEF own
  <2>q. QED  BY <2>4, <2>5 DEF Failed
<1>4. Passing(n)'  BY <1>2, <1>3 DEF Passing
<1>5. Smooth(n)'  BY <1>1, <1>4 DEF Smooth
<1>6. ASSUME NEW k \in Nodes \ {n} PROVE Smooth(k)'
  <2>1. node'[k] = node[k] /\ Smooth(k)  BY <1>1
  <2>q. QED  BY <1>1, <2>1 DEF Smooth, Passing, Excused, SharesSetup
<1>7. DataGiven'
  <2>1. node'[1] = node[1] \/ (1 = n /\ q.up = "up" /\ q.main = "begin")
        BY <1>1, <1>2, NodeAssumption DEF Nodes
  <2>q. QED  BY <1>1, <2>1 DEF DataGiven, SharesSetup, SharedData
<1>q. QED  BY <1>5, <1>6, <1>7

\* A setup that failed stays so.
LEMMA FailedStays ==
    ASSUME Shape, NEW n \in Nodes, OwnStep(n), ByNow(node[n]), node[n].before = "failed"
    PROVE  node'[n].before = "failed"
<1> USE DEF Shape
<1>k. ASSUME NEW F, Frame(n, F), "before" \notin F PROVE node'[n].before = "failed"  BY <1>k DEF Frame, Agree, Fields
<1>1. ASSUME NEW g \in {"main", "handler"}, Finish(n, g) PROVE node'[n].before = "failed"
  <2>1. CASE runAfterSuite(n, g) /\ job.suite.afterSuite = "none"  BY <1>k, <2>1, NoAfterSuite
  <2>2. CASE runAfterSuite(n, g) /\ job.suite.afterSuite # "none"  BY <1>k, <2>2, RunAfter
  <2>3. CASE waitUntilOtherNodesAreDone(n, g)  BY <1>k, <2>3, OthersAreDone
  <2>4. CASE runAfterB(n, g)  BY <1>k, <2>4, RunAfterB
  <2>5. CASE reportAfterSuite(n, g)  BY <1>k, <2>5, ReportAfter
  <2>6. CASE reportSuiteDidEnd(n, g)  BY <1>k, <2>6, DidEnd
  <2>7. CASE Exits(n, g)  BY <1>k, <2>7, Exit
  <2>q. QED  BY <1>1, <2>1, <2>2, <2>3, <2>4, <2>5, <2>6, <2>7 DEF Finish
<1>2. CASE runBeforeSuite(n) \/ runA(n) \/ waitForA(n) \/ askAlive(n) \/ runB(n)
      BY <1>2 DEF runBeforeSuite, runA, waitForA, askAlive, runB, At, ByNow
<1>3. CASE reportSuiteWillBegin(n)  BY <1>k, <1>3, WillBegin
<1>4. CASE postA(n)  BY <1>k, <1>4, PostA
<1>5. CASE reportBeforeSuite(n)  BY <1>k, <1>5, ReportBefore
<1>6. CASE runSpecs(n) \/ sampleEnds(n)  BY <1>k, <1>6, StartSampleFrames
<1>7. CASE runSample(n)  BY <1>k, <1>7, RunSample
<1>8. CASE reportSpecDidComplete(n)  BY <1>k, <1>8, DidComplete
<1>9. CASE blockForeverIfInterrupted(n)  BY <1>k, <1>9, Blocks
<1>10. CASE GoTestEnds(n)  BY <1>k, <1>10, GoTestExit
<1>11. CASE registerForInterrupts(n)  BY <1>k, <1>11, Registers
<1>12. CASE markInterrupted(n)  BY <1>k, <1>12, Marked
<1>13. CASE StrayFails(n)  BY <1>k, <1>13, StrayEnds
<1>14. CASE Crash(n)  BY <1>k, <1>14, Crashes
<1>q. QED
  BY <1>1, <1>2, <1>3, <1>4, <1>5, <1>6, <1>7, <1>8, <1>9, <1>10, <1>11, <1>12, <1>13, <1>14
  DEF OwnStep, Main, Handler

\* A process of the suite takes a step, or the command does without them.
AtWork ==
    \/ \E n \in Nodes : OwnStep(n) \/ Start(n) \/ Wait(n)
    \/ node' = node /\ remote'.beforeSuiteData = remote.beforeSuiteData

\* Nothing repairs what the server said too late.
LEMMA LateStays ==
    ASSUME Shape, SharedInv, ProcsVerdict, job.mode # "gotest", ToldTooLate, job' = job, AtWork
    PROVE  ToldTooLate'
<1> USE DEF Shape
<1>1. PICK k \in NodesOfJob \ {1} : node[k].before = "failed"  BY DEF ToldTooLate
<1>2. k \in Nodes /\ 1 \in Nodes /\ node[1].up = "gone"  BY NodeAssumption DEF NodesOfJob, Nodes, ToldTooLate
<1> SUFFICES /\ remote'.beforeSuiteData = remote.beforeSuiteData
             /\ node'[1].up = "gone" /\ node'[k].before = "failed"
    BY <1>1 DEF ToldTooLate, NodesOfJob
<1>3. ASSUME NEW n \in Nodes, OwnStep(n)
      PROVE  /\ remote'.beforeSuiteData = remote.beforeSuiteData
             /\ node'[1].up = "gone" /\ node'[k].before = "failed"
  <2>1. node[n].up = "up" /\ \A j \in Nodes \ {n} : node'[j] = node[j]
    <3>1. CASE Main(n)  BY <3>1, MainUp
    <3>2. CASE Finish(n, "main") \/ Handler(n) \/ StrayFails(n) \/ Crash(n)  BY <3>2, RestUp
    <3>q. QED  BY <1>3, <3>1, <3>2 DEF OwnStep
  <2>2. n # 1 /\ node'[1] = node[1]  BY <1>2, <2>1
  <2>3. ~postA(n)  BY <2>2 DEF postA, At, SharedInv, ProcShared
  <2>4. remote'.beforeSuiteData = remote.beforeSuiteData  BY <1>3, <2>3, DataKept
  <2>5. node'[k].before = "failed"
    <3>1. CASE k = n
      <4>1. ByNow(node[n])  BY <2>1 DEF ProcsVerdict, ProcVerdict
      <4>q. QED  BY <1>1, <1>3, <3>1, <4>1, FailedStays
    <3>2. CASE k # n  BY <1>1, <1>2, <2>1, <3>2
    <3>q. QED  BY <3>1, <3>2
  <2>q. QED  BY <1>2, <2>2, <2>4, <2>5
<1>4. ASSUME NEW n \in Nodes, Start(n)
      PROVE  /\ remote'.beforeSuiteData = remote.beforeSuiteData
             /\ node'[1].up = "gone" /\ node'[k].before = "failed"
  <2>1. node[n].up = "off" /\ remote' = remote /\ \A j \in Nodes \ {n} : node'[j] = node[j]
        BY <1>4, Starts DEF Frame
  <2>2. node[n].before = "none"  BY <2>1 DEF SharedInv, ProcShared
  <2>q. QED  BY <1>1, <1>2, <2>1, <2>2
<1>5. ASSUME NEW n \in Nodes, Wait(n)
      PROVE  /\ remote'.beforeSuiteData = remote.beforeSuiteData
             /\ node'[1].up = "gone" /\ node'[k].before = "failed"
  <2>1. Frame(n, {"reaped"}) /\ remote' = remote  BY <1>5, Waited
  <2>2. \A j \in Nodes : node'[j].up = node[j].up /\ node'[j].before = node[j].before
        BY <2>1 DEF Frame, Agree, Fields
  <2>q. QED  BY <1>1, <1>2, <2>1, <2>2
<1>q. QED  BY <1>1, <1>2, <1>3, <1>4, <1>5 DEF AtWork

\* The command is at its suite.
LEMMA WorkGoesOn ==
    ASSUME Shape, ~Wrong, [Next]_vars, SameSuite \/ AwaitResult \/ \E k \in Nodes : Completion(k)
    PROVE  AtWork
<1>0. IsCli(cli) /\ IsRemote(remote)  BY DEF Shape
<1>1. CASE Interrupt  BY <1>1 DEF Interrupt
<1>2. CASE NextSuite \/ SuiteRan
  <2>1. cli.pc \in {"suites", "suiteRan"} /\ cli'.pc # cli.pc
        BY <1>0, <1>2 DEF NextSuite, SuiteRan, IsCli, CliFields
  <2>2. ~AwaitResult /\ ~\E k \in Nodes : Completion(k)  BY <2>1 DEF AwaitResult, Completion
  <2>q. QED  BY <2>1, <2>2 DEF SameSuite
<1>3. CASE AwaitResult \/ UNCHANGED <<job, remote, node>>
      BY <1>0, <1>3 DEF AwaitResult, IsRemote, RemoteFields, AtWork
<1>q. QED  BY <1>1, <1>2, <1>3, NextKinds DEF AtWork

\* The processes and the data, whatever happens.
LEMMA SmoothKinds ==
    ASSUME Shape, SharedInv, JobInv, ProcsVerdict, ~cli.typed, ~Wrong, [Next]_vars, AtRisk',
           AtRisk => DataGiven /\ \A n \in Nodes : Smooth(n)
    PROVE  DataGiven' /\ \A n \in Nodes : Smooth(n)'
<1> USE DEF Shape
<1>k. ASSUME job' = job, NEW k \in Nodes, node'[k] = node[k], Smooth(k) PROVE Smooth(k)'
      BY <1>k DEF Smooth, Passing, Excused, SharesSetup
<1>r. ASSUME job' = job, AtWork PROVE AtRisk /\ DataGiven /\ \A n \in Nodes : Smooth(n)  BY <1>r, LateStays DEF AtRisk
<1>1. ASSUME NEW n \in Nodes, OwnStep(n), cli' = cli PROVE DataGiven' /\ \A k \in Nodes : Smooth(k)'
  <2>1. job' = job  BY <1>1, OwnStepShape
  <2>2. AtRisk /\ DataGiven /\ Smooth(n) /\ (\A k \in Nodes : Smooth(k)) /\ job.mode # "gotest"
        BY <1>1, <1>r, <2>1 DEF AtRisk, AtWork
  <2>t. ~ToldTooLate'  BY DEF AtRisk
  <2>3. ProcVerdict(n)  BY <2>2 DEF ProcsVerdict
  <2>4. Smooth(n)'  BY <1>1, <2>2, <2>3, <2>t, SmoothOwn
  <2>5. DataGiven'  BY <1>1, <2>2, <2>3, <2>t, DataStep
  <2>6. \A k \in Nodes \ {n} : node'[k] = node[k]
    <3>1. CASE Main(n)  BY <3>1, MainUp
    <3>2. CASE Finish(n, "main") \/ Handler(n) \/ StrayFails(n) \/ Crash(n)  BY <3>2, RestUp
    <3>q. QED  BY <1>1, <3>1, <3>2 DEF OwnStep
  <2>7. ASSUME NEW k \in Nodes PROVE Smooth(k)'
    <3>1. CASE k = n  BY <2>4, <3>1
    <3>2. CASE k # n
      <4>1. node'[k] = node[k] /\ Smooth(k)  BY <2>2, <2>6, <3>2
      <4>q. QED  BY <1>k, <2>1, <4>1
    <3>q. QED  BY <3>1, <3>2
  <2>q. QED  BY <2>5, <2>7
<1>2. ASSUME NEW n \in Nodes, Start(n) PROVE DataGiven' /\ \A k \in Nodes : Smooth(k)'
  <2>1. job' = job  BY <1>2, Starts
  <2>2. AtRisk /\ DataGiven /\ \A k \in Nodes : Smooth(k)  BY <1>2, <1>r, <2>1 DEF AtWork
  <2>q. QED  BY <1>2, <2>2, SmoothStart
<1>3. ASSUME NEW n \in Nodes, Wait(n) PROVE DataGiven' /\ \A k \in Nodes : Smooth(k)'
  <2>1. Frame(n, {"reaped"}) /\ job' = job /\ remote' = remote /\ node[n].up = "gone"  BY <1>3, Waited
  <2>2. DataGiven /\ \A k \in Nodes : Smooth(k)  BY <1>3, <1>r, <2>1 DEF AtWork
  <2>3. /\ node'[n].up = "gone" /\ node'[n].code = node[n].code /\ node'[n].specs = node[n].specs
        /\ node'[n].main = node[n].main
        BY <2>1 DEF Frame, Agree, Fields
  <2>4. Smooth(n)'
    <3>1. Excused(n)' <=> Excused(n)  BY <2>1, <2>3, ExcusedSame
    <3>2. Smooth(n)  BY <2>2
    <3>q. QED  BY <2>1, <2>3, <3>1, <3>2 DEF Smooth
  <2>5. ASSUME NEW k \in Nodes \ {n} PROVE Smooth(k)'
    <3>1. node'[k] = node[k] /\ Smooth(k)  BY <2>1, <2>2 DEF Frame
    <3>q. QED  BY <1>k, <2>1, <3>1
  <2>6. DataGiven'
    <3>1. /\ node'[1].up = "gone" <=> node[1].up = "gone"
          /\ node'[1].up = "up" <=> node[1].up = "up"
          /\ node'[1].main = node[1].main
          BY <2>1, <2>3, NodeAssumption DEF Frame, Nodes
    <3>q. QED  BY <2>1, <2>2, <3>1 DEF DataGiven, SharesSetup, SharedData
  <2>q. QED  BY <2>4, <2>5, <2>6
<1>4. CASE Interrupt  BY <1>4, Interrupts
<1>5. CASE Run(SuiteOf(cli.order[cli.next]))  BY <1>5, NewJob, SmoothAfresh
<1>6. CASE SuiteRan
  <2>1. AllOff /\ remote' = NewRemote  BY <1>6 DEF SuiteRan, AllOff
  <2>q. QED  BY <2>1, SmoothAfresh
<1>7. CASE AwaitResult \/ UNCHANGED <<job, remote, node>>
  <2>1. job' = job /\ node' = node /\ remote'.beforeSuiteData = remote.beforeSuiteData
        BY <1>7 DEF AwaitResult, IsRemote, RemoteFields
  <2>2. DataGiven /\ \A k \in Nodes : Smooth(k)  BY <1>3, <1>r, <2>1 DEF AtWork
  <2>3. \A k \in Nodes : Smooth(k)'  BY <1>k, <2>1, <2>2
  <2>4. DataGiven'  BY <2>1, <2>2 DEF DataGiven, SharesSetup, SharedData
  <2>q. QED  BY <2>3, <2>4
<1>q. QED  BY <1>1, <1>2, <1>3, <1>4, <1>5, <1>6, <1>7, NextKinds

\* The command merges the result of a process that failed only when it was
\* excused.
LEMMA ExcusedKinds ==
    ASSUME Shape, SharedInv, OrderInv, CliVerdict, ProcsVerdict, ~Wrong, [Next]_vars, AtRisk',
           AtRisk => FailuresExcused /\ \A n \in Nodes : Smooth(n)
    PROVE  FailuresExcused'
<1> USE DEF Shape
<1>0. IsCli(cli) /\ NodesOfJob \subseteq Nodes  BY NodeAssumption DEF NodesOfJob, Nodes
<1>k. Elsewhere \/ SameSuite \/ NextSuite \/ AwaitResult \/ \E n \in Nodes : Completion(n)  BY CommandKinds
<1>r. ASSUME job' = job, SameSuite \/ AwaitResult \/ \E n \in Nodes : Completion(n)
      PROVE  FailuresExcused /\ \A n \in Nodes : Smooth(n)
      BY <1>r, WorkGoesOn, LateStays DEF AtRisk
<1>s. ASSUME job' = job, NEW n \in NodesOfJob, node[n].up = "gone", Excused(n),
             SameSuite \/ AwaitResult \/ \E k \in Nodes : Completion(k)
      PROVE  node'[n].up = "gone" /\ Excused(n)'
  <2>1. Agree(node[n], node'[n], {"reaped"})  BY <1>0, <1>s, GoneStays
  <2>2. node'[n].up = "gone" /\ node'[n].specs = node[n].specs  BY <1>s, <2>1 DEF Agree, Fields
  <2>q. QED  BY <1>0, <1>s, <2>2, ExcusedSame
<1> SUFFICES ASSUME cli'.pc \in {"running", "result", "suiteRan"}, cli'.compile[cli'.next] = "ok", ~cli'.suiteRes.passed
             PROVE  \E n \in NodesOfJob' : node'[n].up = "gone" /\ Excused(n)'
    BY DEF FailuresExcused
<1>1. CASE Elsewhere  BY <1>1 DEF Elsewhere
<1>2. CASE SameSuite
  <2>1. cli'.pc = cli.pc /\ cli'.next = cli.next /\ cli'.suiteRes = cli.suiteRes /\ job' = job  BY <1>2 DEF SameSuite
  <2>2. cli'.compile[cli.next] = cli.compile[cli.next]  BY <1>2, <2>1 DEF SameSuite, OrderInv, CliVerdict
  <2>3. PICK n \in NodesOfJob : node[n].up = "gone" /\ Excused(n)  BY <1>2, <1>r, <2>1, <2>2 DEF FailuresExcused
  <2>q. QED  BY <1>2, <1>s, <2>1, <2>3 DEF NodesOfJob
<1>3. CASE NextSuite
  <2>1. \/ cli' = [cli EXCEPT !.pc = "running", !.suiteRes = PassingRunResult, !.collected = {}]
        \/ /\ cli.compile[cli.next] = "error"
           /\ cli' = [cli EXCEPT !.pc = "suiteRan", !.suiteRes = FailingRunResult]
        BY <1>3 DEF NextSuite
  <2>2. cli'.suiteRes = PassingRunResult \/ cli'.compile[cli'.next] = "error"  BY <1>0, <2>1 DEF IsCli, CliFields
  <2>q. QED  BY <2>2 DEF PassingRunResult
<1>4. CASE AwaitResult
  <2>1. /\ cli.pc = "result" /\ cli'.next = cli.next /\ cli'.compile = cli.compile /\ cli'.suiteRes = cli.suiteRes
        /\ job' = job
        BY <1>0, <1>4 DEF AwaitResult, IsCli, CliFields
  <2>2. PICK n \in NodesOfJob : node[n].up = "gone" /\ Excused(n)  BY <1>4, <1>r, <2>1 DEF FailuresExcused
  <2>q. QED  BY <1>4, <1>s, <2>1, <2>2 DEF NodesOfJob
<1>5. ASSUME NEW n \in Nodes, Completion(n) PROVE \E k \in NodesOfJob' : node'[k].up = "gone" /\ Excused(k)'
  <2> DEFINE pc == IF Cardinality(cli.collected) + 1 < job.total THEN cli.pc
                   ELSE IF job.mode = "parallel" THEN "result" ELSE "suiteRan"
             res == Merge(cli.suiteRes, ResultOf(node[n]))
  <2>1. /\ cli.pc = "running" /\ n \in NodesOfJob
        /\ node[n].reaped \/ node[n].up = "failed"
        /\ cli' = [cli EXCEPT !.collected = cli.collected \cup {n}, !.suiteRes = res, !.pc = pc]
        /\ job' = job
        BY <1>0, <1>5 DEF Completion, Only, IsCli, CliFields, NodesOfJob
  <2>2. cli'.suiteRes = res
    <3> HIDE DEF pc, res
    <3>q. QED  BY <1>0, <2>1 DEF IsCli, CliFields
  <2>3. ~cli.suiteRes.passed \/ ~ResultOf(node[n]).passed
    <3>1. ~res.passed  BY <2>2
    <3>2. (cli.suiteRes.passed /\ ResultOf(node[n]).passed) => res.passed  BY DEF Merge
    <3>q. QED  BY <3>1, <3>2
  <2>4. CASE ~cli.suiteRes.passed
    <3>1. cli.compile[cli.next] = "ok"  BY <2>1 DEF CliVerdict
    <3>2. PICK k \in NodesOfJob : node[k].up = "gone" /\ Excused(k)  BY <1>5, <1>r, <2>1, <2>4, <3>1 DEF FailuresExcused
    <3>q. QED  BY <1>5, <1>s, <2>1, <3>2 DEF NodesOfJob
  <2>5. CASE ~ResultOf(node[n]).passed
    <3>1. Smooth(n)  BY <1>5, <1>r, <2>1
    <3>2. node[n].up = "gone"  BY <2>1, <3>1 DEF Smooth, SharedInv, ProcShared
    <3>3. node[n].code \notin {0, FocusExitCode}  BY <2>5, <3>2 DEF ResultOf
    <3>4. Excused(n)  BY <3>1, <3>2, <3>3 DEF Smooth
    <3>q. QED  BY <1>5, <1>s, <2>1, <3>2, <3>4 DEF NodesOfJob
  <2>q. QED  BY <2>3, <2>4, <2>5
<1>q. QED  BY <1>k, <1>1, <1>2, <1>3, <1>4, <1>5

LEMMA SmoothStep ==
    ASSUME Shape, SharedInv, JobInv, OrderInv, CliVerdict, ProcsVerdict, Spends, SmoothInv, [Next]_vars
    PROVE  SmoothInv'
<1> SUFFICES ASSUME NothingWrong'
             PROVE  ~cli'.typed /\ (AtRisk' => DataGiven' /\ FailuresExcused' /\ \A n \in Nodes : Smooth(n)')
    BY DEF SmoothInv
<1>1. NothingWrong /\ ~Wrong  BY SpendsStep
<1>2. ~cli.typed /\ (AtRisk => DataGiven /\ FailuresExcused /\ \A n \in Nodes : Smooth(n))  BY <1>1 DEF SmoothInv
<1>3. ~cli'.typed
  <2>1. ~Interrupt  BY <1>1 DEF Interrupt
  <2>q. QED  BY <1>2, <2>1, CommandKinds DEF Signals
<1>4. ASSUME AtRisk' PROVE DataGiven' /\ \A n \in Nodes : Smooth(n)'  BY <1>1, <1>2, <1>4, SmoothKinds
<1>5. ASSUME AtRisk' PROVE FailuresExcused'  BY <1>1, <1>2, <1>5, ExcusedKinds
<1>q. QED  BY <1>3, <1>4, <1>5

LEMMA SmoothInit ==
    ASSUME Init
    PROVE  Spends /\ SmoothInv
<1>1. PICK inv \in Invocations :
          /\ mayGoWrong = inv.mayGoWrong
          /\ cli = [inv |-> inv, pc |-> "start", order |-> <<>>, next |-> 1, compile |-> <<>>, compiled |-> {},
                    callback |-> FALSE, res |-> PassingRunResult, suiteRes |-> PassingRunResult, collected |-> {},
                    typed |-> FALSE, signalled |-> FALSE, interrupts |-> 0, code |-> 0]
      BY DEF Init
<1>2. cli.pc = "start" /\ cli.typed = FALSE /\ cli.inv = inv  BY <1>1
<1>3. Spends  BY <1>1, <1>2, InvocationAssumption DEF Spends
<1>4. remote = NewRemote /\ node = [n \in Nodes |-> Off] /\ 1 \in Nodes  BY NodeAssumption DEF Init, Nodes
<1>5. DataGiven  BY <1>4, OffIsProc, NewRemoteData DEF DataGiven
<1>6. \A n \in Nodes : Smooth(n)  BY <1>4, OffIsProc DEF Smooth
<1>7. FailuresExcused  BY <1>2 DEF FailuresExcused
<1>q. QED  BY <1>2, <1>3, <1>5, <1>6, <1>7 DEF SmoothInv

\* When all processes of a suite have been collected: a passing result means
\* that every spec of the suite was on exactly one node and failed nowhere,
\* with its setup and teardown passed; a failing result means that something
\* did go wrong, that a pending spec was not to be, or that the server asked for
\* node 1 too late (index_computer.go, run_result.go, test_runner.go,
\* spec_runner.go, server.go): for any number of nodes, any suites and flags,
\* and whatever goes wrong.
THEOREM VerdictHolds == Spec => []VerdictTellsTruth
<1> DEFINE VerdictInv == /\ Shape /\ SharedInv /\ JobInv /\ OrderInv /\ CliVerdict /\ ProcsVerdict
                         /\ Spends /\ SmoothInv
<1>1. ASSUME Init PROVE VerdictInv
  <2>1. node = [n \in Nodes |-> Off] /\ remote = NewRemote  BY <1>1 DEF Init
  <2>2. Shape  BY <1>1, ShapeInit
  <2>3. SharedInv  BY <2>1, <2>2, SharedAfresh DEF Shape
  <2>q. QED  BY <1>1, <2>2, <2>3, VerdictInit, SmoothInit
<1>2. ASSUME VerdictInv, [Next]_vars PROVE VerdictInv'
      BY <1>2, ShapeStep, SharedStep, JobStep, OrderStep, CliVerdictStep, ProcsVerdictStep, SpendsStep, SmoothStep
<1>3. ASSUME VerdictInv PROVE VerdictTellsTruth
  <2> SUFFICES ASSUME VerdictReached
               PROVE  /\ (cli.suiteRes.passed /\ (SeedForAll \/ job.total = 1)) => AllWell
                      /\ ~cli.suiteRes.passed =>
                             \/ ~NothingWrong \/ job.suite.panicked \/ ToldTooLate
                             \/ \E n \in NodesOfJob : Excused(n)
      BY DEF VerdictTellsTruth, Excused
  <2>1. (cli.suiteRes.passed /\ (SeedForAll \/ job.total = 1)) => AllWell  BY <1>3, PassedMeansWell
  <2>2. ASSUME ~cli.suiteRes.passed, NothingWrong, ~job.suite.panicked, ~ToldTooLate PROVE \E n \in NodesOfJob : Excused(n)
        BY <1>3, <2>2 DEF SmoothInv, AtRisk, VerdictReached, FailuresExcused
  <2>q. QED  BY <2>1, <2>2
<1>q. QED  BY <1>1, <1>2, <1>3, PTL DEF Spec

-----------------------------------------------------------------------------
(* What the aggregator adds up.                                            *)

LEMMA LeastNumber ==
    ASSUME NEW T, T \subseteq Nat, T # {}
    PROVE  \E x \in T : \A y \in T : x <= y
<1>1. \E x \in T : \A y \in T : <<y, x>> \notin OpToRel(<, Nat)  BY WFMin, NatLessThanWellFounded
<1>2. \A x, y \in Nat : y < x => <<y, x>> \in OpToRel(<, Nat)  BY DEF OpToRel
<1>3. \A x, y \in Nat : x <= y \/ y < x  OBVIOUS
<1>q. QED  BY <1>1, <1>2, <1>3

\* The sums of a field over the beginnings of a sequence.
AreSums(sums, s, field, n) == sums = [i \in 0 .. n |-> IF i = 0 THEN 0 ELSE sums[i - 1] + s[i][field]]

LEMMA SumsExist ==
    ASSUME NEW s, NEW field, NEW n \in Nat
    PROVE  \E sums : AreSums(sums, s, field, n)
<1> DEFINE T == {m \in Nat : ~\E sums : AreSums(sums, s, field, m)}
<1> SUFFICES ASSUME T # {} PROVE FALSE  OBVIOUS
<1>1. PICK m \in T : \A k \in T : m <= k
  <2>1. T \subseteq Nat  OBVIOUS
  <2> HIDE DEF T
  <2>q. QED  BY <2>1, LeastNumber
<1>2. m \in Nat /\ \A sums : ~AreSums(sums, s, field, m)  OBVIOUS
<1>3. CASE m = 0
  <2>1. AreSums([i \in 0 .. m |-> 0], s, field, m)  BY <1>3 DEF AreSums
  <2>q. QED  BY <1>2, <2>1
<1>4. CASE m # 0
  <2>1. m - 1 \in Nat /\ m - 1 \notin T  BY <1>1, <1>2, <1>4
  <2>2. PICK sums : AreSums(sums, s, field, m - 1)  BY <2>1
  <2> HIDE DEF T
  <2> DEFINE more == [i \in 0 .. m |-> IF i = m THEN sums[m - 1] + s[m][field] ELSE sums[i]]
  <2>3. ASSUME NEW i \in 0 .. m PROVE more[i] = IF i = 0 THEN 0 ELSE more[i - 1] + s[i][field]
    <3>1. \A j \in 0 .. m - 1 : sums[j] = IF j = 0 THEN 0 ELSE sums[j - 1] + s[j][field]  BY <2>2 DEF AreSums
    <3>2. \A j \in 0 .. m - 1 : more[j] = sums[j]  BY <1>2
    <3>3. CASE i = m
      <4>1. m - 1 \in 0 .. m - 1  BY <1>2, <1>4
      <4>2. more[m] = sums[m - 1] + s[m][field]  BY <1>2
      <4>q. QED  BY <1>4, <3>2, <3>3, <4>1, <4>2
    <3>4. CASE i # m
      <4>1. i \in 0 .. m - 1 /\ (i # 0 => i - 1 \in 0 .. m - 1)  BY <1>2, <3>4
      <4>q. QED  BY <3>1, <3>2, <4>1
    <3>q. QED  BY <3>3, <3>4
  <2>4. AreSums(more, s, field, m)  BY <2>3 DEF AreSums
  <2>q. QED  BY <1>2, <2>4
<1>q. QED  BY <1>3, <1>4

LEMMA SumsAgree ==
    ASSUME NEW s, NEW t, NEW field, NEW n \in Nat, NEW m \in Nat, n <= m, \A i \in 1 .. n : t[i] = s[i],
           NEW F, AreSums(F, s, field, n), NEW G, AreSums(G, t, field, m)
    PROVE  F[n] = G[n]
<1> DEFINE T == {i \in 0 .. n : F[i] # G[i]}
<1> SUFFICES ASSUME T # {} PROVE FALSE  OBVIOUS
<1>1. PICK i \in T : \A k \in T : i <= k
  <2>1. T \subseteq Nat  OBVIOUS
  <2> HIDE DEF T
  <2>q. QED  BY <2>1, LeastNumber
<1>2. i \in 0 .. n /\ F[i] # G[i]  OBVIOUS
<1>3. /\ F[i] = IF i = 0 THEN 0 ELSE F[i - 1] + s[i][field]
      /\ G[i] = IF i = 0 THEN 0 ELSE G[i - 1] + t[i][field]
  <2>1. F = [j \in 0 .. n |-> IF j = 0 THEN 0 ELSE F[j - 1] + s[j][field]]  BY DEF AreSums
  <2>2. G = [j \in 0 .. m |-> IF j = 0 THEN 0 ELSE G[j - 1] + t[j][field]]  BY DEF AreSums
  <2>3. i \in 0 .. m  BY <1>2
  <2> HIDE DEF T
  <2>q. QED  BY <1>2, <2>1, <2>2, <2>3
<1>4. i # 0  BY <1>2, <1>3
<1>5. i - 1 \in 0 .. n /\ F[i - 1] = G[i - 1]  BY <1>1, <1>2, <1>4
<1>6. t[i] = s[i]  BY <1>2, <1>4
<1>q. QED  BY <1>2, <1>3, <1>4, <1>5, <1>6

LEMMA TotalIsSum ==
    ASSUME NEW s, NEW field, Len(s) \in Nat
    PROVE  \E sums : AreSums(sums, s, field, Len(s)) /\ Total(s, field) = sums[Len(s)]
<1> DEFINE sums == CHOOSE sums : AreSums(sums, s, field, Len(s))
<1>1. AreSums(sums, s, field, Len(s))  BY SumsExist
<1>2. Total(s, field) = sums[Len(s)]  BY DEF Total, AreSums
<1> HIDE DEF sums
<1>q. QED  BY <1>1, <1>2

LEMMA TotalOfNone ==
    ASSUME NEW s, s = <<>>, NEW field
    PROVE  Total(s, field) = 0
<1>1. Len(s) = 0  OBVIOUS
<1>2. PICK sums : AreSums(sums, s, field, 0) /\ Total(s, field) = sums[0]  BY <1>1, TotalIsSum
<1>q. QED  BY <1>2 DEF AreSums

LEMMA TotalOfAppend ==
    ASSUME NEW s, IsSeq(s), NEW x, NEW field
    PROVE  Total(Append(s, x), field) = Total(s, field) + x[field]
<1> DEFINE t == Append(s, x)
           n == Len(s)
<1>1. n \in Nat /\ Len(t) = n + 1 /\ t[n + 1] = x /\ \A i \in 1 .. n : t[i] = s[i]  BY AppendSeq DEF IsSeq
<1> HIDE DEF t, n
<1>2. PICK F : AreSums(F, s, field, n) /\ Total(s, field) = F[n]  BY <1>1, TotalIsSum DEF n
<1>3. PICK G : AreSums(G, t, field, n + 1) /\ Total(t, field) = G[n + 1]  BY <1>1, TotalIsSum
<1>4. F[n] = G[n]
  <2>1. n + 1 \in Nat /\ n <= n + 1  BY <1>1
  <2>q. QED  BY <1>1, <1>2, <1>3, <2>1, SumsAgree
<1>5. G[n + 1] = G[n] + x[field]  BY <1>1, <1>3 DEF AreSums
<1>q. QED  BY <1>2, <1>3, <1>4, <1>5 DEF t

-----------------------------------------------------------------------------
(* How often a spec is in a sequence of reports.                           *)

Mentions(s, subject) == {i \in DOMAIN s : s[i].subject = subject}
Count(s, subject) == Cardinality(Mentions(s, subject))

LEMMA CountIsNat ==
    ASSUME NEW s, IsSeq(s), NEW subject
    PROVE  IsFiniteSet(Mentions(s, subject)) /\ Count(s, subject) \in Nat
<1>1. DOMAIN s = 1 .. Len(s) /\ Len(s) \in Nat  BY DEF IsSeq
<1>2. IsFiniteSet(1 .. Len(s))  BY <1>1, FS_Interval
<1>3. Mentions(s, subject) \in SUBSET (1 .. Len(s))  BY <1>1 DEF Mentions
<1>4. IsFiniteSet(Mentions(s, subject))  BY <1>2, <1>3, FS_Subset
<1>q. QED  BY <1>4, FS_CardinalityType DEF Count

LEMMA CountOfNone ==
    ASSUME NEW s, s = <<>>, NEW subject
    PROVE  Count(s, subject) = 0
<1>1. Mentions(s, subject) = {}  BY NothingRan DEF Mentions
<1>q. QED  BY <1>1, FS_EmptySet DEF Count

LEMMA CountOfAppend ==
    ASSUME NEW s, IsSeq(s), NEW x, NEW subject
    PROVE  Count(Append(s, x), subject) = Count(s, subject) + IF x.subject = subject THEN 1 ELSE 0
<1> DEFINE t == Append(s, x)
           n == Len(s)
           M == Mentions(s, subject)
<1>1. /\ n \in Nat /\ DOMAIN s = 1 .. n /\ DOMAIN t = 1 .. n + 1 /\ t[n + 1] = x
      /\ \A i \in 1 .. n : t[i] = s[i]
      BY AppendSeq DEF IsSeq
<1>2. IsFiniteSet(M) /\ Cardinality(M) = Count(s, subject) /\ Cardinality(M) \in Nat  BY CountIsNat DEF Count
<1> HIDE DEF t, n
<1>3. M = {i \in 1 .. n : s[i].subject = subject}  BY <1>1 DEF Mentions
<1>4. Mentions(t, subject) = {i \in 1 .. n + 1 : t[i].subject = subject}  BY <1>1 DEF Mentions
<1>5. CASE x.subject = subject
  <2>1. Mentions(t, subject) = M \cup {n + 1} /\ n + 1 \notin M  BY <1>1, <1>3, <1>4, <1>5
  <2> HIDE DEF M
  <2>2. Cardinality(M \cup {n + 1}) = Cardinality(M) + 1  BY <1>2, <2>1, FS_AddElement
  <2>q. QED  BY <1>2, <1>5, <2>1, <2>2 DEF Count, t
<1>6. CASE x.subject # subject
  <2>1. Mentions(t, subject) = M  BY <1>1, <1>3, <1>4, <1>6
  <2>q. QED  BY <1>2, <1>6, <2>1 DEF Count, t
<1>q. QED  BY <1>5, <1>6

\* Two sequences, one after the other.
LEMMA CountOfBoth ==
    ASSUME NEW s, IsSeq(s), NEW t, IsSeq(t), NEW subject
    PROVE  IsSeq(s \o t) /\ Count(s \o t, subject) = Count(s, subject) + Count(t, subject)
<1> DEFINE u == s \o t
           m == Len(s)
           n == Len(t)
           S == {s[i] : i \in 1 .. m} \cup {t[i] : i \in 1 .. n}
<1>1. m \in Nat /\ n \in Nat /\ DOMAIN s = 1 .. m /\ DOMAIN t = 1 .. n  BY DEF IsSeq
<1>2. s \in Seq(S) /\ t \in Seq(S)
  <2>1. s = [j \in 1 .. m |-> s[j]] /\ t = [j \in 1 .. n |-> t[j]]  BY DEF IsSeq
  <2>2. (\A j \in 1 .. m : s[j] \in S) /\ \A j \in 1 .. n : t[j] \in S  OBVIOUS
  <2> HIDE DEF S, m, n
  <2>3. [j \in 1 .. m |-> s[j]] \in Seq(S) /\ [j \in 1 .. n |-> t[j]] \in Seq(S)  BY <1>1, <2>2
  <2>q. QED  BY <2>1, <2>3
<1> HIDE DEF S
<1>3. /\ u \in Seq(S) /\ Len(u) = m + n
      /\ \A i \in 1 .. m + n : u[i] = IF i <= m THEN s[i] ELSE t[i - m]
      BY <1>2, ConcatProperties
<1>4. DOMAIN u = 1 .. m + n /\ IsSeq(u)
  <2>1. u \in [1 .. Len(u) -> S] /\ Len(u) \in Nat  BY <1>3, LenProperties
  <2> HIDE DEF u
  <2>2. u = [j \in 1 .. Len(u) |-> u[j]]  BY <2>1
  <2>q. QED  BY <1>3, <2>1, <2>2 DEF IsSeq
<1> DEFINE M == Mentions(s, subject)
           N == Mentions(t, subject)
           shifted == {m + i : i \in N}
<1>5. IsFiniteSet(M) /\ IsFiniteSet(N)  BY CountIsNat
<1>6. M \subseteq 1 .. m /\ N \subseteq 1 .. n  BY <1>1 DEF Mentions
<1> HIDE DEF u, m, n
<1>7. Mentions(u, subject) = M \cup shifted /\ M \cap shifted = {}
  <2>1. Mentions(u, subject) = {i \in 1 .. m + n : u[i].subject = subject}  BY <1>4 DEF Mentions
  <2>2. M = {i \in 1 .. m : s[i].subject = subject} /\ N = {i \in 1 .. n : t[i].subject = subject}
        BY <1>1 DEF Mentions
  <2> HIDE DEF M, N
  <2>3. ASSUME NEW i \in 1 .. m + n, u[i].subject = subject PROVE i \in M \cup shifted
    <3>1. CASE i <= m  BY <1>1, <1>3, <2>2, <2>3, <3>1
    <3>2. CASE ~(i <= m)
      <4>1. i - m \in 1 .. n /\ u[i] = t[i - m] /\ m + (i - m) = i  BY <1>1, <1>3, <3>2
      <4>2. i - m \in N  BY <2>2, <2>3, <4>1
      <4>q. QED  BY <4>1, <4>2
    <3>q. QED  BY <3>1, <3>2
  <2>4. ASSUME NEW i \in M PROVE i \in 1 .. m + n /\ u[i].subject = subject  BY <1>1, <1>3, <2>2
  <2>5. ASSUME NEW j \in N PROVE m + j \in 1 .. m + n /\ u[m + j].subject = subject /\ m + j \notin M
    <3>1. j \in 1 .. n /\ t[j].subject = subject  BY <2>2
    <3>2. m + j \in 1 .. m + n /\ ~(m + j <= m) /\ (m + j) - m = j  BY <1>1, <3>1
    <3>q. QED  BY <1>3, <1>6, <3>1, <3>2
  <2>q. QED  BY <2>1, <2>3, <2>4, <2>5
<1>8. IsFiniteSet(shifted) /\ Cardinality(shifted) = Cardinality(N)
  <2> DEFINE f == [i \in N |-> m + i]
  <2>1. f \in Bijection(N, shifted)
    <3>1. f \in [N -> shifted]  OBVIOUS
    <3>2. \A i, j \in N : f[i] = f[j] => i = j  BY <1>1, <1>6
    <3>3. \A k \in shifted : \E i \in N : f[i] = k  OBVIOUS
    <3> HIDE DEF f, shifted
    <3>q. QED  BY <3>1, <3>2, <3>3 DEF Bijection, Injection, Surjection, IsInjective
  <2>2. ExistsBijection(N, shifted)  BY <2>1 DEF ExistsBijection
  <2> HIDE DEF shifted, N
  <2>q. QED  BY <1>5, <2>2, FS_Bijection
<1>9. Cardinality(M \cup shifted) = Cardinality(M) + Cardinality(shifted)
  <2>1. Cardinality(M) \in Nat /\ Cardinality(shifted) \in Nat  BY <1>5, <1>8, FS_CardinalityType
  <2> HIDE DEF M, shifted
  <2>2. Cardinality(M \cup shifted) = Cardinality(M) + Cardinality(shifted) - Cardinality(M \cap shifted)
        BY <1>5, <1>8, FS_Union
  <2>3. Cardinality(M \cap shifted) = 0  BY <1>7, FS_EmptySet
  <2>q. QED  BY <2>1, <2>2, <2>3
<1>q. QED  BY <1>4, <1>7, <1>8, <1>9 DEF Count, u

-----------------------------------------------------------------------------
(* A suite in which nothing went wrong: where its processes are.           *)

\* What the nodes are to run.
Given == [n \in NodesOfJob |-> Own(n)]

\* A process runs what it would have run, and has run what it is through with.
\* It ends where "main" ends.
OnTrack(n) ==
    LET p == node[n]
    IN /\ p.up = "off" => p.main = "begin" /\ p.i = 1
       /\ p.up # "off" =>
              /\ Lists(n)
              /\ \A j \in DOMAIN p.specs :
                    /\ p.specs[j].state = Own(n)[j].state \/ (Own(n)[j].state = "invalid" /\ p.specs[j].state = "passed")
                    /\ DoneWith(p, j) => p.specs[j].state # "invalid"
       /\ p.main \in AfterSpecs => \A j \in DOMAIN p.specs : j < p.i
       /\ (p.main \in InSpecs \cup AfterSpecs /\ job.suite.beforeSuite # "none") => p.before = "passed"
       /\ p.up = "gone" => p.main = "exit"
       /\ EndedWell(p) => p.passed

\* The specs of a subject that have been reported.
Told(subject) ==
    {e \in NodesOfJob \X (Nat \ {0}) :
        e[2] \in DOMAIN Given[e[1]] /\ e[2] < node[e[1]].i /\ Given[e[1]][e[2]].subject = subject}

\* Each of them was announced, or waits until all nodes have begun.
Logged ==
    /\ IsSeq(remote.announced) /\ IsSeq(remote.completed)
    /\ (job.mode = "parallel" => Len(remote.begun) = job.total) => remote.completed = <<>>
    /\ \A k \in DOMAIN job.suite.subjects :
           /\ IsFiniteSet(Told(k))
           /\ Count(remote.announced, k) + Count(remote.completed, k) = Cardinality(Told(k))

\* The nodes that have begun and those that have ended.
Begun == {n \in NodesOfJob : node[n].main # "begin"}
Ended == {n \in NodesOfJob : node[n].main = "exit"}

\* Of the specs that one node or some nodes are given, those in a state.
InState(specs, state) == {j \in DOMAIN specs : specs[j].state = state}
SpecsIn(given, S, state) == {e \in S \X Nat : e[2] \in InState(given[e[1]], state)}

\* The sums of the summaries are numbers of specs.
AddsUp(summaries, field, given, S, state) ==
    IsFiniteSet(SpecsIn(given, S, state)) /\ Total(summaries, field) = Cardinality(SpecsIn(given, S, state))

Tallied ==
    /\ IsSeq(remote.begun) /\ IsFiniteSet(Begun) /\ Len(remote.begun) = Cardinality(Begun)
    /\ Len(remote.begun) = job.total => remote.willRun = Total(remote.begun, "willRun")
    /\ AddsUp(remote.begun, "willRun", Given, Begun, "invalid")
    /\ IsSeq(remote.ended)
    /\ AddsUp(remote.ended, "passed", Given, Ended, "invalid")
    /\ AddsUp(remote.ended, "pending", Given, Ended, "pending")
    /\ AddsUp(remote.ended, "skipped", Given, Ended, "skipped")
    /\ Total(remote.ended, "failed") = 0
    /\ \A i \in DOMAIN remote.ended : remote.ended[i].succeeded \/ \E n \in Ended : ~node[n].passed

ReportInv ==
    (NothingWrong /\ AtRisk) => Logged /\ (job.mode = "parallel" => Tallied) /\ \A n \in Nodes : OnTrack(n)

\* A process that panics while it builds its tree never comes up.
NobodyUp ==
    (job.mode # "gotest" /\ job.suite.panicked) => \A n \in Nodes : node[n].up # "up" /\ ~EndedWell(node[n])

LEMMA GivenSpecs ==
    ASSUME Shape, JobInv, job.mode # "gotest", NEW n \in NodesOfJob
    PROVE  /\ Given[n] = Own(n)
           /\ \E count \in Nat : DOMAIN Own(n) = 1 .. count
           /\ \A j \in DOMAIN Own(n) : Own(n)[j].state \in {"invalid", "pending", "skipped"}
<1> DEFINE suite == job.suite
           conf == job.conf[n]
           all == job.all[n]
           length == Len(suite.subjects)
           r == ShareOf(length, conf)
           own == generateSpecs(suite, conf, all)
<1>1. job.total \in Nat /\ job.total > 0 /\ n \in 1 .. job.total  BY NodeAssumption DEF Shape, NodesOfJob
<1>2. DOMAIN suite.subjects = 1 .. length /\ length \in Nat /\ IsListing(suite, all)  BY <1>1 DEF JobInv, NodesOfJob
<1>3. conf.total \in Nat \ {0} /\ (conf.total > 1 => conf.node \in 1 .. conf.total)  BY <1>1 DEF JobInv, NodesOfJob
<1>4. Own(n) = own /\ Given[n] = Own(n)  BY DEF Own, Given
<1> HIDE DEF suite, conf, all, length, own
<1>5. /\ r.count \in Nat /\ DOMAIN own = 1 .. r.count
      /\ \A j \in 1 .. r.count : own[j].state \in {"invalid", "pending", "skipped"}
      BY <1>2, <1>3, OwnSpecs DEF own
<1>q. QED  BY <1>4, <1>5

\* The specs of one node more.
LEMMA SpecsOfOneMore ==
    ASSUME NEW given, NEW S, NEW n, n \notin S, NEW state, IsFiniteSet(SpecsIn(given, S, state)),
           NEW count \in Nat, DOMAIN given[n] = 1 .. count
    PROVE  LET all == SpecsIn(given, S \cup {n}, state)
           IN /\ IsFiniteSet(all)
              /\ Cardinality(all) = Cardinality(SpecsIn(given, S, state)) + Cardinality(InState(given[n], state))
<1> DEFINE B == InState(given[n], state)
           old == SpecsIn(given, S, state)
           new == {<<n, j>> : j \in B}
           all == SpecsIn(given, S \cup {n}, state)
<1>1. B \in SUBSET (1 .. count)  BY DEF InState
<1>2. IsFiniteSet(B)  BY <1>1, FS_Interval, FS_Subset
<1>3. all = old \cup new
  <2>1. B \subseteq Nat  BY <1>1
  <2> HIDE DEF B
  <2>2. ASSUME NEW e \in all PROVE e \in old \cup new
    <3>1. e \in (S \cup {n}) \X Nat /\ e[2] \in InState(given[e[1]], state)  BY DEF SpecsIn
    <3>2. CASE e[1] \in S  BY <3>1, <3>2 DEF SpecsIn
    <3>3. CASE e[1] = n  BY <3>1, <3>3 DEF B
    <3>q. QED  BY <3>1, <3>2, <3>3
  <2>3. ASSUME NEW e \in old PROVE e \in all  BY <2>3 DEF SpecsIn
  <2>4. ASSUME NEW j \in B PROVE <<n, j>> \in all  BY <2>1, <2>4 DEF SpecsIn, B
  <2>q. QED  BY <2>2, <2>3, <2>4
<1>4. old \cap new = {}  BY DEF SpecsIn
<1> HIDE DEF B, old, all
<1>5. IsFiniteSet(new) /\ Cardinality(new) = Cardinality(B)
  <2> DEFINE f == [j \in B |-> <<n, j>>]
  <2>1. f \in Bijection(B, new)
    <3>1. f \in [B -> new]  OBVIOUS
    <3>2. \A i, j \in B : f[i] = f[j] => i = j  OBVIOUS
    <3>3. \A e \in new : \E j \in B : f[j] = e  OBVIOUS
    <3> HIDE DEF f, new
    <3>q. QED  BY <3>1, <3>2, <3>3 DEF Bijection, Injection, Surjection, IsInjective
  <2>2. ExistsBijection(B, new)  BY <2>1 DEF ExistsBijection
  <2> HIDE DEF new
  <2>q. QED  BY <1>2, <2>2, FS_Bijection
<1> HIDE DEF new
<1>6. IsFiniteSet(old)  BY DEF old
<1>7. IsFiniteSet(all) /\ Cardinality(all) = Cardinality(old) + Cardinality(new)
  <2>1. Cardinality(old) \in Nat /\ Cardinality(new) \in Nat  BY <1>5, <1>6, FS_CardinalityType
  <2>2. /\ IsFiniteSet(old \cup new)
        /\ Cardinality(old \cup new) = Cardinality(old) + Cardinality(new) - Cardinality(old \cap new)
        BY <1>5, <1>6, FS_Union
  <2>3. Cardinality(old \cap new) = 0  BY <1>4, FS_EmptySet
  <2>q. QED  BY <1>3, <2>1, <2>2, <2>3
<1>q. QED  BY <1>5, <1>7 DEF all, old, B

\* The summary of one node more.
LEMMA AddsUpOneMore ==
    ASSUME NEW given, NEW S, NEW n, n \notin S, NEW state, NEW count \in Nat, DOMAIN given[n] = 1 .. count,
           NEW s, IsSeq(s), NEW field, AddsUp(s, field, given, S, state),
           NEW x, x[field] = Cardinality(InState(given[n], state))
    PROVE  AddsUp(Append(s, x), field, given, S \cup {n}, state)
<1>1. Total(Append(s, x), field) = Total(s, field) + x[field]  BY TotalOfAppend
<1>q. QED  BY <1>1, SpecsOfOneMore DEF AddsUp

LEMMA AddsUpNothing ==
    ASSUME NEW s, s = <<>>, NEW field, NEW given, NEW S, S = {}, NEW state
    PROVE  AddsUp(s, field, given, S, state)
<1>1. SpecsIn(given, S, state) = {}  BY DEF SpecsIn
<1>2. Total(s, field) = 0  BY TotalOfNone
<1>q. QED  BY <1>1, <1>2, FS_EmptySet DEF AddsUp

-----------------------------------------------------------------------------
(* What the steps make of the reports.                                     *)

\* A process that has reported nothing new, and a step that reports nothing.
QuietNode(n) ==
    /\ node'[n].i = node[n].i
    /\ node'[n].main = "begin" <=> node[n].main = "begin"
    /\ node'[n].main = "exit" <=> node[n].main = "exit"
    /\ node[n].main = "exit" => node'[n].passed = node[n].passed

QuietRemote ==
    /\ remote'.begun = remote.begun /\ remote'.completed = remote.completed /\ remote'.announced = remote.announced
    /\ remote'.ended = remote.ended /\ remote'.willRun = remote.willRun

LEMMA ToldSame ==
    ASSUME job' = job, \A n \in NodesOfJob : node'[n].i = node[n].i, NEW k
    PROVE  Told(k)' = Told(k)
<1>1. NodesOfJob' = NodesOfJob  BY DEF NodesOfJob
<1>2. Given' = Given  BY <1>1 DEF Given, Own
<1> DEFINE new == {e \in NodesOfJob \X (Nat \ {0}) :
                      e[2] \in DOMAIN Given[e[1]] /\ e[2] < node'[e[1]].i /\ Given[e[1]][e[2]].subject = k}
<1>3. Told(k)' = new  BY <1>1, <1>2 DEF Told
<1>4. new = Told(k)
  <2>1. \A e \in NodesOfJob \X (Nat \ {0}) : node'[e[1]].i = node[e[1]].i  OBVIOUS
  <2>q. QED  BY <2>1 DEF Told
<1>q. QED  BY <1>3, <1>4

\* The number of those begun matters only when they are all.
LEMMA LoggedSame ==
    ASSUME Logged, job' = job, \A n \in NodesOfJob : node'[n].i = node[n].i,
           remote'.announced = remote.announced, remote'.completed = remote.completed,
           Len(remote'.begun) = job.total => remote'.completed = <<>> \/ Len(remote.begun) = job.total
    PROVE  Logged'
<1>1. \A k \in DOMAIN job.suite.subjects : Told(k)' = Told(k)  BY ToldSame
<1>2. \A k : /\ Count(remote.announced, k)' = Count(remote.announced, k)
             /\ Count(remote.completed, k)' = Count(remote.completed, k)
      BY DEF Count, Mentions
<1>3. IsSeq(remote.announced)' /\ IsSeq(remote.completed)'  BY DEF Logged, IsSeq
<1>4. ((job.mode = "parallel" => Len(remote.begun) = job.total) => remote.completed = <<>>)'  BY DEF Logged
<1>5. \A k \in DOMAIN job.suite.subjects :
           /\ IsFiniteSet(Told(k)')
           /\ Count(remote.announced, k)' + Count(remote.completed, k)' = Cardinality(Told(k)')
      BY <1>1, <1>2 DEF Logged
<1>q. QED  BY <1>3, <1>4, <1>5 DEF Logged

LEMMA TalliedSame ==
    ASSUME Tallied, job' = job, \A n \in NodesOfJob : QuietNode(n),
           remote'.begun = remote.begun, remote'.willRun = remote.willRun, remote'.ended = remote.ended
    PROVE  Tallied'
<1>1. NodesOfJob' = NodesOfJob  BY DEF NodesOfJob
<1>2. Given' = Given  BY <1>1 DEF Given, Own
<1>3. Begun' = Begun /\ Ended' = Ended  BY <1>1 DEF Begun, Ended, QuietNode
<1>4. \A n \in Ended : node'[n].passed = node[n].passed  BY DEF Ended, QuietNode
<1>5. \A i \in DOMAIN remote.ended : remote.ended[i].succeeded \/ \E n \in Ended : ~node'[n].passed
      BY <1>4 DEF Tallied
<1>q. QED  BY <1>2, <1>3, <1>5 DEF Tallied

LEMMA ConcatNone ==
    ASSUME NEW s, IsSeq(s), NEW t, t = <<>>
    PROVE  s \o t = s
<1> DEFINE S == {s[j] : j \in 1 .. Len(s)}
<1>1. [j \in 1 .. Len(s) |-> s[j]] \in Seq(S)  BY DEF IsSeq
<1> HIDE DEF S
<1>2. s \in Seq(S)  BY <1>1 DEF IsSeq
<1>q. QED  BY <1>2, ConcatEmptySeq

\* Nothing is lost on the way to the aggregator.
LEMMA ReportMade ==
    ASSUME ~Wrong, NEW r, NEW d, Report(r, d)
    PROVE  remote' = IF job.mode = "parallel" THEN r ELSE d
  BY DEF Report, buildDefaultReporter, post, StreamingEndpoint, mux

\* A report that waits is announced, once all nodes have begun.
LEMMA Flushed ==
    ASSUME NEW r, IsRemote(r)
    PROVE  LET f == flushCompletedSpecs(r)
           IN /\ f.begun = r.begun /\ f.ended = r.ended /\ f.willRun = r.willRun
              /\ Len(r.begun) # job.total => f.announced = r.announced /\ f.completed = r.completed
              /\ Len(r.begun) = job.total => f.announced = r.announced \o r.completed /\ f.completed = <<>>
<1>1. CASE Len(r.begun) # job.total  BY <1>1 DEF flushCompletedSpecs
<1>2. CASE Len(r.begun) = job.total
  <2> DEFINE f == [r EXCEPT !.setups = @ \o r.befores \o r.afters, !.announced = @ \o r.completed,
                            !.befores = <<>>, !.completed = <<>>, !.afters = <<>>]
  <2>1. flushCompletedSpecs(r) = f  BY <1>2 DEF flushCompletedSpecs
  <2>2. /\ f.begun = r.begun /\ f.ended = r.ended /\ f.willRun = r.willRun
        /\ f.announced = r.announced \o r.completed /\ f.completed = <<>>
        BY DEF IsRemote, RemoteFields
  <2> HIDE DEF f
  <2>q. QED  BY <1>2, <2>1, <2>2
<1>q. QED  BY <1>1, <1>2

\* The reports about setup and teardown announce no spec.
LEMMA SetupReportsQuiet ==
    ASSUME IsRemote(remote), Logged, ~Wrong, NEW x,
           \/ Report(registerBeforeSuite(remote, x), reporterBeforeSuiteDidRun(remote, x))
           \/ Report(registerAfterSuite(remote, x), reporterAfterSuiteDidRun(remote, x))
    PROVE  QuietRemote
<1>1. CASE job.mode = "parallel"
  <2>1. PICK r : /\ IsRemote(r) /\ remote' = flushCompletedSpecs(r)
                 /\ r.begun = remote.begun /\ r.ended = remote.ended /\ r.willRun = remote.willRun
                 /\ r.announced = remote.announced /\ r.completed = remote.completed
    <3> DEFINE b == [remote EXCEPT !.befores = Append(@, x)]
               a == [remote EXCEPT !.afters = Append(@, x)]
    <3>1. remote' = flushCompletedSpecs(b) \/ remote' = flushCompletedSpecs(a)
      <4>1. remote' = registerBeforeSuite(remote, x) \/ remote' = registerAfterSuite(remote, x)
            BY <1>1, ReportMade
      <4>q. QED  BY <4>1 DEF registerBeforeSuite, registerAfterSuite
    <3>2. /\ IsRemote(b)
          /\ b.begun = remote.begun /\ b.ended = remote.ended /\ b.willRun = remote.willRun
          /\ b.announced = remote.announced /\ b.completed = remote.completed
          BY DEF IsRemote, RemoteFields
    <3>3. /\ IsRemote(a)
          /\ a.begun = remote.begun /\ a.ended = remote.ended /\ a.willRun = remote.willRun
          /\ a.announced = remote.announced /\ a.completed = remote.completed
          BY DEF IsRemote, RemoteFields
    <3> HIDE DEF a, b
    <3>q. QED  BY <3>1, <3>2, <3>3
  <2>2. CASE Len(remote.begun) # job.total  BY <2>1, <2>2, Flushed DEF QuietRemote
  <2>3. CASE Len(remote.begun) = job.total
    <3>1. remote.completed = <<>> /\ IsSeq(remote.announced)  BY <2>3 DEF Logged
    <3>2. remote.announced \o remote.completed = remote.announced  BY <3>1, ConcatNone
    <3>q. QED  BY <2>1, <2>3, <3>1, <3>2, Flushed DEF QuietRemote
  <2>q. QED  BY <2>2, <2>3
<1>2. CASE job.mode # "parallel"
  <2>1. remote' = reporterBeforeSuiteDidRun(remote, x) \/ remote' = reporterAfterSuiteDidRun(remote, x)
        BY <1>2, ReportMade
  <2>q. QED  BY <2>1 DEF reporterBeforeSuiteDidRun, reporterAfterSuiteDidRun, QuietRemote, IsRemote, RemoteFields
<1>q. QED  BY <1>1, <1>2

\* Where the specs of a process stand in its summary.
LEMMA SummaryOf ==
    ASSUME Shape, JobInv, job.mode # "gotest", NEW n \in NodesOfJob, n \in Nodes, node[n].up = "up", OnTrack(n), Passing(n),
           NEW success
    PROVE  LET sum == summary(node[n], success)
           IN /\ sum.succeeded = success
              /\ sum.willRun = Cardinality(InState(Given[n], "invalid"))
              /\ sum.pending = Cardinality(InState(Given[n], "pending"))
              /\ sum.skipped = Cardinality(InState(Given[n], "skipped"))
              /\ node[n].main \in AfterSpecs => sum.passed = Cardinality(InState(Given[n], "invalid")) /\ sum.failed = 0
<1> DEFINE p == node[n]
           own == Own(n)
           sum == summary(p, success)
<1>1. Given[n] = own /\ \A j \in DOMAIN own : own[j].state \in {"invalid", "pending", "skipped"}  BY GivenSpecs
<1>2. /\ DOMAIN p.specs = DOMAIN own
      /\ \A j \in DOMAIN own : /\ p.specs[j].state = own[j].state \/ (own[j].state = "invalid" /\ p.specs[j].state = "passed")
                               /\ DoneWith(p, j) => p.specs[j].state # "invalid"
      BY DEF OnTrack, Lists
<1>3. sum.succeeded = success /\ sum.willRun = countSpecsSatisfying(p.specs, LAMBDA s : ~Skipped(s) /\ ~Pending(s))
      BY DEF summary
<1>4. /\ sum.pending = countSpecsSatisfying(p.specs, Pending) /\ sum.skipped = countSpecsSatisfying(p.specs, Skipped)
      /\ sum.passed = countSpecsSatisfying(p.specs, LAMBDA s : s.state = "passed")
      BY DEF summary
<1>5. sum.failed = IF job.suite.beforeSuite # "none" /\ p.before # "passed"
                   THEN countSpecsSatisfying(p.specs, LAMBDA s : ~Skipped(s) /\ ~Pending(s))
                   ELSE countSpecsSatisfying(p.specs, Failed)
      BY DEF summary
<1> HIDE DEF own, sum
<1>6. sum.willRun = Cardinality(InState(own, "invalid"))
  <2>1. {i \in DOMAIN p.specs : ~Skipped(p.specs[i]) /\ ~Pending(p.specs[i])} = InState(own, "invalid")
        BY <1>1, <1>2 DEF InState, Skipped, Pending
  <2>q. QED  BY <1>3, <2>1 DEF countSpecsSatisfying
<1>7. sum.pending = Cardinality(InState(own, "pending"))
  <2>1. {i \in DOMAIN p.specs : Pending(p.specs[i])} = InState(own, "pending")  BY <1>1, <1>2 DEF InState, Pending
  <2>q. QED  BY <1>4, <2>1 DEF countSpecsSatisfying
<1>8. sum.skipped = Cardinality(InState(own, "skipped"))
  <2>1. {i \in DOMAIN p.specs : Skipped(p.specs[i])} = InState(own, "skipped")  BY <1>1, <1>2 DEF InState, Skipped
  <2>q. QED  BY <1>4, <2>1 DEF countSpecsSatisfying
<1>9. ASSUME p.main \in AfterSpecs PROVE sum.passed = Cardinality(InState(own, "invalid")) /\ sum.failed = 0
  <2>1. \A j \in DOMAIN own : p.specs[j].state # "invalid"  BY <1>2, <1>9 DEF OnTrack, DoneWith
  <2>2. {i \in DOMAIN p.specs : p.specs[i].state = "passed"} = InState(own, "invalid")  BY <1>1, <1>2, <2>1 DEF InState
  <2>3. {i \in DOMAIN p.specs : Failed(p.specs[i])} = {}  BY DEF Passing
  <2>4. ~(job.suite.beforeSuite # "none" /\ p.before # "passed")  BY <1>9 DEF OnTrack
  <2>q. QED  BY <1>4, <1>5, <2>2, <2>3, <2>4, FS_EmptySet DEF countSpecsSatisfying
<1>q. QED  BY <1>1, <1>3, <1>6, <1>7, <1>8, <1>9 DEF sum

\* One of the nodes more, or one of its specs.
LEMMA OneMore ==
    ASSUME NEW S, IsFiniteSet(S), NEW n, n \notin S
    PROVE  IsFiniteSet(S \cup {n}) /\ Cardinality(S \cup {n}) = Cardinality(S) + 1 /\ Cardinality(S) \in Nat
  BY FS_AddElement, FS_CardinalityType

\* A node begins.
LEMMA BeginningReported ==
    ASSUME Shape, JobInv, job.mode # "gotest", NEW n \in Nodes, n \in NodesOfJob, node[n].up = "up", OnTrack(n), Passing(n),
           ~Wrong, reportSuiteWillBegin(n), Logged, job.mode = "parallel" => Tallied
    PROVE  Logged' /\ (job.mode = "parallel" => Tallied')
<1> DEFINE x == summary(node[n], TRUE)
<1>1. /\ Frame(n, {"main", "handler"}) /\ node[n].main = "begin" /\ node'[n].main = "before" /\ job' = job
      BY WillBegin DEF Shape
<1>2. Report(registerSuiteBeginning(remote, x), remote)  BY DEF reportSuiteWillBegin
<1>i. \A k \in NodesOfJob : node'[k].i = node[k].i /\ (k # n => node'[k] = node[k])
  <2>1. \A k \in NodesOfJob : k \in Nodes  BY NodeAssumption DEF Shape, NodesOfJob, Nodes
  <2>2. node'[n].i = node[n].i  BY <1>1 DEF Frame, Agree, Fields
  <2>q. QED  BY <1>1, <2>1, <2>2 DEF Frame
<1>x. x.willRun = Cardinality(InState(Given[n], "invalid"))  BY SummaryOf
<1> HIDE DEF x
<1>3. CASE job.mode # "parallel"
  <2>1. remote' = remote  BY <1>2, <1>3, ReportMade
  <2>q. QED  BY <1>1, <1>3, <1>i, <2>1, LoggedSame
<1>4. CASE job.mode = "parallel"
  <2> DEFINE begun == Append(remote.begun, x)
             r2 == [remote EXCEPT !.begun = begun]
             r3 == [r2 EXCEPT !.willRun = Total(begun, "willRun")]
  <2>0. IsRemote(remote)  BY DEF Shape
  <2>1. remote' = IF Len(begun) # job.total THEN r2 ELSE flushCompletedSpecs(r3)
        BY <1>2, <1>4, ReportMade DEF registerSuiteBeginning
  <2>2. /\ IsSeq(begun) /\ Len(begun) = Len(remote.begun) + 1 /\ Len(remote.begun) \in Nat
        BY <1>4, AppendSeq DEF Tallied, IsSeq
  <2>3. /\ r2.begun = begun /\ r2.ended = remote.ended /\ r2.willRun = remote.willRun
        /\ r2.announced = remote.announced /\ r2.completed = remote.completed
        BY <2>0 DEF IsRemote, RemoteFields
  <2>4. /\ IsRemote(r3) /\ r3.begun = begun /\ r3.ended = remote.ended /\ r3.willRun = Total(begun, "willRun")
        /\ r3.announced = remote.announced /\ r3.completed = remote.completed
        BY <2>0 DEF IsRemote, RemoteFields
  <2> HIDE DEF r2, r3
  <2>5. /\ remote'.begun = begun /\ remote'.ended = remote.ended
        /\ Len(begun) = job.total => remote'.willRun = Total(begun, "willRun")
        BY <2>1, <2>3, <2>4, Flushed
  <2>6. Begun' = Begun \cup {n} /\ n \notin Begun /\ Ended' = Ended
    <3>1. NodesOfJob' = NodesOfJob  BY <1>1 DEF NodesOfJob
    <3>q. QED  BY <1>1, <1>i, <3>1 DEF Begun, Ended
  <2>7. Given' = Given
    <3>1. NodesOfJob' = NodesOfJob  BY <1>1 DEF NodesOfJob
    <3>q. QED  BY <1>1, <3>1 DEF Given, Own
  <2>8. IsFiniteSet(Begun \cup {n}) /\ Len(begun) = Cardinality(Begun \cup {n})
        BY <1>4, <2>2, <2>6, OneMore DEF Tallied
  <2>9. AddsUp(begun, "willRun", Given, Begun \cup {n}, "invalid")
    <3>1. PICK count \in Nat : DOMAIN Given[n] = 1 .. count  BY GivenSpecs
    <3>2. AddsUp(remote.begun, "willRun", Given, Begun, "invalid") /\ IsSeq(remote.begun)  BY <1>4 DEF Tallied
    <3>q. QED  BY <1>x, <2>6, <3>1, <3>2, AddsUpOneMore
  <2> HIDE DEF begun
  <2>10. Tallied'
    <3>1. \A k \in Ended : node'[k].passed = node[k].passed
      <4>1. \A k \in Ended : k # n /\ k \in NodesOfJob  BY <1>1 DEF Ended
      <4>q. QED  BY <1>i, <4>1
    <3>2. \A i \in DOMAIN remote.ended : remote.ended[i].succeeded \/ \E k \in Ended : ~node'[k].passed
          BY <1>4, <3>1 DEF Tallied
    <3>q. QED  BY <1>1, <1>4, <2>2, <2>5, <2>6, <2>7, <2>8, <2>9, <3>2 DEF Tallied
  <2>11. CASE Len(begun) # job.total
    <3>1. remote'.announced = remote.announced /\ remote'.completed = remote.completed  BY <2>1, <2>3, <2>11
    <3>q. QED  BY <1>1, <1>i, <2>5, <2>10, <2>11, <3>1, LoggedSame
  <2>12. CASE Len(begun) = job.total
    <3>1. remote'.announced = remote.announced \o remote.completed /\ remote'.completed = <<>>
          BY <2>1, <2>4, <2>12, Flushed
    <3>2. IsSeq(remote.announced) /\ IsSeq(remote.completed)  BY DEF Logged
    <3>3. IsSeq(remote.announced \o remote.completed)  BY <3>2, CountOfBoth
    <3>4. IsSeq(remote'.announced) /\ IsSeq(remote'.completed)  BY <3>1, <3>3, NothingRan
    <3>5. ASSUME NEW k \in DOMAIN job.suite.subjects
          PROVE  /\ IsFiniteSet(Told(k)')
                 /\ Count(remote'.announced, k) + Count(remote'.completed, k) = Cardinality(Told(k)')
      <4>1. Told(k)' = Told(k)  BY <1>1, <1>i, ToldSame
      <4>2. Count(remote'.announced, k) = Count(remote.announced, k) + Count(remote.completed, k)
            BY <3>1, <3>2, CountOfBoth
      <4>3. Count(remote'.completed, k) = 0  BY <3>1, CountOfNone
      <4>4. Count(remote.announced, k) \in Nat /\ Count(remote.completed, k) \in Nat  BY <3>2, CountIsNat
      <4>q. QED  BY <4>1, <4>2, <4>3, <4>4 DEF Logged
    <3>6. Logged'  BY <1>1, <3>1, <3>4, <3>5 DEF Logged, Count, Mentions
    <3>q. QED  BY <2>10, <3>6
  <2>q. QED  BY <2>11, <2>12
<1>q. QED  BY <1>3, <1>4

\* A spec is done: its report is announced, or waits.
LEMMA CompletionReported ==
    ASSUME Shape, JobInv, job.mode # "gotest", NEW n \in Nodes, n \in NodesOfJob, node[n].up = "up", OnTrack(n),
           ByNow(node[n]), ~Wrong, reportSpecDidComplete(n), Logged, job.mode = "parallel" => Tallied
    PROVE  Logged' /\ (job.mode = "parallel" => Tallied')
<1> DEFINE i == node[n].i
           spec == node[n].specs[i]
           x == [node |-> n, subject |-> spec.subject, state |-> spec.state]
<1>1. /\ Frame(n, {"i", "main", "skipRemaining"}) /\ node[n].main = "completed" /\ node'[n].main = "specs"
      /\ node'[n].i = i + 1 /\ job' = job
      BY DidComplete DEF Shape
<1>2. Report(registerSpecCompletion(remote, x), reporterSpecDidComplete(remote, x))  BY DEF reportSpecDidComplete
<1>3. /\ i \in Nat /\ i \in DOMAIN Given[n] /\ x.subject = Given[n][i].subject
      /\ \E count \in Nat : DOMAIN Given[n] = 1 .. count
  <2>1. i \in Nat /\ i \in DOMAIN node[n].specs  BY <1>1 DEF ByNow
  <2>2. i \in DOMAIN Own(n) /\ spec.subject = Own(n)[i].subject  BY <2>1 DEF OnTrack, Lists
  <2>q. QED  BY <2>1, <2>2, GivenSpecs
<1>i. \A k \in NodesOfJob : k # n => node'[k] = node[k]
  <2>1. \A k \in NodesOfJob : k \in Nodes  BY NodeAssumption DEF Shape, NodesOfJob, Nodes
  <2>q. QED  BY <1>1, <2>1 DEF Frame
<1> HIDE DEF x
<1>4. NodesOfJob' = NodesOfJob /\ Given' = Given
  <2>1. NodesOfJob' = NodesOfJob  BY <1>1 DEF NodesOfJob
  <2>q. QED  BY <1>1, <2>1 DEF Given, Own
<1>5. ASSUME NEW k \in DOMAIN job.suite.subjects
      PROVE  /\ IsFiniteSet(Told(k)')
             /\ Cardinality(Told(k)') = Cardinality(Told(k)) + IF x.subject = k THEN 1 ELSE 0
             /\ Cardinality(Told(k)) \in Nat
  <2>1. \A j \in DOMAIN Given[n] : j < i + 1 <=> j < i \/ j = i  BY <1>3
  <2>2. Told(k)' = {e \in NodesOfJob \X (Nat \ {0}) :
                       e[2] \in DOMAIN Given[e[1]] /\ e[2] < node'[e[1]].i /\ Given[e[1]][e[2]].subject = k}
        BY <1>4 DEF Told
  <2>3. ASSUME NEW e \in NodesOfJob \X (Nat \ {0}), e[2] \in DOMAIN Given[e[1]]
        PROVE  e[2] < node'[e[1]].i <=> e[2] < node[e[1]].i \/ e = <<n, i>>
    <3>1. CASE e[1] = n
      <4>1. node'[e[1]].i = i + 1 /\ e[2] \in DOMAIN Given[n] /\ node[e[1]].i = i  BY <1>1, <2>3, <3>1
      <4>2. e[2] = i <=> e = <<n, i>>  BY <3>1
      <4> HIDE DEF i
      <4>q. QED  BY <2>1, <4>1, <4>2
    <3>2. CASE e[1] # n  BY <1>i, <3>2
    <3>q. QED  BY <3>1, <3>2
  <2>4. Told(k)' = Told(k) \cup (IF x.subject = k THEN {<<n, i>>} ELSE {}) /\ <<n, i>> \notin Told(k)
    <3>1. <<n, i>> \in NodesOfJob \X (Nat \ {0})  BY <1>3
    <3>2. <<n, i>> \notin Told(k)  BY <1>3 DEF Told
    <3>3. \A e \in NodesOfJob \X (Nat \ {0}) : e = <<n, i>> => (Given[e[1]][e[2]].subject = k <=> x.subject = k)
                                                       /\ e[2] \in DOMAIN Given[e[1]]
          BY <1>3
    <3> HIDE DEF i
    <3>q. QED  BY <2>2, <2>3, <3>1, <3>2, <3>3 DEF Told
  <2>5. IsFiniteSet(Told(k))  BY DEF Logged
  <2> HIDE DEF i
  <2>6. CASE x.subject = k  BY <2>4, <2>5, <2>6, OneMore
  <2>7. CASE x.subject # k  BY <2>4, <2>5, <2>7, FS_CardinalityType
  <2>q. QED  BY <2>6, <2>7
<1>6. ASSUME IsSeq(remote'.announced), IsSeq(remote'.completed),
             (job.mode = "parallel" => Len(remote'.begun) = job.total) => remote'.completed = <<>>,
             \A k : Count(remote'.announced, k) + Count(remote'.completed, k)
                      = Count(remote.announced, k) + Count(remote.completed, k) + IF x.subject = k THEN 1 ELSE 0
      PROVE  Logged'
  <2>1. \A k \in DOMAIN job.suite.subjects :
             /\ IsFiniteSet(Told(k)')
             /\ Count(remote'.announced, k) + Count(remote'.completed, k) = Cardinality(Told(k)')
        BY <1>5, <1>6 DEF Logged
  <2>2. \A s, k : Count(s, k)' = Count(s', k)  BY DEF Count, Mentions
  <2>q. QED  BY <1>1, <1>6, <2>1, <2>2 DEF Logged
<1>7. IsSeq(remote.announced) /\ IsSeq(remote.completed)  BY DEF Logged
<1>8. \A k : Count(remote.announced, k) \in Nat /\ Count(remote.completed, k) \in Nat  BY <1>7, CountIsNat
<1>9. CASE job.mode # "parallel"
  <2>1. remote' = reporterSpecDidComplete(remote, x)  BY <1>2, <1>9, ReportMade
  <2>2. remote'.announced = Append(remote.announced, x) /\ remote'.completed = remote.completed
        BY <2>1 DEF reporterSpecDidComplete, IsRemote, RemoteFields, Shape
  <2>3. remote.completed = <<>>  BY <1>9 DEF Logged
  <2>4. IsSeq(remote'.announced) /\ IsSeq(remote'.completed)  BY <1>7, <2>2, AppendSeq
  <2>5. \A k : Count(remote'.announced, k) = Count(remote.announced, k) + IF x.subject = k THEN 1 ELSE 0
        BY <1>7, <2>2, CountOfAppend
  <2>6. \A k : Count(remote'.announced, k) + Count(remote'.completed, k)
                 = Count(remote.announced, k) + Count(remote.completed, k) + IF x.subject = k THEN 1 ELSE 0
        BY <1>8, <2>2, <2>5
  <2>q. QED  BY <1>6, <1>9, <2>2, <2>3, <2>4, <2>6
<1>10. CASE job.mode = "parallel"
  <2> DEFINE r == [remote EXCEPT !.completed = Append(@, x)]
             more == Append(remote.completed, x)
  <2>1. remote' = flushCompletedSpecs(r)  BY <1>2, <1>10, ReportMade DEF registerSpecCompletion
  <2>2. /\ IsRemote(r) /\ r.begun = remote.begun /\ r.ended = remote.ended /\ r.willRun = remote.willRun
        /\ r.announced = remote.announced /\ r.completed = more
        BY DEF IsRemote, RemoteFields, Shape
  <2>3. IsSeq(more) /\ \A k : Count(more, k) = Count(remote.completed, k) + IF x.subject = k THEN 1 ELSE 0
        BY <1>7, AppendSeq, CountOfAppend
  <2> HIDE DEF r, more
  <2>4. remote'.begun = remote.begun /\ remote'.ended = remote.ended /\ remote'.willRun = remote.willRun
        BY <2>1, <2>2, Flushed
  <2>5. Logged'
    <3>1. CASE Len(remote.begun) # job.total
      <4>1. remote'.announced = remote.announced /\ remote'.completed = more  BY <2>1, <2>2, <3>1, Flushed
      <4>2. \A k : Count(remote'.announced, k) + Count(remote'.completed, k)
                     = Count(remote.announced, k) + Count(remote.completed, k) + IF x.subject = k THEN 1 ELSE 0
            BY <1>8, <2>3, <4>1
      <4>q. QED  BY <1>6, <1>7, <1>10, <2>3, <2>4, <3>1, <4>1, <4>2
    <3>2. CASE Len(remote.begun) = job.total
      <4>1. remote'.announced = remote.announced \o more /\ remote'.completed = <<>>  BY <2>1, <2>2, <3>2, Flushed
      <4>2. /\ IsSeq(remote'.announced)
            /\ \A k : Count(remote'.announced, k) = Count(remote.announced, k) + Count(more, k)
            BY <1>7, <2>3, <4>1, CountOfBoth
      <4>3. IsSeq(remote'.completed) /\ \A k : Count(remote'.completed, k) = 0  BY <4>1, NothingRan, CountOfNone
      <4>4. \A k : Count(remote'.announced, k) + Count(remote'.completed, k)
                     = Count(remote.announced, k) + Count(remote.completed, k) + IF x.subject = k THEN 1 ELSE 0
            BY <1>8, <2>3, <4>2, <4>3
      <4>q. QED  BY <1>6, <4>1, <4>2, <4>3, <4>4
    <3>q. QED  BY <3>1, <3>2
  <2>6. Begun' = Begun /\ Ended' = Ended  BY <1>1, <1>4, <1>i DEF Begun, Ended
  <2>7. \A k \in Ended : node'[k].passed = node[k].passed
    <3>1. \A k \in Ended : k # n /\ k \in NodesOfJob  BY <1>1 DEF Ended
    <3>q. QED  BY <1>i, <3>1
  <2>8. \A k \in DOMAIN remote.ended : remote.ended[k].succeeded \/ \E m \in Ended : ~node'[m].passed
        BY <1>10, <2>7 DEF Tallied
  <2>9. Tallied'  BY <1>1, <1>4, <1>10, <2>4, <2>6, <2>8 DEF Tallied
  <2>q. QED  BY <2>5, <2>9
<1>q. QED  BY <1>9, <1>10

\* A node ends.
LEMMA EndingReported ==
    ASSUME Shape, JobInv, job.mode # "gotest", NEW n \in Nodes, n \in NodesOfJob, node[n].up = "up", OnTrack(n), Passing(n),
           ~Wrong, reportSuiteDidEnd(n, "main"), Logged, job.mode = "parallel" => Tallied
    PROVE  Logged' /\ (job.mode = "parallel" => Tallied')
<1> DEFINE x == summary(node[n], "main" = "main" /\ node[n].passed)
<1>1. /\ Frame(n, {"main"}) /\ node[n].main = "end" /\ node'[n].main = "exit" /\ job' = job
      BY DidEnd DEF Shape
<1>2. Report(registerSuiteEnding(remote, x), remote)  BY DEF reportSuiteDidEnd
<1>i. \A k \in NodesOfJob : node'[k].i = node[k].i /\ node'[k].passed = node[k].passed /\ (k # n => node'[k] = node[k])
  <2>1. \A k \in NodesOfJob : k \in Nodes  BY NodeAssumption DEF Shape, NodesOfJob, Nodes
  <2>2. node'[n].i = node[n].i /\ node'[n].passed = node[n].passed  BY <1>1 DEF Frame, Agree, Fields
  <2>q. QED  BY <1>1, <2>1, <2>2 DEF Frame
<1>x. /\ x.succeeded = ("main" = "main" /\ node[n].passed) /\ x.failed = 0
      /\ x.passed = Cardinality(InState(Given[n], "invalid"))
      /\ x.pending = Cardinality(InState(Given[n], "pending"))
      /\ x.skipped = Cardinality(InState(Given[n], "skipped"))
      BY <1>1, SummaryOf DEF AfterSpecs
<1> HIDE DEF x
<1>3. CASE job.mode # "parallel"
  <2>1. remote' = remote  BY <1>2, <1>3, ReportMade
  <2>q. QED  BY <1>1, <1>3, <1>i, <2>1, LoggedSame
<1>4. CASE job.mode = "parallel"
  <2> DEFINE ended == Append(remote.ended, x)
  <2>1. /\ remote'.ended = ended /\ remote'.begun = remote.begun /\ remote'.willRun = remote.willRun
        /\ remote'.announced = remote.announced /\ remote'.completed = remote.completed
    <3> DEFINE next == IF Len(ended) < job.total THEN "loop" ELSE "result"
    <3>1. remote' = [remote EXCEPT !.ended = ended, !.mux = next]  BY <1>2, <1>4, ReportMade DEF registerSuiteEnding
    <3> HIDE DEF ended, next
    <3>q. QED  BY <3>1 DEF Shape, IsRemote, RemoteFields
  <2>2. /\ IsSeq(ended) /\ Len(ended) = Len(remote.ended) + 1 /\ Len(remote.ended) \in Nat
        /\ ended[Len(remote.ended) + 1] = x /\ \A j \in 1 .. Len(remote.ended) : ended[j] = remote.ended[j]
        BY <1>4, AppendSeq DEF Tallied, IsSeq
  <2>3. Ended' = Ended \cup {n} /\ n \notin Ended /\ Begun' = Begun
    <3>1. NodesOfJob' = NodesOfJob  BY <1>1 DEF NodesOfJob
    <3>q. QED  BY <1>1, <1>i, <3>1 DEF Begun, Ended
  <2>4. Given' = Given
    <3>1. NodesOfJob' = NodesOfJob  BY <1>1 DEF NodesOfJob
    <3>q. QED  BY <1>1, <3>1 DEF Given, Own
  <2>5. /\ AddsUp(ended, "passed", Given, Ended \cup {n}, "invalid")
        /\ AddsUp(ended, "pending", Given, Ended \cup {n}, "pending")
        /\ AddsUp(ended, "skipped", Given, Ended \cup {n}, "skipped")
    <3>1. PICK count \in Nat : DOMAIN Given[n] = 1 .. count  BY GivenSpecs
    <3>2. /\ IsSeq(remote.ended)
          /\ AddsUp(remote.ended, "passed", Given, Ended, "invalid")
          /\ AddsUp(remote.ended, "pending", Given, Ended, "pending")
          /\ AddsUp(remote.ended, "skipped", Given, Ended, "skipped")
          BY <1>4 DEF Tallied
    <3>3. x["passed"] = Cardinality(InState(Given[n], "invalid"))  BY <1>x
    <3>4. x["pending"] = Cardinality(InState(Given[n], "pending"))  BY <1>x
    <3>5. x["skipped"] = Cardinality(InState(Given[n], "skipped"))  BY <1>x
    <3>6. AddsUp(ended, "passed", Given, Ended \cup {n}, "invalid")  BY <2>3, <3>1, <3>2, <3>3, AddsUpOneMore
    <3>7. AddsUp(ended, "pending", Given, Ended \cup {n}, "pending")  BY <2>3, <3>1, <3>2, <3>4, AddsUpOneMore
    <3>8. AddsUp(ended, "skipped", Given, Ended \cup {n}, "skipped")  BY <2>3, <3>1, <3>2, <3>5, AddsUpOneMore
    <3>q. QED  BY <3>6, <3>7, <3>8
  <2>6. Total(ended, "failed") = 0
    <3>1. Total(ended, "failed") = Total(remote.ended, "failed") + x["failed"]  BY <1>4, TotalOfAppend DEF Tallied
    <3>2. Total(remote.ended, "failed") = 0 /\ x["failed"] = 0  BY <1>4, <1>x DEF Tallied
    <3>q. QED  BY <3>1, <3>2
  <2>7. \A i \in DOMAIN ended : ended[i].succeeded \/ \E k \in Ended \cup {n} : ~node'[k].passed
    <3>1. \A k \in Ended \cup {n} : node'[k].passed = node[k].passed  BY <1>i DEF Ended
    <3>2. DOMAIN ended = 1 .. Len(remote.ended) + 1 /\ DOMAIN remote.ended = 1 .. Len(remote.ended)
          BY <1>4, <2>2 DEF Tallied, IsSeq
    <3>3. \A i \in DOMAIN remote.ended : remote.ended[i].succeeded \/ \E k \in Ended : ~node[k].passed
          BY <1>4 DEF Tallied
    <3>4. ASSUME NEW i \in DOMAIN ended PROVE ended[i].succeeded \/ \E k \in Ended \cup {n} : ~node'[k].passed
      <4>1. CASE i \in 1 .. Len(remote.ended)
        <5>1. ended[i] = remote.ended[i]  BY <2>2, <4>1
        <5>2. remote.ended[i].succeeded \/ \E k \in Ended : ~node[k].passed  BY <3>2, <3>3, <4>1
        <5> HIDE DEF ended
        <5>q. QED  BY <3>1, <5>1, <5>2
      <4>2. CASE i = Len(remote.ended) + 1
        <5>1. ended[i] = x  BY <2>2, <4>2
        <5> HIDE DEF ended
        <5>q. QED  BY <1>x, <3>1, <5>1
      <4>q. QED  BY <2>2, <3>2, <4>1, <4>2
    <3>q. QED  BY <3>4
  <2> HIDE DEF ended
  <2>8. Tallied'  BY <1>1, <1>4, <2>1, <2>2, <2>3, <2>4, <2>5, <2>6, <2>7 DEF Tallied, AddsUp
  <2>9. Logged'  BY <1>1, <1>4, <1>i, <2>1, LoggedSame DEF Logged
  <2>q. QED  BY <2>8, <2>9
<1>q. QED  BY <1>3, <1>4

-----------------------------------------------------------------------------
(* The steps of a process that is on track.                                *)

\* Where the BeforeSuite, if there is one, has passed.
LEMMA TrackFrame ==
    ASSUME NEW n \in Nodes, OnTrack(n), NEW F, Frame(n, F), "specs" \notin F, "i" \notin F, "up" \notin F,
           node[n].up = "up", job' = job,
           node'[n].main = "completed" => node[n].main = "completed",
           node'[n].main \in AfterSpecs => node[n].main \in AfterSpecs,
           (node'[n].main \in InSpecs \cup AfterSpecs /\ job.suite.beforeSuite # "none") => node'[n].before = "passed"
    PROVE  OnTrack(n)'
<1> DEFINE p == node[n]
           q == node'[n]
<1>1. q.specs = p.specs /\ q.i = p.i /\ q.up = "up"  BY DEF Frame, Agree, Fields
<1>2. Own(n)' = Own(n) /\ (Lists(n)' <=> Lists(n))  BY <1>1 DEF Own, Lists
<1>3. \A j \in DOMAIN p.specs : DoneWith(q, j) => DoneWith(p, j)  BY <1>1 DEF DoneWith
<1>q. QED  BY <1>1, <1>2, <1>3 DEF OnTrack, EndedWell

\* The steps up to the specs.
LEMMA TrackBefore ==
    ASSUME Shape, NEW n \in Nodes, OnTrack(n), Passing(n), ~Wrong,
           \/ reportSuiteWillBegin(n) \/ runBeforeSuite(n) \/ runA(n) \/ postA(n) \/ waitForA(n) \/ askAlive(n) \/ runB(n)
           \/ reportBeforeSuite(n)
    PROVE  OnTrack(n)'
<1> USE DEF Shape
<1> DEFINE p == node[n]
           q == node'[n]
           F == {"main", "handler", "failer", "before", "strays", "data", "passed"}
<1>w. ASSUME NEW G, Frame(n, G), G \subseteq F PROVE Frame(n, F)  BY <1>w DEF Frame, Agree
<1>f. "specs" \notin F /\ "i" \notin F /\ "up" \notin F  OBVIOUS
<1>k. ASSUME Frame(n, F), p.up = "up", job' = job, q.main \in BeforeSpecs PROVE OnTrack(n)'
  <2> HIDE DEF F
  <2>1. q.main \notin InSpecs \cup AfterSpecs /\ q.main # "completed"  BY <1>k DEF BeforeSpecs, InSpecs, AfterSpecs
  <2>q. QED  BY <1>k, <1>f, <2>1, TrackFrame
<1>1. CASE reportSuiteWillBegin(n)
  <2>1. Frame(n, {"main", "handler"}) /\ p.up = "up" /\ q.main = "before" /\ job' = job  BY <1>1, WillBegin
  <2>q. QED  BY <1>k, <1>w, <2>1 DEF BeforeSpecs
<1>2. CASE runBeforeSuite(n)
  <2>1. CASE job.suite.beforeSuite = "simple" /\ ~p.interrupted
    <3>1. /\ Frame(n, {"failer", "before", "main", "strays"}) /\ p.up = "up" /\ job' = job
          /\ q.main = "reportBefore"
          BY <1>2, <2>1, RunSimple
    <3>q. QED  BY <1>k, <1>w, <3>1 DEF BeforeSpecs
  <2>2. CASE ~(job.suite.beforeSuite = "simple" /\ ~p.interrupted)
    <3>1. /\ Frame(n, {"main"}) /\ p.up = "up" /\ job' = job
          /\ \/ (job.suite.beforeSuite = "none" \/ p.interrupted) /\ q.main = "specs"
             \/ q.main = "waitForA"
          BY <1>2, <2>2, SetupPassedOver
    <3>2. Frame(n, F)  BY <1>w, <3>1
    <3>3. CASE q.main = "waitForA"  BY <1>k, <3>1, <3>2, <3>3 DEF BeforeSpecs
    <3>4. CASE q.main = "specs" /\ job.suite.beforeSuite = "none"
      <4> HIDE DEF F
      <4>1. q.main # "completed" /\ q.main \notin AfterSpecs  BY <3>4 DEF AfterSpecs
      <4>q. QED  BY <1>f, <3>1, <3>2, <3>4, <4>1, TrackFrame
    <3>q. QED  BY <3>1, <3>3, <3>4 DEF Passing
  <2>q. QED  BY <2>1, <2>2
<1>3. CASE runA(n)
  <2>1. PICK outcome : /\ Frame(n, {"failer", "before", "main", "data", "strays"}) /\ p.up = "up" /\ job' = job
                       /\ q.main = MainAfterA(outcome)
        BY <1>3, RunA
  <2>2. q.main \in BeforeSpecs  BY <2>1 DEF MainAfterA, BeforeSpecs
  <2>q. QED  BY <1>k, <1>w, <2>1, <2>2
<1>4. CASE postA(n)
  <2>1. Frame(n, {"main"}) /\ p.up = "up" /\ q.main \in {"runB", "reportBefore"} /\ job' = job  BY <1>4, PostA
  <2>q. QED  BY <1>k, <1>w, <2>1 DEF BeforeSpecs
<1>5. CASE waitForA(n)
  <2>1. Frame(n, {"data", "main", "before"}) /\ p.up = "up" /\ q.main \in {"runB", "askAlive", "reportBefore"} /\ job' = job
        BY <1>5, WaitForA
  <2>q. QED  BY <1>k, <1>w, <2>1 DEF BeforeSpecs
<1>5a. CASE askAlive(n)
  <2>1. Frame(n, {"main", "before"}) /\ p.up = "up" /\ q.main \in {"waitForA", "reportBefore"} /\ job' = job
        BY <1>5a, AskAlive
  <2>q. QED  BY <1>k, <1>w, <2>1 DEF BeforeSpecs
<1>6. CASE runB(n)
  <2>1. Frame(n, {"failer", "before", "main", "strays"}) /\ p.up = "up" /\ q.main = "reportBefore" /\ job' = job
        BY <1>6, RunB
  <2>q. QED  BY <1>k, <1>w, <2>1 DEF BeforeSpecs
<1>7. CASE reportBeforeSuite(n)
  <2>1. /\ Frame(n, {"passed", "main"}) /\ p.up = "up" /\ p.main = "reportBefore" /\ job' = job
        /\ q.main = IF p.before = "passed" THEN "specs" ELSE "blockIfInterrupted"
        BY <1>7, ReportBefore
  <2>2. p.before = "passed" /\ q.main = "specs" /\ q.before = p.before  BY <2>1 DEF Passing, Frame, Agree, Fields
  <2>3. q.main # "completed" /\ q.main \notin AfterSpecs  BY <2>2 DEF AfterSpecs
  <2>q. QED  BY <2>1, <2>2, <2>3, TrackFrame
<1>q. QED  BY <1>1, <1>2, <1>3, <1>4, <1>5, <1>5a, <1>6, <1>7

\* One spec is set, and the others are left alone.
LEMMA TrackSpec ==
    ASSUME Shape, NEW n \in Nodes, OnTrack(n), Passing(n), ByNow(node[n]), node[n].main \in {"specs", "runSample"},
           node[n].up = "up", node'[n].up = "up", job' = job, NEW i \in DOMAIN node[n].specs, i = node[n].i, node'[n].i = i,
           NEW spec, IsSpec(spec), spec.subject = node[n].specs[i].subject,
           node'[n].specs = [node[n].specs EXCEPT ![i] = spec],
           spec.state = Own(n)[i].state \/ (Own(n)[i].state = "invalid" /\ spec.state = "passed"),
           node'[n].main \in InSpecs, node'[n].before = node[n].before,
           node'[n].main = "completed" => spec.state # "invalid"
    PROVE  OnTrack(n)'
<1> DEFINE p == node[n]
           q == node'[n]
<1>1. Lists(n)  BY DEF OnTrack
<1>2. /\ Lists(n)' /\ DOMAIN q.specs = DOMAIN p.specs /\ q.specs[i] = spec
      /\ \A j \in DOMAIN p.specs : j # i => q.specs[j] = p.specs[j]
      BY <1>1, SetSpec
<1>3. Own(n)' = Own(n)  BY DEF Own
<1>4. i \in Nat  BY DEF ByNow
<1>5. ASSUME NEW j \in DOMAIN q.specs
      PROVE  /\ q.specs[j].state = Own(n)[j].state \/ (Own(n)[j].state = "invalid" /\ q.specs[j].state = "passed")
             /\ DoneWith(q, j) => q.specs[j].state # "invalid"
  <2>1. CASE j = i  BY <1>2, <1>4, <2>1 DEF DoneWith
  <2>2. CASE j # i  BY <1>2, <2>2 DEF DoneWith, OnTrack
  <2>q. QED  BY <2>1, <2>2
<1>6. q.main \notin AfterSpecs  BY DEF InSpecs, AfterSpecs
<1>7. p.main \in InSpecs  BY DEF InSpecs
<1>q. QED  BY <1>2, <1>3, <1>5, <1>6, <1>7 DEF OnTrack, EndedWell

\* The specs, one after the other.
LEMMA TrackSpecs ==
    ASSUME Shape, JobInv, job.mode # "gotest", NEW n \in Nodes, n \in NodesOfJob, OnTrack(n), Passing(n), ByNow(node[n]), ~Wrong,
           runSpecs(n) \/ runSample(n) \/ sampleEnds(n) \/ reportSpecDidComplete(n)
    PROVE  OnTrack(n)'
<1> USE DEF Shape
<1> DEFINE p == node[n]
           q == node'[n]
           i == p.i
<1>u. p.up = "up"  BY DEF runSpecs, runSample, sampleEnds, reportSpecDidComplete, At, IsUp
<1>l. Lists(n) /\ Own(n)' = Own(n) /\ i \in Nat
  <2>1. job' = job  BY DEF runSpecs, runSample, sampleEnds, reportSpecDidComplete
  <2>q. QED  BY <1>u, <2>1 DEF OnTrack, ByNow, Own
<1>n. PICK count \in Nat : DOMAIN p.specs = 1 .. count  BY <1>l, SpecsNumbered
<1>o. \A j \in DOMAIN Own(n) : Own(n)[j].state \in {"invalid", "pending", "skipped"}  BY GivenSpecs
<1>s. \A j \in DOMAIN p.specs : /\ IsSpec(p.specs[j]) /\ j \in DOMAIN Own(n)
                                /\ p.specs[j].state = Own(n)[j].state
                                   \/ (Own(n)[j].state = "invalid" /\ p.specs[j].state = "passed")
      BY <1>u DEF OnTrack, Lists
<1>1. CASE runSpecs(n) /\ i \notin DOMAIN p.specs
  <2>1. /\ Frame(n, {"main", "passed"}) /\ p.main = "specs" /\ q.main = "blockIfInterrupted" /\ job' = job
        BY <1>1, RunSpecsEnd
  <2>2. q.specs = p.specs /\ q.i = i /\ q.up = "up" /\ q.before = p.before  BY <1>u, <2>1 DEF Frame, Agree, Fields
  <2>3. Lists(n)'  BY <1>l, <2>2 DEF Lists
  <2>4. \A j \in DOMAIN p.specs : j < i  BY <1>1, <1>l, <1>n DEF ByNow
  <2>5. p.main \in InSpecs /\ \A j \in DOMAIN p.specs : DoneWith(p, j)  BY <2>1, <2>4 DEF InSpecs, DoneWith
  <2>q. QED  BY <1>l, <1>u, <2>1, <2>2, <2>3, <2>4, <2>5 DEF OnTrack, EndedWell
<1>2. CASE runSpecs(n) /\ i \in DOMAIN p.specs
  <2>0. ~p.interrupted /\ NextSpec(n) = p.specs[i]  BY DEF Passing, NextSpec
  <2>1. CASE Runs(NextSpec(n))
    <3>1. /\ Frame(n, {"specs", "todo", "unwinding", "state", "ran", "main", "sample"}) /\ p.main = "specs"
          /\ q.main = "runSample" /\ q.specs = [p.specs EXCEPT ![i] = NextSpec(n)] /\ job' = job
          BY <1>2, <2>0, <2>1, RunSpecsRun
    <3>2. q.up = "up" /\ q.i = i /\ q.before = p.before  BY <1>u, <3>1 DEF Frame, Agree, Fields
    <3>q. QED  BY <1>2, <1>s, <1>u, <2>0, <3>1, <3>2, TrackSpec DEF InSpecs
  <2>2. CASE ~Runs(NextSpec(n))
    <3>1. /\ Frame(n, {"specs", "main", "suiteFailed"}) /\ p.main = "specs"
          /\ q.main = "completed" /\ q.specs = [p.specs EXCEPT ![i] = NextSpec(n)] /\ job' = job
          BY <1>2, <2>0, <2>2, RunSpecsPass
    <3>2. q.up = "up" /\ q.i = i /\ q.before = p.before  BY <1>u, <3>1 DEF Frame, Agree, Fields
    <3>3. NextSpec(n).state # "invalid"  BY <2>2 DEF Runs, Skipped, Pending
    <3>q. QED  BY <1>2, <1>s, <1>u, <2>0, <3>1, <3>2, <3>3, TrackSpec DEF InSpecs
  <2>q. QED  BY <2>1, <2>2
<1>3. CASE runSample(n)
  <2>1. /\ Frame(n, {"failer", "ran", "state", "todo", "unwinding", "strays"}) /\ p.main = "runSample" /\ job' = job
        BY <1>3, RunSample
  <2>2. q.main = p.main /\ q.before = p.before  BY <2>1 DEF Frame, Agree, Fields
  <2>3. (q.main \in InSpecs \cup AfterSpecs /\ job.suite.beforeSuite # "none") => q.before = "passed"  BY <2>2 DEF OnTrack
  <2>q. QED  BY <1>u, <2>1, <2>2, <2>3, TrackFrame
<1>4. CASE sampleEnds(n) /\ MoreSamples(n)
  <2>1. /\ Frame(n, {"todo", "unwinding", "state", "ran", "sample"}) /\ p.main = "runSample" /\ job' = job
        BY <1>4, SampleAgain
  <2>2. q.main = p.main /\ q.before = p.before  BY <2>1 DEF Frame, Agree, Fields
  <2>3. (q.main \in InSpecs \cup AfterSpecs /\ job.suite.beforeSuite # "none") => q.before = "passed"  BY <2>2 DEF OnTrack
  <2>q. QED  BY <1>u, <2>1, <2>2, <2>3, TrackFrame
<1>5. CASE sampleEnds(n) /\ ~MoreSamples(n)
  <2> DEFINE spec == [p.specs[i] EXCEPT !.state = p.state]
  <2>1. /\ Frame(n, {"specs", "main", "suiteFailed"}) /\ p.main = "runSample" /\ q.main = "completed"
        /\ q.specs = [p.specs EXCEPT ![i].state = p.state] /\ job' = job
        BY <1>5, SampleLast
  <2>2. q.up = "up" /\ q.i = i /\ q.before = p.before  BY <1>u, <2>1 DEF Frame, Agree, Fields
  <2>3. i \in DOMAIN p.specs  BY <2>1 DEF ByNow
  <2>4. IsSpec(spec) /\ spec.subject = p.specs[i].subject /\ spec.state = "passed"
    <3>1. IsSpec(p.specs[i]) /\ p.state = "passed"  BY <1>s, <2>1, <2>3 DEF Passing
    <3>q. QED  BY <3>1 DEF IsSpec
  <2>5. q.specs = [p.specs EXCEPT ![i] = spec]  BY <2>1
  <2>6. Own(n)[i].state = "invalid"
    <3>1. Runs(p.specs[i])  BY <2>1 DEF Passing
    <3>q. QED  BY <1>o, <1>s, <2>3, <3>1 DEF Runs, Skipped, Pending
  <2> HIDE DEF spec
  <2>q. QED  BY <1>u, <2>1, <2>2, <2>3, <2>4, <2>5, <2>6, TrackSpec DEF InSpecs
<1>6. CASE reportSpecDidComplete(n)
  <2>1. /\ Frame(n, {"i", "main", "skipRemaining"}) /\ p.main = "completed" /\ q.main = "specs" /\ q.i = i + 1 /\ job' = job
        BY <1>6, DidComplete
  <2>2. q.specs = p.specs /\ q.up = "up" /\ q.before = p.before  BY <1>u, <2>1 DEF Frame, Agree, Fields
  <2>3. Lists(n)'  BY <1>l, <2>1, <2>2 DEF Lists
  <2>4. \A j \in DOMAIN p.specs : DoneWith(q, j) => DoneWith(p, j)
    <3>1. \A j \in DOMAIN p.specs : j \in Nat  BY <1>n
    <3>q. QED  BY <1>l, <2>1, <3>1 DEF DoneWith
  <2>5. q.main \notin AfterSpecs /\ p.main \in InSpecs  BY <2>1 DEF AfterSpecs, InSpecs
  <2>q. QED  BY <1>l, <1>u, <2>1, <2>2, <2>3, <2>4, <2>5 DEF OnTrack, EndedWell
<1>q. QED  BY <1>1, <1>2, <1>3, <1>4, <1>5, <1>6

\* The AfterSuite and the end.
LEMMA TrackAfter ==
    ASSUME Shape, NEW n \in Nodes, OnTrack(n), Finish(n, "main")
    PROVE  OnTrack(n)'
<1> USE DEF Shape
<1> DEFINE p == node[n]
           q == node'[n]
           F == {"failer", "after", "strays", "tornDown", "passed", "main"}
<1>g. "main" \in {"main", "handler"}  OBVIOUS
<1>w. ASSUME NEW G, Frame(n, G), G \subseteq F PROVE Frame(n, F)  BY <1>w DEF Frame, Agree
<1>k. ASSUME Frame(n, F), p.up = "up", job' = job, p.main \in AfterSpecs, q.main \in AfterSpecs PROVE OnTrack(n)'
  <2>1. q.before = p.before  BY <1>k DEF Frame, Agree, Fields
  <2>2. "specs" \notin F /\ "i" \notin F /\ "up" \notin F  OBVIOUS
  <2>3. q.main # "completed"  BY <1>k DEF AfterSpecs
  <2>4. job.suite.beforeSuite # "none" => q.before = "passed"  BY <1>k, <2>1 DEF OnTrack
  <2> HIDE DEF F
  <2>q. QED  BY <1>k, <2>2, <2>3, <2>4, TrackFrame
<1>1. CASE runAfterSuite(n, "main") /\ job.suite.afterSuite = "none"
  <2>1. Frame(n, {"main"}) /\ p.up = "up" /\ p.main = "after" /\ q.main = "end" /\ job' = job  BY <1>1, <1>g, NoAfterSuite
  <2>q. QED  BY <1>k, <1>w, <2>1 DEF AfterSpecs
<1>2. CASE runAfterSuite(n, "main") /\ job.suite.afterSuite # "none"
  <2>1. /\ Frame(n, {"failer", "after", "main", "strays"}) /\ p.up = "up" /\ p.main = "after" /\ q.main = AfterBodyA(n)
        /\ job' = job
        BY <1>2, <1>g, RunAfter
  <2>2. q.main \in AfterSpecs  BY <2>1 DEF AfterBodyA, AfterSpecs
  <2>q. QED  BY <1>k, <1>w, <2>1, <2>2 DEF AfterSpecs
<1>3. CASE waitUntilOtherNodesAreDone(n, "main")
  <2>1. Frame(n, {"main"}) /\ p.up = "up" /\ p.main = "waitForOthers" /\ q.main = "runAfterB" /\ job' = job
        BY <1>3, <1>g, OthersAreDone
  <2>q. QED  BY <1>k, <1>w, <2>1 DEF AfterSpecs
<1>4. CASE runAfterB(n, "main")
  <2>1. /\ Frame(n, {"failer", "after", "main", "tornDown", "strays"}) /\ p.up = "up" /\ p.main = "runAfterB"
        /\ q.main = "reportAfter" /\ job' = job
        BY <1>4, <1>g, RunAfterB
  <2>q. QED  BY <1>k, <1>w, <2>1 DEF AfterSpecs
<1>5. CASE reportAfterSuite(n, "main")
  <2>1. Frame(n, {"main", "passed"}) /\ p.up = "up" /\ p.main = "reportAfter" /\ q.main = "end" /\ job' = job
        BY <1>5, <1>g, ReportAfter
  <2>q. QED  BY <1>k, <1>w, <2>1 DEF AfterSpecs
<1>6. CASE reportSuiteDidEnd(n, "main")
  <2>1. Frame(n, {"main"}) /\ p.up = "up" /\ p.main = "end" /\ q.main = "exit" /\ job' = job  BY <1>6, <1>g, DidEnd
  <2>q. QED  BY <1>k, <1>w, <2>1 DEF AfterSpecs
<1>7. CASE Exits(n, "main")
  <2>1. /\ Frame(n, {"up", "code"}) /\ p.up = "up" /\ p.main = "exit" /\ job' = job
        /\ q.up = "gone" /\ q.code = SuiteRun(p)
        BY <1>7, <1>g, Exit
  <2>2. q.specs = p.specs /\ q.i = p.i /\ q.main = p.main /\ q.before = p.before /\ q.passed = p.passed
        BY <2>1 DEF Frame, Agree, Fields
  <2>3. Own(n)' = Own(n) /\ (Lists(n)' <=> Lists(n))  BY <2>1, <2>2 DEF Own, Lists
  <2>4. \A j \in DOMAIN p.specs : DoneWith(q, j) => DoneWith(p, j)  BY <2>2 DEF DoneWith
  <2>5. EndedWell(q) => q.passed  BY <2>1, <2>2 DEF EndedWell, SuiteRun, FocusExitCode
  <2>q. QED  BY <2>1, <2>2, <2>3, <2>4, <2>5 DEF OnTrack
<1>q. QED  BY <1>1, <1>2, <1>3, <1>4, <1>5, <1>6, <1>7 DEF Finish

\* Every step of a process.
LEMMA TrackOwn ==
    ASSUME Shape, JobInv, job.mode # "gotest", NEW n \in Nodes, node[n].up = "up", ProcVerdict(n), ~cli.typed, Smooth(n), ~Wrong,
           OwnStep(n), OnTrack(n)
    PROVE  OnTrack(n)'
<1> USE DEF Shape
<1> DEFINE p == node[n]
           q == node'[n]
<1>1. Passing(n) /\ ByNow(p) /\ n \in NodesOfJob /\ Undisturbed(p)  BY DEF Smooth, ProcVerdict
<1>2. CASE \/ reportSuiteWillBegin(n) \/ runBeforeSuite(n) \/ runA(n) \/ postA(n) \/ waitForA(n) \/ askAlive(n) \/ runB(n)
           \/ reportBeforeSuite(n)
      BY <1>1, <1>2, TrackBefore
<1>3. CASE runSpecs(n) \/ runSample(n) \/ sampleEnds(n) \/ reportSpecDidComplete(n)
      BY <1>1, <1>3, TrackSpecs
<1>4. CASE blockForeverIfInterrupted(n)
  <2>1. /\ Frame(n, {"main"}) /\ p.main = "blockIfInterrupted" /\ job' = job
        /\ q.main = IF p.interrupted THEN "blocked" ELSE "after"
        BY <1>4, Blocks
  <2>2. q.main = "after" /\ q.before = p.before  BY <1>1, <2>1 DEF Passing, Frame, Agree, Fields
  <2>3. p.main \in AfterSpecs /\ q.main \in AfterSpecs /\ q.main # "completed"  BY <2>1, <2>2 DEF AfterSpecs
  <2>4. job.suite.beforeSuite # "none" => q.before = "passed"  BY <2>2, <2>3 DEF OnTrack
  <2>q. QED  BY <2>1, <2>3, <2>4, TrackFrame
<1>5. CASE GoTestEnds(n)  BY <1>5 DEF GoTestEnds
<1>6. CASE Finish(n, "main")  BY <1>6, TrackAfter
<1>7. CASE registerForInterrupts(n)
  <2>1. Frame(n, {"handler"}) /\ job' = job  BY <1>7, Registers
  <2>2. q.main = p.main /\ q.before = p.before  BY <2>1 DEF Frame, Agree, Fields
  <2>3. (q.main \in InSpecs \cup AfterSpecs /\ job.suite.beforeSuite # "none") => q.before = "passed"  BY <2>2 DEF OnTrack
  <2>q. QED  BY <2>1, <2>2, <2>3, TrackFrame
<1>8. CASE markInterrupted(n)  BY <1>1, <1>8, Marked DEF Undisturbed
<1>9. CASE Finish(n, "handler")
  <2>1. p.handler \in {"after", "waitForOthers", "runAfterB", "reportAfter", "end", "exit"}
        BY <1>9 DEF Finish, runAfterSuite, waitUntilOtherNodesAreDone, runAfterB, reportAfterSuite,
                    reportSuiteDidEnd, Exits, AtIn
  <2>q. QED  BY <1>1, <2>1 DEF Undisturbed
<1>10. CASE StrayFails(n)  BY <1>1, <1>10 DEF StrayFails, Passing
<1>11. CASE Crash(n)  BY <1>11, Crashes
<1>q. QED  BY <1>2, <1>3, <1>4, <1>5, <1>6, <1>7, <1>8, <1>9, <1>10, <1>11 DEF OwnStep, Main, Handler

-----------------------------------------------------------------------------
(* The steps that report, and the others.                                  *)

Quiet(n) == QuietNode(n) /\ QuietRemote

\* Nothing is reported, unless one of three reports is made.
LEMMA QuietBefore ==
    ASSUME Shape, Logged, NEW n \in Nodes, ~Wrong,
           runBeforeSuite(n) \/ runA(n) \/ postA(n) \/ waitForA(n) \/ askAlive(n) \/ runB(n)
           \/ reportBeforeSuite(n)
    PROVE  Quiet(n)
<1> USE DEF Shape
<1> DEFINE p == node[n]
           q == node'[n]
<1>k. ASSUME NEW F, Frame(n, F), "i" \notin F, p.main \notin {"begin", "exit"}, q.main \notin {"begin", "exit"}, QuietRemote
      PROVE  Quiet(n)
  <2>1. q.i = p.i  BY <1>k DEF Frame, Agree, Fields
  <2>q. QED  BY <1>k, <2>1 DEF Quiet, QuietNode
<1>r. ASSUME remote' = remote PROVE QuietRemote  BY <1>r DEF QuietRemote
<1>2. CASE runBeforeSuite(n)
  <2>1. CASE job.suite.beforeSuite = "simple" /\ ~p.interrupted
    <3>1. /\ Frame(n, {"failer", "before", "main", "strays"}) /\ p.main = "before" /\ q.main = "reportBefore"
          /\ remote' = remote
          BY <1>2, <2>1, RunSimple
    <3>q. QED  BY <1>k, <1>r, <3>1
  <2>2. CASE ~(job.suite.beforeSuite = "simple" /\ ~p.interrupted)
    <3>1. /\ Frame(n, {"main"}) /\ p.main = "before" /\ remote' = remote
          /\ q.main = "specs" \/ q.main = "waitForA"
          BY <1>2, <2>2, SetupPassedOver
    <3>q. QED  BY <1>k, <1>r, <3>1
  <2>q. QED  BY <2>1, <2>2
<1>3. CASE runA(n)
  <2>1. PICK outcome : /\ Frame(n, {"failer", "before", "main", "data", "strays"}) /\ p.main = "before"
                       /\ q.main = MainAfterA(outcome) /\ remote' = remote
        BY <1>3, RunA
  <2>2. q.main \notin {"begin", "exit"}  BY <2>1 DEF MainAfterA
  <2>q. QED  BY <1>k, <1>r, <2>1, <2>2
<1>4. CASE postA(n)
  <2>1. Frame(n, {"main"}) /\ p.main = "postA" /\ q.main \in {"runB", "reportBefore"}  BY <1>4, PostA
  <2>2. QuietRemote
    <3> DEFINE data == RemoteBeforeSuiteData(IF p.before = "passed" THEN "passed" ELSE "failed", p.data)
    <3>1. remote' = [remote EXCEPT !.beforeSuiteData = data] \/ remote' = remote  BY <1>4 DEF postA
    <3> HIDE DEF data
    <3>q. QED  BY <3>1 DEF QuietRemote, IsRemote, RemoteFields
  <2>q. QED  BY <1>k, <2>1, <2>2
<1>5. CASE waitForA(n)
  <2>1. /\ Frame(n, {"data", "main", "before"}) /\ p.main = "waitForA" /\ remote' = remote
        /\ q.main \in {"runB", "askAlive", "reportBefore"}
        BY <1>5, WaitForA
  <2>q. QED  BY <1>k, <1>r, <2>1
<1>5a. CASE askAlive(n)
  <2>1. Frame(n, {"main", "before"}) /\ p.main = "askAlive" /\ q.main \in {"waitForA", "reportBefore"} /\ remote' = remote
        BY <1>5a, AskAlive
  <2>q. QED  BY <1>k, <1>r, <2>1
<1>6. CASE runB(n)
  <2>1. Frame(n, {"failer", "before", "main", "strays"}) /\ p.main = "runB" /\ q.main = "reportBefore" /\ remote' = remote
        BY <1>6, RunB
  <2>q. QED  BY <1>k, <1>r, <2>1
<1>7. CASE reportBeforeSuite(n)
  <2>1. Frame(n, {"passed", "main"}) /\ p.main = "reportBefore" /\ q.main \in {"specs", "blockIfInterrupted"}
        BY <1>7, ReportBefore
  <2>2. QuietRemote  BY <1>7, SetupReportsQuiet DEF reportBeforeSuite
  <2>q. QED  BY <1>k, <2>1, <2>2
<1>q. QED  BY <1>2, <1>3, <1>4, <1>5, <1>5a, <1>6, <1>7

LEMMA QuietAfter ==
    ASSUME Shape, Logged, NEW n \in Nodes, ~Wrong,
           \/ runSpecs(n) \/ runSample(n) \/ sampleEnds(n) \/ blockForeverIfInterrupted(n) \/ registerForInterrupts(n)
           \/ Finish(n, "main") /\ ~reportSuiteDidEnd(n, "main")
    PROVE  Quiet(n)
<1> USE DEF Shape
<1> DEFINE p == node[n]
           q == node'[n]
<1>g. "main" \in {"main", "handler"}  OBVIOUS
<1>k. ASSUME NEW F, Frame(n, F), "i" \notin F, p.main \notin {"begin", "exit"}, q.main \notin {"begin", "exit"}, QuietRemote
      PROVE  Quiet(n)
  <2>1. q.i = p.i  BY <1>k DEF Frame, Agree, Fields
  <2>q. QED  BY <1>k, <2>1 DEF Quiet, QuietNode
<1>m. ASSUME NEW F, Frame(n, F), "i" \notin F, "main" \notin F, "passed" \notin F, QuietRemote PROVE Quiet(n)
  <2>1. q.i = p.i /\ q.main = p.main /\ q.passed = p.passed  BY <1>m DEF Frame, Agree, Fields
  <2>q. QED  BY <1>m, <2>1 DEF Quiet, QuietNode
<1>r. ASSUME remote' = remote PROVE QuietRemote  BY <1>r DEF QuietRemote
<1>1. CASE runSpecs(n)
  <2>1. CASE p.interrupted \/ p.i \notin DOMAIN p.specs
    <3>1. Frame(n, {"main", "passed"}) /\ p.main = "specs" /\ q.main = "blockIfInterrupted" /\ remote' = remote
          BY <1>1, <2>1, RunSpecsEnd
    <3>q. QED  BY <1>k, <1>r, <3>1
  <2>2. CASE ~p.interrupted /\ p.i \in DOMAIN p.specs /\ Runs(NextSpec(n))
    <3>1. /\ Frame(n, {"specs", "todo", "unwinding", "state", "ran", "main", "sample"}) /\ p.main = "specs"
          /\ q.main = "runSample" /\ remote' = remote
          BY <1>1, <2>2, RunSpecsRun
    <3>q. QED  BY <1>k, <1>r, <3>1
  <2>3. CASE ~p.interrupted /\ p.i \in DOMAIN p.specs /\ ~Runs(NextSpec(n))
    <3>1. Frame(n, {"specs", "main", "suiteFailed"}) /\ p.main = "specs" /\ q.main = "completed" /\ remote' = remote
          BY <1>1, <2>3, RunSpecsPass
    <3>q. QED  BY <1>k, <1>r, <3>1
  <2>q. QED  BY <2>1, <2>2, <2>3
<1>2. CASE runSample(n)
  <2>1. Frame(n, {"failer", "ran", "state", "todo", "unwinding", "strays"}) /\ remote' = remote  BY <1>2, RunSample
  <2>q. QED  BY <1>m, <1>r, <2>1
<1>3. CASE sampleEnds(n)
  <2>1. CASE MoreSamples(n)
    <3>1. Frame(n, {"todo", "unwinding", "state", "ran", "sample"}) /\ remote' = remote  BY <1>3, <2>1, SampleAgain
    <3>q. QED  BY <1>m, <1>r, <3>1
  <2>2. CASE ~MoreSamples(n)
    <3>1. Frame(n, {"specs", "main", "suiteFailed"}) /\ p.main = "runSample" /\ q.main = "completed" /\ remote' = remote
          BY <1>3, <2>2, SampleLast
    <3>q. QED  BY <1>k, <1>r, <3>1
  <2>q. QED  BY <2>1, <2>2
<1>4. CASE blockForeverIfInterrupted(n)
  <2>1. Frame(n, {"main"}) /\ p.main = "blockIfInterrupted" /\ q.main \in {"blocked", "after"} /\ remote' = remote
        BY <1>4, Blocks
  <2>q. QED  BY <1>k, <1>r, <2>1
<1>5. CASE registerForInterrupts(n)
  <2>1. Frame(n, {"handler"}) /\ remote' = remote  BY <1>5, Registers
  <2>q. QED  BY <1>m, <1>r, <2>1
<1>6. CASE runAfterSuite(n, "main") /\ job.suite.afterSuite = "none"
  <2>1. Frame(n, {"main"}) /\ p.main = "after" /\ q.main = "end" /\ remote' = remote  BY <1>6, <1>g, NoAfterSuite
  <2>q. QED  BY <1>k, <1>r, <2>1
<1>7. CASE runAfterSuite(n, "main") /\ job.suite.afterSuite # "none"
  <2>1. Frame(n, {"failer", "after", "main", "strays"}) /\ p.main = "after" /\ q.main = AfterBodyA(n) /\ remote' = remote
        BY <1>7, <1>g, RunAfter
  <2>2. q.main \notin {"begin", "exit"}  BY <2>1 DEF AfterBodyA
  <2>q. QED  BY <1>k, <1>r, <2>1, <2>2
<1>8. CASE waitUntilOtherNodesAreDone(n, "main")
  <2>1. Frame(n, {"main"}) /\ p.main = "waitForOthers" /\ q.main = "runAfterB" /\ remote' = remote
        BY <1>8, <1>g, OthersAreDone
  <2>q. QED  BY <1>k, <1>r, <2>1
<1>9. CASE runAfterB(n, "main")
  <2>1. /\ Frame(n, {"failer", "after", "main", "tornDown", "strays"}) /\ p.main = "runAfterB"
        /\ q.main = "reportAfter" /\ remote' = remote
        BY <1>9, <1>g, RunAfterB
  <2>q. QED  BY <1>k, <1>r, <2>1
<1>10. CASE reportAfterSuite(n, "main")
  <2>1. Frame(n, {"main", "passed"}) /\ p.main = "reportAfter" /\ q.main = "end"  BY <1>10, <1>g, ReportAfter
  <2>2. QuietRemote  BY <1>10, SetupReportsQuiet DEF reportAfterSuite
  <2>q. QED  BY <1>k, <2>1, <2>2
<1>11. CASE Exits(n, "main")
  <2>1. Frame(n, {"up", "code"}) /\ remote' = remote  BY <1>11, <1>g, Exit
  <2>q. QED  BY <1>m, <1>r, <2>1
<1>q. QED  BY <1>1, <1>2, <1>3, <1>4, <1>5, <1>6, <1>7, <1>8, <1>9, <1>10, <1>11 DEF Finish

\* A process that was waited for, at most, is on track as before.
LEMMA TrackSame ==
    ASSUME NEW n \in Nodes, OnTrack(n), job' = job, Agree(node[n], node'[n], {"reaped"})
    PROVE  OnTrack(n)'
<1>1. /\ node'[n].specs = node[n].specs /\ node'[n].i = node[n].i /\ node'[n].up = node[n].up
      /\ node'[n].main = node[n].main /\ node'[n].before = node[n].before /\ node'[n].code = node[n].code
      /\ node'[n].passed = node[n].passed
      BY DEF Agree, Fields
<1>2. Own(n)' = Own(n) /\ (Lists(n)' <=> Lists(n))  BY <1>1 DEF Own, Lists
<1>3. \A j \in DOMAIN node[n].specs : DoneWith(node[n], j)' <=> DoneWith(node[n], j)  BY <1>1 DEF DoneWith
<1>q. QED  BY <1>1, <1>2, <1>3 DEF OnTrack, EndedWell

\* Where all is in order with the reports and the processes.
InOrder == Logged /\ (job.mode = "parallel" => Tallied) /\ \A n \in Nodes : OnTrack(n)

\* A step that reports nothing.
LEMMA ReportedSame ==
    ASSUME Shape, InOrder, job' = job, \A n \in Nodes : QuietNode(n), QuietRemote
    PROVE  Logged' /\ (job.mode = "parallel" => Tallied')
<1>1. \A n \in NodesOfJob : QuietNode(n)  BY NodeAssumption DEF Shape, NodesOfJob, Nodes
<1>2. Logged'  BY <1>1, LoggedSame DEF InOrder, QuietNode, QuietRemote, Logged
<1>3. job.mode = "parallel" => Tallied'  BY <1>1, TalliedSame DEF InOrder, QuietRemote
<1>q. QED  BY <1>2, <1>3

\* Every step of a process.
LEMMA OwnReported ==
    ASSUME Shape, JobInv, job.mode # "gotest", NEW n \in Nodes, ProcVerdict(n), ~cli.typed, Smooth(n), ~Wrong,
           OwnStep(n), InOrder
    PROVE  InOrder'
<1> USE DEF Shape
<1> DEFINE p == node[n]
<1>0. p.up = "up" /\ (\A k \in Nodes \ {n} : node'[k] = node[k]) /\ job' = job
  <2>1. CASE Main(n)  BY <2>1, MainUp, OwnStepShape
  <2>2. CASE Finish(n, "main") \/ Handler(n) \/ StrayFails(n) \/ Crash(n)  BY <2>2, RestUp, OwnStepShape
  <2>q. QED  BY <2>1, <2>2 DEF OwnStep
<1>1. /\ Passing(n) /\ ByNow(p) /\ n \in NodesOfJob /\ Undisturbed(p) /\ OnTrack(n) /\ Logged
      /\ job.mode = "parallel" => Tallied
      BY <1>0 DEF Smooth, ProcVerdict, InOrder
<1>2. \A k \in Nodes : OnTrack(k)'
  <2>1. OnTrack(n)'  BY <1>0, <1>1, TrackOwn
  <2>2. ASSUME NEW k \in Nodes \ {n} PROVE OnTrack(k)'
    <3>1. Agree(node[k], node'[k], {"reaped"})  BY <1>0 DEF Agree
    <3>q. QED  BY <1>0, <3>1, TrackSame DEF InOrder
  <2>q. QED  BY <2>1, <2>2
<1>q1. ASSUME Quiet(n) PROVE Logged' /\ (job.mode = "parallel" => Tallied')
  <2>1. \A k \in Nodes : QuietNode(k)  BY <1>0, <1>q1 DEF QuietNode, Quiet
  <2>q. QED  BY <1>0, <1>q1, <2>1, ReportedSame DEF Quiet
<1>3. Logged' /\ (job.mode = "parallel" => Tallied')
  <2>1. CASE reportSuiteWillBegin(n)  BY <1>0, <1>1, <2>1, BeginningReported
  <2>2. CASE reportSpecDidComplete(n)  BY <1>0, <1>1, <2>2, CompletionReported
  <2>3. CASE reportSuiteDidEnd(n, "main")  BY <1>0, <1>1, <2>3, EndingReported
  <2>4. CASE runBeforeSuite(n) \/ runA(n) \/ postA(n) \/ waitForA(n) \/ askAlive(n) \/ runB(n)
           \/ reportBeforeSuite(n)
        BY <1>1, <1>q1, <2>4, QuietBefore
  <2>5. CASE \/ runSpecs(n) \/ runSample(n) \/ sampleEnds(n) \/ blockForeverIfInterrupted(n) \/ registerForInterrupts(n)
             \/ Finish(n, "main") /\ ~reportSuiteDidEnd(n, "main")
        BY <1>1, <1>q1, <2>5, QuietAfter
  <2>6. CASE GoTestEnds(n)  BY <2>6 DEF GoTestEnds
  <2>7. CASE markInterrupted(n)  BY <1>1, <2>7, Marked DEF Undisturbed
  <2>8. CASE Finish(n, "handler")
    <3>1. p.handler \in {"after", "waitForOthers", "runAfterB", "reportAfter", "end", "exit"}
          BY <2>8 DEF Finish, runAfterSuite, waitUntilOtherNodesAreDone, runAfterB, reportAfterSuite,
                      reportSuiteDidEnd, Exits, AtIn
    <3>q. QED  BY <1>1, <3>1 DEF Undisturbed
  <2>9. CASE StrayFails(n)  BY <1>1, <2>9 DEF StrayFails, Passing
  <2>10. CASE Crash(n)  BY <2>10, Crashes
  <2>q. QED  BY <2>1, <2>2, <2>3, <2>4, <2>5, <2>6, <2>7, <2>8, <2>9, <2>10 DEF OwnStep, Main, Handler
<1>q. QED  BY <1>0, <1>2, <1>3 DEF InOrder

\* A process is started.
LEMMA StartReported ==
    ASSUME Shape, JobInv, AtRisk, NEW n \in Nodes, Start(n), ~Wrong, InOrder, ProcVerdict(n)'
    PROVE  InOrder'
<1> USE DEF Shape
<1> DEFINE q == node'[n]
<1>1. /\ job' = job /\ remote' = remote /\ n <= job.total /\ node[n].up = "off"
      /\ \A k \in Nodes \ {n} : node'[k] = node[k]
      /\ Agree(Off, q, {"up", "specs", "focused"}) /\ q.up = "up"
      /\ q.specs = Own(n)
      BY Starts DEF Frame, AtRisk, Own
<1>2. q.main = "begin" /\ q.i = 1  BY <1>1, OffIsProc DEF Agree, Fields
<1>3. node[n].main = "begin" /\ node[n].i = 1  BY <1>1 DEF InOrder, OnTrack
<1>4. Logged' /\ (job.mode = "parallel" => Tallied')
  <2>1. \A k \in Nodes : QuietNode(k)  BY <1>1, <1>2, <1>3 DEF QuietNode
  <2>2. QuietRemote  BY <1>1 DEF QuietRemote
  <2>q. QED  BY <1>1, <2>1, <2>2, ReportedSame
<1>5. OnTrack(n)'
  <2>1. Lists(n)' /\ Own(n)' = Own(n)  BY <1>1 DEF ProcVerdict, Own
  <2>2. n \in NodesOfJob /\ job.mode # "gotest"  BY <1>1, NodeAssumption DEF NodesOfJob, Nodes, AtRisk
  <2>3. \A j \in DOMAIN Own(n) : ~(j < 1)  BY <2>2, GivenSpecs
  <2>4. \A j \in DOMAIN q.specs : ~DoneWith(q, j)  BY <1>1, <1>2, <2>3 DEF DoneWith
  <2>q. QED  BY <1>1, <1>2, <2>1, <2>4 DEF OnTrack, AfterSpecs, InSpecs, EndedWell
<1>6. ASSUME NEW k \in Nodes \ {n} PROVE OnTrack(k)'
  <2>1. Agree(node[k], node'[k], {"reaped"})  BY <1>1 DEF Agree
  <2>q. QED  BY <1>1, <2>1, TrackSame DEF InOrder
<1>q. QED  BY <1>1, <1>4, <1>5, <1>6 DEF InOrder

\* Processes that were not started have reported nothing.
LEMMA NothingReported ==
    ASSUME Shape', AllOff, remote' = NewRemote, job'.mode = "parallel" => job'.total # 0
    PROVE  InOrder'
<1>1. /\ NewRemote.begun = <<>> /\ NewRemote.completed = <<>> /\ NewRemote.announced = <<>> /\ NewRemote.ended = <<>>
      BY DEF NewRemote, NewAggregator, NewServer
<1>2. \A n \in NodesOfJob' : n \in Nodes /\ node'[n] = Off  BY AllOffProcs, NodeAssumption DEF Shape, NodesOfJob, Nodes
<1>3. IsSeq(<<>>) /\ Len(<<>>) = 0 /\ DOMAIN <<>> = {}  BY NothingRan
<1>4. Logged'
  <2>1. ASSUME NEW k PROVE Told(k)' = {}
    <3>1. \A e \in NodesOfJob' \X (Nat \ {0}) : node'[e[1]].i = 1 /\ ~(e[2] < 1)  BY <1>2, OffIsProc
    <3>q. QED  BY <3>1 DEF Told
  <2>2. \A k : Count(remote'.announced, k) = 0 /\ Count(remote'.completed, k) = 0  BY <1>1, CountOfNone
  <2>3. \A k : Count(remote.announced, k)' = 0 /\ Count(remote.completed, k)' = 0  BY <2>2 DEF Count, Mentions
  <2>4. IsFiniteSet({}) /\ Cardinality({}) = 0  BY FS_EmptySet
  <2>5. IsSeq(remote.announced)' /\ IsSeq(remote.completed)'  BY <1>1, <1>3 DEF IsSeq
  <2>6. \A k : IsFiniteSet(Told(k)') /\ Cardinality(Told(k)') = 0  BY <2>1, <2>4
  <2>7. \A k : /\ IsFiniteSet(Told(k)')
               /\ Count(remote.announced, k)' + Count(remote.completed, k)' = Cardinality(Told(k)')
        BY <2>3, <2>6
  <2>8. remote'.completed = <<>>  BY <1>1
  <2>q. QED  BY <2>5, <2>7, <2>8 DEF Logged
<1>5. ASSUME job'.mode = "parallel" PROVE Tallied'
  <2>1. Begun' = {} /\ Ended' = {}  BY <1>2, OffIsProc DEF Begun, Ended
  <2>2. IsFiniteSet({}) /\ Cardinality({}) = 0  BY FS_EmptySet
  <2>3. /\ AddsUp(remote'.begun, "willRun", Given', Begun', "invalid")
        /\ AddsUp(remote'.ended, "passed", Given', Ended', "invalid")
        /\ AddsUp(remote'.ended, "pending", Given', Ended', "pending")
        /\ AddsUp(remote'.ended, "skipped", Given', Ended', "skipped")
        BY <1>1, <2>1, AddsUpNothing
  <2>4. Total(remote'.ended, "failed") = 0  BY <1>1, TotalOfNone
  <2>q. QED  BY <1>1, <1>3, <1>5, <2>1, <2>2, <2>3, <2>4 DEF Tallied
<1>6. \A n \in Nodes : OnTrack(n)'
  <2>1. \A n \in Nodes : node'[n] = Off  BY AllOffProcs
  <2>q. QED  BY <2>1, OffIsProc DEF OnTrack, AfterSpecs, InSpecs, EndedWell
<1>q. QED  BY <1>4, <1>5, <1>6 DEF InOrder

\* A process that panics while it builds its tree is never up.
LEMMA NobodyUpStep ==
    ASSUME Shape, NobodyUp, [Next]_vars
    PROVE  NobodyUp'
<1> USE DEF Shape
<1> SUFFICES ASSUME job'.mode # "gotest", job'.suite.panicked, NEW n \in Nodes
             PROVE  node'[n].up # "up" /\ ~EndedWell(node'[n])
    BY DEF NobodyUp
<1>a. ASSUME AllOff PROVE node'[n].up # "up" /\ ~EndedWell(node'[n])  BY <1>a, AllOffProcs, OffIsProc DEF EndedWell
<1>b. ASSUME job' = job PROVE \A k \in Nodes : node[k].up # "up" /\ ~EndedWell(node[k])  BY <1>b DEF NobodyUp
<1>1. ASSUME NEW k \in Nodes, OwnStep(k) PROVE FALSE
  <2>1. node[k].up = "up" /\ job' = job
    <3>1. CASE Main(k)  BY <1>1, <3>1, MainUp, OwnStepShape
    <3>2. CASE Finish(k, "main") \/ Handler(k) \/ StrayFails(k) \/ Crash(k)  BY <1>1, <3>2, RestUp, OwnStepShape
    <3>q. QED  BY <1>1, <3>1, <3>2 DEF OwnStep
  <2>q. QED  BY <1>b, <2>1
<1>2. ASSUME NEW k \in Nodes, Start(k) PROVE node'[n].up # "up" /\ ~EndedWell(node'[n])
  <2>1. /\ job' = job /\ \A m \in Nodes \ {k} : node'[m] = node[m]
        /\ \/ node'[k].up = "gone" /\ node'[k].code = 2
           \/ node'[k].up = "failed"
        BY <1>2, Starts DEF Frame
  <2>q. QED  BY <1>b, <2>1 DEF EndedWell, FocusExitCode
<1>3. ASSUME NEW k \in Nodes, Wait(k) PROVE node'[n].up # "up" /\ ~EndedWell(node'[n])
  <2>1. Frame(k, {"reaped"}) /\ job' = job  BY <1>3, Waited
  <2>2. node'[n].up = node[n].up /\ node'[n].code = node[n].code  BY <2>1 DEF Frame, Agree, Fields
  <2>q. QED  BY <1>b, <2>1, <2>2 DEF EndedWell
<1>4. CASE Interrupt
  <2>1. job' = job /\ (node'[n] = node[n] \/ node[n].up = "up")  BY <1>4, Interrupts
  <2>q. QED  BY <1>b, <2>1
<1>5. CASE Run(SuiteOf(cli.order[cli.next]))  BY <1>5, <1>a, NewJob
<1>6. CASE SuiteRan  BY <1>6, <1>a DEF SuiteRan, AllOff
<1>7. CASE AwaitResult \/ UNCHANGED <<job, remote, node>>
  <2>1. job' = job /\ node' = node  BY <1>7 DEF AwaitResult
  <2>q. QED  BY <1>b, <2>1
<1>q. QED  BY <1>1, <1>2, <1>3, <1>4, <1>5, <1>6, <1>7, NextKinds

\* Whatever happens, as long as nothing goes wrong.
LEMMA ReportStep ==
    ASSUME Shape, SharedInv, JobInv, OrderInv, CliVerdict, ProcsVerdict, Spends, SmoothInv, ReportInv, [Next]_vars
    PROVE  ReportInv'
<1> SUFFICES ASSUME NothingWrong', AtRisk' PROVE InOrder'  BY DEF ReportInv, InOrder
<1>1. NothingWrong /\ ~Wrong  BY SpendsStep
<1>2. ~cli.typed /\ (AtRisk => InOrder /\ \A n \in Nodes : Smooth(n))  BY <1>1 DEF SmoothInv, ReportInv, InOrder
<1>3. Shape' /\ ProcsVerdict'  BY ShapeStep, ProcsVerdictStep
<1>r. ASSUME job' = job, AtWork PROVE AtRisk /\ job.mode # "gotest" /\ InOrder /\ \A n \in Nodes : Smooth(n)
      BY <1>2, <1>r, LateStays DEF AtRisk
<1>q1. ASSUME job' = job, AtWork, \A n \in Nodes : Agree(node[n], node'[n], {"reaped"}), QuietRemote PROVE InOrder'
  <2>1. InOrder  BY <1>q1, <1>r
  <2>2. \A n \in Nodes : QuietNode(n)  BY <1>q1 DEF QuietNode, Agree, Fields
  <2>3. Logged' /\ (job.mode = "parallel" => Tallied')  BY <1>q1, <2>1, <2>2, ReportedSame
  <2>4. \A n \in Nodes : OnTrack(n)'  BY <1>q1, <2>1, TrackSame DEF InOrder
  <2>q. QED  BY <1>q1, <2>3, <2>4 DEF InOrder
<1>4. ASSUME NEW n \in Nodes, OwnStep(n), cli' = cli PROVE InOrder'
  <2>1. job' = job  BY <1>4, OwnStepShape
  <2>2. job.mode # "gotest" /\ InOrder /\ Smooth(n)  BY <1>4, <1>r, <2>1 DEF AtWork
  <2>3. ProcVerdict(n)  BY <2>2 DEF ProcsVerdict
  <2>q. QED  BY <1>1, <1>2, <1>4, <2>2, <2>3, OwnReported
<1>5. ASSUME NEW n \in Nodes, Start(n) PROVE InOrder'
  <2>1. job' = job  BY <1>5, Starts DEF Shape
  <2>2. AtRisk /\ job.mode # "gotest" /\ InOrder  BY <1>5, <1>r, <2>1 DEF AtWork
  <2>3. ProcVerdict(n)'  BY <1>3, <2>1, <2>2 DEF ProcsVerdict
  <2>q. QED  BY <1>1, <1>5, <2>2, <2>3, StartReported
<1>6. ASSUME NEW n \in Nodes, Wait(n) PROVE InOrder'
  <2>1. Frame(n, {"reaped"}) /\ job' = job /\ remote' = remote  BY <1>6, Waited DEF Shape
  <2>2. \A k \in Nodes : Agree(node[k], node'[k], {"reaped"})  BY <2>1 DEF Frame, Agree
  <2>q. QED  BY <1>6, <1>q1, <2>1, <2>2 DEF QuietRemote, AtWork
<1>7. CASE Interrupt  BY <1>1, <1>7, Interrupts DEF Shape
<1>8. CASE Run(SuiteOf(cli.order[cli.next]))
  <2>1. AllOff /\ remote' = NewRemote /\ job'.total # 0  BY <1>8, NewJob, NodeAssumption
  <2>q. QED  BY <1>3, <2>1, NothingReported
<1>9. CASE SuiteRan
  <2>1. AllOff /\ remote' = NewRemote /\ job'.mode = "serial"  BY <1>9 DEF SuiteRan, AllOff, NoSuite
  <2>q. QED  BY <1>3, <2>1, NothingReported
<1>10. CASE AwaitResult \/ UNCHANGED <<job, remote, node>>
  <2>1. job' = job /\ node' = node /\ QuietRemote /\ remote'.beforeSuiteData = remote.beforeSuiteData
        BY <1>10 DEF AwaitResult, QuietRemote, Shape, IsRemote, RemoteFields
  <2>2. \A k \in Nodes : Agree(node[k], node'[k], {"reaped"})  BY <2>1 DEF Agree
  <2>q. QED  BY <1>q1, <2>1, <2>2 DEF AtWork
<1>q. QED  BY <1>4, <1>5, <1>6, <1>7, <1>8, <1>9, <1>10, NextKinds DEF Shape

LEMMA ReportInit ==
    ASSUME Init
    PROVE  NobodyUp /\ ReportInv
<1>1. job = NoSuite /\ remote = NewRemote /\ \A n \in Nodes : node[n] = Off  BY DEF Init
<1>2. NobodyUp  BY <1>1, OffIsProc DEF NobodyUp, EndedWell
<1>3. job.mode = "serial" /\ NodesOfJob = {}  BY <1>1 DEF NoSuite, NodesOfJob
<1>4. remote.completed = <<>> /\ remote.announced = <<>>  BY <1>1 DEF NewRemote, NewAggregator, NewServer
<1>5. Logged
  <2>1. \A k : Told(k) = {}  BY <1>3 DEF Told
  <2>2. \A k : Count(remote.announced, k) = 0 /\ Count(remote.completed, k) = 0  BY <1>4, CountOfNone
  <2>3. IsFiniteSet({}) /\ Cardinality({}) = 0 /\ IsSeq(<<>>)  BY FS_EmptySet, NothingRan
  <2>a. \A k : IsFiniteSet(Told(k)) /\ Cardinality(Told(k)) = 0  BY <2>1, <2>3
  <2>4. \A k : IsFiniteSet(Told(k)) /\ Count(remote.announced, k) + Count(remote.completed, k) = Cardinality(Told(k))
        BY <2>2, <2>a
  <2>5. IsSeq(remote.announced) /\ IsSeq(remote.completed)  BY <1>4, <2>3
  <2>q. QED  BY <1>4, <2>4, <2>5 DEF Logged
<1>6. \A n \in Nodes : OnTrack(n)  BY <1>1, OffIsProc DEF OnTrack, AfterSpecs, InSpecs, EndedWell
<1>q. QED  BY <1>2, <1>3, <1>5, <1>6 DEF ReportInv

-----------------------------------------------------------------------------
(* What the reports come to.                                               *)

\* The specs that the nodes are given, each with its place.
Shared == {e \in NodesOfJob \X Nat : e[2] \in DOMAIN Given[e[1]]}

\* They are as many as there are subjects, whatever each node draws.
LEMMA SharesOfAll ==
    ASSUME Shape, JobInv, job.mode # "gotest", job.total \in Nat \ {0}
    PROVE  IsFiniteSet(Shared) /\ Cardinality(Shared) = Len(job.suite.subjects)
<1> DEFINE suite == job.suite
           length == Len(suite.subjects)
           start(n) == ShareOf(length, job.conf[n]).start
           count(n) == ShareOf(length, job.conf[n]).count
<1>1. NodesOfJob = 1 .. job.total  BY DEF NodesOfJob
<1>2. DOMAIN suite.subjects = 1 .. length /\ length \in Nat  BY DEF JobInv
<1>3. ASSUME NEW n \in NodesOfJob
      PROVE  /\ start(n) \in Nat /\ count(n) \in Nat /\ start(n) + count(n) <= length
             /\ DOMAIN Given[n] = 1 .. count(n)
  <2> DEFINE conf == job.conf[n]
             all == job.all[n]
             own == generateSpecs(suite, conf, all)
  <2>1. conf.total \in Nat \ {0} /\ (conf.total > 1 => conf.node \in 1 .. conf.total)  BY <1>1 DEF JobInv
  <2>2. Given[n] = own  BY DEF Given, Own
  <2>3. length \in Nat /\ DOMAIN suite.subjects = 1 .. length /\ IsListing(suite, all)  BY <1>2 DEF JobInv
  <2> HIDE DEF conf, own, all, suite, length
  <2>4. LET mine == generateSpecs(suite, conf, all)
            r == ShareOf(length, conf)
        IN /\ r.start \in Nat /\ r.count \in Nat /\ r.start + r.count <= length
           /\ DOMAIN mine = 1 .. r.count
        BY <2>1, <2>3, OwnSpecs
  <2>q. QED  BY <2>2, <2>4 DEF own, conf
<1>4. ASSUME NEW i \in 1 .. length
      PROVE  \E n \in NodesOfJob : \A m \in NodesOfJob : start(m) < i /\ i <= start(m) + count(m) <=> m = n
  <2>1. Numbered(job.total, job.conf)  BY <1>1 DEF JobInv, Numbered
  <2>2. length \in Nat  BY <1>2
  <2>3. \E n \in 1 .. job.total : \A m \in 1 .. job.total : HasPlace(length, job.conf, i, m) <=> m = n
    <3> HIDE DEF suite, length
    <3>q. QED  BY <2>1, <2>2, OnePlace
  <2>4. \A m \in NodesOfJob : HasPlace(length, job.conf, i, m) <=> start(m) < i /\ i <= start(m) + count(m)
        BY DEF HasPlace
  <2> HIDE DEF start, count, length, suite
  <2>q. QED  BY <1>1, <2>3, <2>4
<1> HIDE DEF start, count, suite, length
<1> DEFINE f == [e \in Shared |-> start(e[1]) + e[2]]
<1>5. ASSUME NEW e \in Shared
      PROVE  /\ e \in NodesOfJob \X Nat /\ e[1] \in NodesOfJob /\ e[2] \in 1 .. count(e[1])
             /\ start(e[1]) \in Nat /\ count(e[1]) \in Nat
             /\ f[e] = start(e[1]) + e[2] /\ f[e] \in 1 .. length /\ start(e[1]) < f[e] /\ f[e] <= start(e[1]) + count(e[1])
  <2>1. e \in NodesOfJob \X Nat /\ e[1] \in NodesOfJob /\ e[2] \in DOMAIN Given[e[1]]  BY DEF Shared
  <2>2. /\ start(e[1]) \in Nat /\ count(e[1]) \in Nat /\ start(e[1]) + count(e[1]) <= length
        /\ e[2] \in 1 .. count(e[1])
        BY <1>3, <2>1
  <2>q. QED  BY <1>2, <2>1, <2>2
<1>6. \A e, d \in Shared : f[e] = f[d] => e = d
  <2> SUFFICES ASSUME NEW e \in Shared, NEW d \in Shared, f[e] = f[d] PROVE e = d  OBVIOUS
  <2>1. e[1] = d[1]
    <3> DEFINE i == f[e]
    <3>1. i \in 1 .. length /\ start(e[1]) < i /\ i <= start(e[1]) + count(e[1]) /\ e[1] \in NodesOfJob  BY <1>5
    <3>2. start(d[1]) < i /\ i <= start(d[1]) + count(d[1]) /\ d[1] \in NodesOfJob  BY <1>5
    <3> HIDE DEF i, f
    <3>q. QED  BY <1>4, <3>1, <3>2
  <2>2. e[2] \in Nat /\ d[2] \in Nat /\ start(e[1]) \in Nat /\ start(e[1]) + e[2] = start(d[1]) + d[2]  BY <1>5
  <2>3. e[2] = d[2]  BY <2>1, <2>2
  <2>4. e = <<e[1], e[2]>> /\ d = <<d[1], d[2]>>  BY <1>5
  <2> HIDE DEF f
  <2>q. QED  BY <2>1, <2>3, <2>4
<1>7. \A i \in 1 .. length : \E e \in Shared : f[e] = i
  <2> SUFFICES ASSUME NEW i \in 1 .. length PROVE \E e \in Shared : f[e] = i  OBVIOUS
  <2>1. PICK n \in NodesOfJob : start(n) < i /\ i <= start(n) + count(n)  BY <1>4
  <2>2. start(n) \in Nat /\ count(n) \in Nat /\ DOMAIN Given[n] = 1 .. count(n)  BY <1>3
  <2>3. i - start(n) \in 1 .. count(n)  BY <1>2, <2>1, <2>2
  <2> DEFINE e == <<n, i - start(n)>>
  <2>4. e \in Shared  BY <2>2, <2>3 DEF Shared
  <2>5. f[e] = i  BY <1>2, <2>2, <2>4
  <2>q. QED  BY <2>4, <2>5
<1>8. f \in Bijection(Shared, 1 .. length)
  <2>1. f \in [Shared -> 1 .. length]  BY <1>5
  <2> HIDE DEF f
  <2>q. QED  BY <1>6, <1>7, <2>1 DEF Bijection, Injection, Surjection, IsInjective
<1>9. ExistsBijection(1 .. length, Shared)
  <2>1. ExistsBijection(Shared, 1 .. length)  BY <1>8 DEF ExistsBijection
  <2>q. QED  BY <2>1, Fun_ExistsBijSymmetric
<1>10. IsFiniteSet(1 .. length) /\ Cardinality(1 .. length) = length  BY <1>2, FS_Interval
<1>q. QED  BY <1>9, <1>10, FS_Bijection DEF length, suite

\* Two sets with nothing in common.
LEMMA ApartAddUp ==
    ASSUME NEW S, NEW T, IsFiniteSet(S), IsFiniteSet(T), S \cap T = {}
    PROVE  /\ IsFiniteSet(S \cup T) /\ Cardinality(S \cup T) = Cardinality(S) + Cardinality(T)
           /\ Cardinality(S) \in Nat /\ Cardinality(T) \in Nat
<1>1. Cardinality(S) \in Nat /\ Cardinality(T) \in Nat  BY FS_CardinalityType
<1>2. Cardinality(S \cap T) = 0  BY FS_EmptySet
<1>3. IsFiniteSet(S \cup T) /\ Cardinality(S \cup T) = Cardinality(S) + Cardinality(T) - Cardinality(S \cap T)
      BY FS_Union
<1>q. QED  BY <1>1, <1>2, <1>3

\* Each of them is to run, pending or skipped.
LEMMA SharesByState ==
    ASSUME Shape, JobInv, job.mode # "gotest", job.total \in Nat \ {0}
    PROVE  Cardinality(SpecsIn(Given, NodesOfJob, "invalid")) + Cardinality(SpecsIn(Given, NodesOfJob, "pending"))
             + Cardinality(SpecsIn(Given, NodesOfJob, "skipped")) = Len(job.suite.subjects)
<1> DEFINE A == SpecsIn(Given, NodesOfJob, "invalid")
           B == SpecsIn(Given, NodesOfJob, "pending")
           C == SpecsIn(Given, NodesOfJob, "skipped")
<1>1. \A e \in NodesOfJob \X Nat : e[2] \in DOMAIN Given[e[1]] => Given[e[1]][e[2]].state \in {"invalid", "pending", "skipped"}
      BY GivenSpecs
<1>2. A \cup B \cup C = Shared /\ A \cap B = {} /\ (A \cup B) \cap C = {}  BY <1>1 DEF SpecsIn, InState, Shared
<1>3. IsFiniteSet(Shared) /\ Cardinality(Shared) = Len(job.suite.subjects)  BY SharesOfAll
<1> HIDE DEF A, B, C
<1>4. A \in SUBSET Shared /\ B \in SUBSET Shared /\ C \in SUBSET Shared  BY <1>2
<1>5. IsFiniteSet(A) /\ IsFiniteSet(B) /\ IsFiniteSet(C)  BY <1>3, <1>4, FS_Subset
<1>6. IsFiniteSet(A \cup B) /\ Cardinality(A \cup B) = Cardinality(A) + Cardinality(B)  BY <1>2, <1>5, ApartAddUp
<1>7. Cardinality((A \cup B) \cup C) = Cardinality(A \cup B) + Cardinality(C)  BY <1>2, <1>5, <1>6, ApartAddUp
<1>q. QED  BY <1>2, <1>3, <1>6, <1>7 DEF A, B, C

\* In a suite that ended well every spec has been told of once.
LEMMA ToldOnce ==
    ASSUME Shape, JobInv, job.mode # "gotest", job.total \in Nat \ {0}, SeedForAll \/ job.total = 1,
           \A n \in NodesOfJob : Lists(n) /\ \A j \in DOMAIN node[n].specs : j < node[n].i,
           NEW k \in DOMAIN job.suite.subjects
    PROVE  Cardinality(Told(k)) = 1
<1>1. PICK n \in NodesOfJob : \E j \in DOMAIN node[n].specs : \A m \in NodesOfJob : \A h \in DOMAIN node[m].specs :
          node[m].specs[h].subject = k <=> m = n /\ h = j
      BY OneOwner
<1>2. PICK j \in DOMAIN node[n].specs : \A m \in NodesOfJob : \A h \in DOMAIN node[m].specs :
          node[m].specs[h].subject = k <=> m = n /\ h = j
      BY <1>1
<1>3. \A m \in NodesOfJob : /\ DOMAIN Given[m] = DOMAIN node[m].specs
                            /\ \A h \in DOMAIN node[m].specs : Given[m][h].subject = node[m].specs[h].subject
      BY GivenSpecs DEF Lists
<1>4. j \in Nat \ {0}  BY <1>3, GivenSpecs
<1>5. Told(k) = {<<n, j>>}
  <2>1. \A e \in NodesOfJob \X (Nat \ {0}) :
            e \in Told(k) <=> e[2] \in DOMAIN node[e[1]].specs /\ node[e[1]].specs[e[2]].subject = k
        BY <1>3 DEF Told
  <2>2. \A e \in NodesOfJob \X (Nat \ {0}) : e \in Told(k) <=> e[1] = n /\ e[2] = j  BY <1>2, <2>1
  <2>3. Told(k) \subseteq NodesOfJob \X (Nat \ {0})  BY DEF Told
  <2>q. QED  BY <1>4, <2>2, <2>3
<1>q. QED  BY <1>5, FS_Singleton

\* What a passing verdict says of the reports.
LEMMA PassedMeansReported ==
    ASSUME Shape, JobInv, CliVerdict, ProcsVerdict, NobodyUp, ReportInv, VerdictReached, cli.suiteRes.passed, NothingWrong,
           SeedForAll \/ job.total = 1
    PROVE  /\ \A k \in DOMAIN job.suite.subjects : Announced(k) = 1
           /\ job.mode = "parallel" =>
                  LET sum == AggregatedSummary(remote)
                  IN /\ sum.succeeded /\ sum.failed = 0 /\ sum.passed = remote.willRun
                     /\ sum.passed + sum.pending + sum.skipped = Len(job.suite.subjects)
<1>1. job.mode # "gotest" /\ cli.pc \in {"result", "suiteRan"} /\ cli.compile[cli.next] = "ok"  BY DEF VerdictReached
<1>2. job.total \in 1 .. MaxNodes /\ job.total \in Nat \ {0}  BY <1>1, NodeAssumption DEF CliVerdict, Judged, Shape
<1>3. \A n \in NodesOfJob : n \in Nodes /\ EndedWell(node[n])  BY <1>1, <1>2, NodeAssumption DEF CliVerdict, NodesOfJob, Nodes
<1>4. ~job.suite.panicked
  <2>1. 1 \in NodesOfJob  BY <1>2 DEF NodesOfJob
  <2>q. QED  BY <1>1, <1>3, <2>1 DEF NobodyUp
<1>t. ~ToldTooLate
  <2>1. \A n \in NodesOfJob : node[n].before # "failed"  BY <1>1, <1>3 DEF ProcsVerdict, ProcVerdict, Clean
  <2>q. QED  BY <2>1 DEF ToldTooLate
<1>5. Logged /\ (job.mode = "parallel" => Tallied) /\ \A n \in NodesOfJob : OnTrack(n)
      BY <1>1, <1>3, <1>4, <1>t DEF ReportInv, AtRisk
<1>6. ASSUME NEW n \in NodesOfJob
      PROVE  Lists(n) /\ node[n].main = "exit" /\ node[n].passed /\ \A j \in DOMAIN node[n].specs : j < node[n].i
  <2>1. node[n].up = "gone" /\ OnTrack(n)  BY <1>3, <1>5 DEF EndedWell
  <2>2. Lists(n) /\ node[n].main = "exit" /\ node[n].passed  BY <1>3, <2>1 DEF OnTrack
  <2>3. node[n].main \in AfterSpecs  BY <2>2 DEF AfterSpecs
  <2>q. QED  BY <2>1, <2>2, <2>3 DEF OnTrack
<1>7. Begun = NodesOfJob /\ Ended = NodesOfJob  BY <1>6 DEF Begun, Ended
<1>8. job.mode = "parallel" => Len(remote.begun) = job.total
  <2>1. Cardinality(NodesOfJob) = job.total  BY <1>2, FS_Interval DEF NodesOfJob
  <2>q. QED  BY <1>5, <1>7, <2>1 DEF Tallied
<1>9. ASSUME NEW k \in DOMAIN job.suite.subjects PROVE Announced(k) = 1
  <2>1. Cardinality(Told(k)) = 1  BY <1>1, <1>2, <1>6, ToldOnce
  <2>2. Count(remote.completed, k) = 0  BY <1>5, <1>8, CountOfNone DEF Logged
  <2>3. Count(remote.announced, k) \in Nat  BY <1>5, CountIsNat DEF Logged
  <2>4. Count(remote.announced, k) = 1  BY <1>5, <2>1, <2>2, <2>3 DEF Logged
  <2>q. QED  BY <2>4 DEF Count, Mentions, Announced
<1>10. ASSUME job.mode = "parallel"
       PROVE  LET sum == AggregatedSummary(remote)
              IN /\ sum.succeeded /\ sum.failed = 0 /\ sum.passed = remote.willRun
                 /\ sum.passed + sum.pending + sum.skipped = Len(job.suite.subjects)
  <2> DEFINE sum == AggregatedSummary(remote)
  <2>1. /\ sum.succeeded = (\A i \in DOMAIN remote.ended : remote.ended[i].succeeded)
        /\ sum.passed = Total(remote.ended, "passed") /\ sum.failed = Total(remote.ended, "failed")
        /\ sum.pending = Total(remote.ended, "pending") /\ sum.skipped = Total(remote.ended, "skipped")
        BY DEF AggregatedSummary
  <2> HIDE DEF sum
  <2>2. Tallied  BY <1>5, <1>10
  <2>3. sum.succeeded
    <3>1. \A i \in DOMAIN remote.ended : remote.ended[i].succeeded  BY <1>6, <1>7, <2>2 DEF Tallied
    <3>q. QED  BY <2>1, <3>1
  <2>4. sum.failed = 0  BY <2>1, <2>2 DEF Tallied
  <2>5. /\ sum.passed = Cardinality(SpecsIn(Given, NodesOfJob, "invalid"))
        /\ sum.pending = Cardinality(SpecsIn(Given, NodesOfJob, "pending"))
        /\ sum.skipped = Cardinality(SpecsIn(Given, NodesOfJob, "skipped"))
        BY <1>7, <2>1, <2>2 DEF Tallied, AddsUp
  <2>6. remote.willRun = Cardinality(SpecsIn(Given, NodesOfJob, "invalid"))
        BY <1>7, <1>8, <1>10, <2>2 DEF Tallied, AddsUp
  <2>7. sum.passed + sum.pending + sum.skipped = Len(job.suite.subjects)  BY <1>1, <1>2, <2>5, SharesByState
  <2>q. QED  BY <2>3, <2>4, <2>5, <2>6, <2>7 DEF sum
<1>q. QED  BY <1>9, <1>10

\* When nothing went wrong in a suite that passed, every spec was announced
\* exactly once, whichever node began first or last; and the numbers that the
\* aggregator announces are those of the specs: what was to run has passed, and
\* with the pending and the skipped ones these are all (aggregator.go,
\* spec_runner.go): for any number of nodes, any suites and flags.
THEOREM ReportsHold == Spec => []ReportsAddUp
<1> DEFINE AllInv == /\ Shape /\ SharedInv /\ JobInv /\ OrderInv /\ CliVerdict /\ ProcsVerdict
                     /\ Spends /\ SmoothInv /\ NobodyUp /\ ReportInv
<1>1. ASSUME Init PROVE AllInv
  <2>1. node = [n \in Nodes |-> Off] /\ remote = NewRemote  BY <1>1 DEF Init
  <2>2. Shape  BY <1>1, ShapeInit
  <2>3. SharedInv  BY <2>1, <2>2, SharedAfresh DEF Shape
  <2>q. QED  BY <1>1, <2>2, <2>3, VerdictInit, SmoothInit, ReportInit
<1>2. ASSUME AllInv, [Next]_vars PROVE AllInv'
      BY <1>2, ShapeStep, SharedStep, JobStep, OrderStep, CliVerdictStep, ProcsVerdictStep, SpendsStep, SmoothStep,
         NobodyUpStep, ReportStep
<1>3. ASSUME AllInv PROVE ReportsAddUp  BY <1>3, PassedMeansReported DEF ReportsAddUp
<1>q. QED  BY <1>1, <1>2, <1>3, PTL DEF Spec
=============================================================================
