----------------------------- MODULE GinkgoSpecs -----------------------------
(***************************************************************************)
(* How the calls of a test binary (Describe, It, BeforeEach ...) become    *)
(* the specs that one parallel node runs.  A suite is a tree of containers *)
(* with setup nodes, and of subjects; the specs are its subjects, shuffled,*)
(* filtered by focus, and trimmed to the share of the node.                *)
(***************************************************************************)
EXTENDS Integers, Sequences, FiniteSets, SequencesExt

-----------------------------------------------------------------------------
(* The calls.  The prefixes F, P and X are flags; a body is a function     *)
(* ("sync"), one that takes a Done channel ("async") or something else.    *)

\* The nodes that the calls make.
ItNode(flag, body) == [type |-> "It", flag |-> flag, body |-> body, samples |-> 1]
MeasureNode(flag, samples) == [type |-> "Measure", flag |-> flag, body |-> "sync", samples |-> samples]
SetupNode(type, body) == [type |-> type, body |-> body]

Describe(flag) == [op |-> "container", flag |-> flag]
End == [op |-> "end"]    \* the body of the innermost container returns
It(flag, body) == [op |-> "subject", node |-> ItNode(flag, body)]
Measure(flag, samples) == [op |-> "subject", node |-> MeasureNode(flag, samples)]
Each(type, body) == [op |-> "setup", node |-> SetupNode(type, body)]    \* BeforeEach, JustBeforeEach, AfterEach
BeforeSuite == [op |-> "beforeSuite", kind |-> "simple"]
SynchronizedBeforeSuite == [op |-> "beforeSuite", kind |-> "synchronized"]
AfterSuite == [op |-> "afterSuite", kind |-> "simple"]
SynchronizedAfterSuite == [op |-> "afterSuite", kind |-> "synchronized"]

-----------------------------------------------------------------------------
(* The tree.                                                               *)

Container(flag, path) == [flag |-> flag, path |-> path, setupNodes |-> <<>>, nodes |-> <<>>]

NewSuite ==
    [containers |-> <<Container("none", <<1>>)>>, subjects |-> <<>>, current |-> 1,
     beforeSuite |-> "none", afterSuite |-> "none", panicked |-> FALSE]

\* The body of the new container is what is called next.
PushContainerNode(s, flag) ==
    LET id == Len(s.containers) + 1
    IN [s EXCEPT !.current = id,
                 !.containers = Append([@ EXCEPT ![s.current].nodes = Append(@, [container |-> id, subject |-> 0])],
                                       Container(flag, Append(s.containers[s.current].path, id)))]

PopContainerNode(s) == [s EXCEPT !.current = LET path == s.containers[@].path IN path[Len(path) - 1]]

PushSubjectNode(s, subject) ==
    [s EXCEPT !.subjects = Append(@, subject),
              !.containers[s.current].nodes = Append(@, [container |-> 0, subject |-> Len(s.subjects) + 1])]

PushSetupNode(s, setupNode) == [s EXCEPT !.containers[s.current].setupNodes = Append(@, setupNode)]

SetBeforeSuiteNode(s, kind) ==
    IF s.beforeSuite # "none" THEN [s EXCEPT !.panicked = TRUE] ELSE [s EXCEPT !.beforeSuite = kind]

SetAfterSuiteNode(s, kind) ==
    IF s.afterSuite # "none" THEN [s EXCEPT !.panicked = TRUE] ELSE [s EXCEPT !.afterSuite = kind]

\* newRunner panics on a body that is not a function it can call.
newRunner(s, body) == IF body \notin {"sync", "async"} THEN [s EXCEPT !.panicked = TRUE] ELSE s

Declare(s, call) ==
    CASE s.panicked -> s
      [] call.op = "container" -> PushContainerNode(s, call.flag)
      [] call.op = "end" -> PopContainerNode(s)
      [] call.op = "subject" -> PushSubjectNode(newRunner(s, call.node.body), call.node)
      [] call.op = "setup" -> PushSetupNode(newRunner(s, call.node.body), call.node)
      [] call.op = "beforeSuite" -> SetBeforeSuiteNode(s, call.kind)
      [] call.op = "afterSuite" -> SetAfterSuiteNode(s, call.kind)

Declared(calls) == FoldLeft(Declare, NewSuite, calls)

\* Only the nodes of the top level are shuffled.
Shuffle(s, perm) == [s EXCEPT !.containers[1].nodes = [i \in DOMAIN @ |-> @[perm[i]]]]

\* The subjects in the order of the tree, each with the containers around it.
Collate(s) ==
    LET collate[c \in DOMAIN s.containers] ==
            FlattenSeq([i \in DOMAIN s.containers[c].nodes |->
                LET n == s.containers[c].nodes[i]
                IN IF n.container # 0 THEN collate[n.container]
                   ELSE <<[subject |-> n.subject, containers |-> s.containers[c].path]>>])
    IN collate[1]

\* The places of those nodes among the setup nodes of the container.
SetupNodesOfType(s, c, type) ==
    LET nodes == s.containers[c].setupNodes IN {k \in DOMAIN nodes : nodes[k].type = type}

-----------------------------------------------------------------------------
(* The specs.                                                              *)

NewSpec(s, nodes) ==
    LET flags == {s.subjects[nodes.subject].flag} \cup {s.containers[c].flag : c \in Range(nodes.containers)}
    IN [subject |-> nodes.subject, containers |-> nodes.containers, focused |-> "focused" \in flags,
        state |-> IF "pending" \in flags THEN "pending" ELSE "invalid"]

Skip(spec) == [spec EXCEPT !.state = "skipped"]
Failed(spec) == spec.state \in {"failed", "panicked", "timedout"}
Skipped(spec) == spec.state = "skipped"
Pending(spec) == spec.state = "pending"
IsMeasurement(s, spec) == s.subjects[spec.subject].type = "Measure"

SkipAll(specs, P(_)) == [i \in DOMAIN specs |-> IF P(specs[i]) THEN Skip(specs[i]) ELSE specs[i]]

HasFocus(specs) == \E i \in DOMAIN specs : specs[i].focused

applyProgrammaticFocus(specs) ==
    IF HasFocus(specs) THEN SkipAll(specs, LAMBDA spec : ~spec.focused) ELSE specs

\* A filter is the set of the subjects that it matches; focus and skip hold
\* at most one.
applyRegExpFocus(specs, focus, skip) ==
    SkipAll(specs, LAMBDA spec : \/ \E f \in focus : spec.subject \notin f
                                 \/ \E f \in skip : spec.subject \in f)

ApplyFocus(specs, focus, skip) ==
    IF focus = {} /\ skip = {} THEN applyProgrammaticFocus(specs) ELSE applyRegExpFocus(specs, focus, skip)

SkipMeasurements(s, specs) == SkipAll(specs, LAMBDA spec : IsMeasurement(s, spec))

\* Mutant of ParallelizedIndexRange: nodes after the ones with more specs do
\* not count those.
IndexRangeMinOnly(length, total, n) ==
    IF total >= length
    THEN IF n > length THEN [start |-> 0, count |-> 0] ELSE [start |-> n - 1, count |-> 1]
    ELSE LET min == length \div total
             extra == length % total
         IN [start |-> (n - 1) * min, count |-> IF n > extra THEN min ELSE min + 1]

\* The first nodes run one spec more than the others.
ParallelizedIndexRange(length, total, n) ==
    IF total >= length
    THEN IF n > length THEN [start |-> 0, count |-> 0] ELSE [start |-> n - 1, count |-> 1]
    ELSE LET min == length \div total
             extra == length % total    \* numMaxLoadNodes
             max == IF extra = 0 THEN min ELSE min + 1
         IN IF n > extra
            THEN [start |-> extra * max + (n - extra - 1) * min, count |-> min]
            ELSE [start |-> (n - 1) * max, count |-> max]

TrimForParallelization(specs, total, n) ==
    LET r == ParallelizedIndexRange(Len(specs), total, n) IN SubSeq(specs, r.start + 1, r.start + r.count)

Permuted(seq, perm) == [i \in DOMAIN seq |-> seq[perm[i]]]

\* All specs of the suite, in the order that a node draws.
AllSpecs(s, conf, perm) ==
    LET nodes == Collate(IF conf.randomizeAllSpecs THEN s ELSE Shuffle(s, perm))
        specs == [i \in DOMAIN nodes |-> NewSpec(s, nodes[i])]
    IN IF conf.randomizeAllSpecs THEN Permuted(specs, perm) ELSE specs

generateSpecs(s, conf, all) ==
    LET focused == ApplyFocus(all, conf.focus, conf.skip)
        unmeasured == IF conf.skipMeasurements THEN SkipMeasurements(s, focused) ELSE focused
    IN IF conf.total > 1 THEN TrimForParallelization(unmeasured, conf.total, conf.node) ELSE unmeasured

\* applyProgrammaticFocus sets it, applyRegExpFocus leaves it alone.
HasProgrammaticFocus(conf, all) == conf.focus = {} /\ conf.skip = {} /\ HasFocus(all)

-----------------------------------------------------------------------------
(* The flags of a process.  What has no flag on its command line is left   *)
(* to the default; that of the seed is the time.                           *)

Unset == [seed |-> 0, randomizeAllSpecs |-> FALSE, focus |-> {}, skip |-> {}, skipMeasurements |-> FALSE,
          failOnPending |-> FALSE, failFast |-> FALSE, node |-> 0, total |-> 0]

\* A seed is handed on only when it is positive.
BuildFlagArgs(conf) ==
    [f \in {f \in DOMAIN Unset : IF f = "seed" THEN conf[f] > 0 ELSE conf[f] # Unset[f]} |-> conf[f]]

Flags(args, time) ==
    LET default == [Unset EXCEPT !.seed = time, !.node = 1, !.total = 1]
    IN [f \in DOMAIN Unset |-> IF f \in DOMAIN args THEN args[f] ELSE default[f]]

-----------------------------------------------------------------------------
(* What a sample of a spec runs: nodes, each with the depth of its         *)
(* container and its place there.                                          *)

NodesOf(s, containers, type) ==
    UNION {{[type |-> type, level |-> l, place |-> k, body |-> s.containers[containers[l]].setupNodes[k].body] :
                k \in SetupNodesOfType(s, containers[l], type)} : l \in DOMAIN containers}

\* The BeforeEachs, the JustBeforeEachs, the subject.
Ahead(s, spec) ==
    NodesOf(s, spec.containers, "BeforeEach") \cup NodesOf(s, spec.containers, "JustBeforeEach")
        \cup {[type |-> "Subject", level |-> Len(spec.containers), place |-> spec.subject,
               body |-> s.subjects[spec.subject].body]}

\* How far a sample got that stopped at node.
Entered(spec, node) ==
    IF node.type = "BeforeEach" THEN {l \in DOMAIN spec.containers : l <= node.level} ELSE DOMAIN spec.containers

\* The containers entered are unwound.
Unwinding(s, spec, node) ==
    {after \in NodesOf(s, spec.containers, "AfterEach") : after.level \in Entered(spec, node)}

\* The order of the loops: on the way in from the outermost container to the
\* innermost, twice; on the way out from the innermost one.
Earlier(a, b) ==
    \/ a.type = "BeforeEach" /\ b.type \in {"JustBeforeEach", "Subject"}
    \/ a.type = "JustBeforeEach" /\ b.type = "Subject"
    \/ /\ a.type = b.type
       /\ \/ IF a.type = "AfterEach" THEN a.level > b.level ELSE a.level < b.level
          \/ a.level = b.level /\ a.place < b.place

IsFirst(node, nodes) == node \in nodes /\ \A other \in nodes \ {node} : Earlier(node, other)
=============================================================================
