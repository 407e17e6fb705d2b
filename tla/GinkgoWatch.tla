------------------------------ MODULE GinkgoWatch ------------------------------
(***************************************************************************)
(* What "ginkgo watch" knows of the packages on disk: a hash and times for *)
(* each package that some suite needs, and for each suite when it last ran *)
(* and on what it depends.  A suite runs again when one of those times is  *)
(* later than its run.                                                     *)
(***************************************************************************)
EXTENDS Integers, Sequences, FiniteSets, FiniteSetsExt, TLC

CONSTANTS
    Packages,       \* the directories
    Imports,        \* [Packages -> SUBSET Packages] what each imports at the start
    Depth,          \* -depth
    MaxEdits        \* how often somebody changes a file

ASSUME WatchAssumption ==
    /\ Imports \in [Packages -> SUBSET Packages]
    /\ Depth \in Nat /\ MaxEdits \in Nat

VARIABLES
    disk,           \* the directories, and the time
    tracker         \* the DeltaTracker

\* code and test stand for the names, sizes and times of a directory's files.
DiskInit(args) ==
    disk = [args |-> args,    \* the packages with tests that are watched
            now |-> 1, edits |-> 0,
            dir |-> [p \in Packages |-> [there |-> TRUE, code |-> 0, codeTime |-> 0, test |-> 0, testTime |-> 0,
                                         imports |-> Imports[p], excused |-> FALSE]]]

There(p) == disk.dir[p].there

\* findSuites
findSuites == {p \in disk.args : There(p)}

-----------------------------------------------------------------------------
(* Somebody works on the packages.                                         *)

Edited(p, dir) == disk' = [disk EXCEPT !.now = @ + 1, !.edits = @ + 1, !.dir[p] = dir]

Edit(p) ==
    /\ There(p) /\ disk.edits < MaxEdits
    /\ LET d == disk.dir[p]
           now == disk.now + 1
       IN \/ \E imports \in {d.imports, d.imports \ disk.args} :
                 Edited(p, [d EXCEPT !.code = now, !.codeTime = now, !.imports = imports, !.excused = FALSE])
          \/ Edited(p, [d EXCEPT !.test = now, !.testTime = now])
          \* a file goes away: the others are older
          \/ Edited(p, [d EXCEPT !.code = now, !.codeTime = 0, !.excused = TRUE])

RemoveDir(p) == There(p) /\ disk.edits < MaxEdits /\ Edited(p, [disk.dir[p] EXCEPT !.there = FALSE, !.excused = TRUE])

RestoreDir(p) == ~There(p) /\ Edited(p, [disk.dir[p] EXCEPT !.there = TRUE])

-----------------------------------------------------------------------------
(* Hashes of packages.                                                     *)

computeHashes(p) ==
    LET d == disk.dir[p]
    IN [codeHash |-> d.code, codeTime |-> d.codeTime, testHash |-> <<d.test, d.code>>,
        testTime |-> Max({d.testTime, d.codeTime}), deleted |-> ~d.there]

\* The first hash of a package is no modification.  A directory that is not
\* there has none.
NewPackageHash(p) ==
    LET h == computeHashes(p)
    IN [h EXCEPT !.codeTime = 0, !.testTime = 0, !.codeHash = IF h.deleted THEN -1 ELSE @,
                 !.testHash = IF h.deleted THEN <<-1, -1>> ELSE @]

\* Mutant of CheckForChanges: the hash is brought up to date, the time is not.
ChangedAtNoTime(p, h) ==
    LET new == computeHashes(p)
    IN IF new.deleted
       THEN IF h.deleted THEN h ELSE [h EXCEPT !.codeTime = disk.now + 1, !.testTime = disk.now + 1, !.deleted = TRUE]
       ELSE [h EXCEPT !.codeHash = new.codeHash, !.testHash = new.testHash, !.deleted = FALSE]

\* The time of a deletion is the time it is found.
CheckForChanges(p, h) ==
    LET new == computeHashes(p)
    IN IF new.deleted
       THEN IF h.deleted THEN h ELSE [h EXCEPT !.codeTime = disk.now + 1, !.testTime = disk.now + 1, !.deleted = TRUE]
       ELSE [codeHash |-> new.codeHash, testHash |-> new.testHash, deleted |-> FALSE,
             codeTime |-> IF h.codeHash # new.codeHash THEN new.codeTime ELSE h.codeTime,
             testTime |-> IF h.testHash # new.testHash THEN new.testTime ELSE h.testTime]

\* PackageHashes.Add, for several packages
Add(hashes, paths) == hashes @@ [p \in paths |-> NewPackageHash(p)]

\* PackageHashes.StopTrackingUsageAndPrune
StopTrackingUsageAndPrune(hashes, used) == [p \in DOMAIN hashes \cap used |-> hashes[p]]

-----------------------------------------------------------------------------
(* Suites.                                                                 *)

resolveAndAdd(paths) == {p \in paths : There(p)}

\* The packages that s imports, down to maxDepth; those that are not there
\* are passed over.
NewDependencies(s, maxDepth) ==
    LET addDepsForDepth[d \in Nat] ==
            IF d = 0 THEN {}
            ELSE IF d = 1 THEN resolveAndAdd(disk.dir[s].imports) \ {s}
            ELSE LET deps == addDepsForDepth[d - 1] IN deps \cup resolveAndAdd(UNION {disk.dir[p].imports : p \in deps})
    IN addDepsForDepth[maxDepth]

NewSuite0(s, deps) == [runTime |-> 0, deps |-> deps]

Needs(suite, s) == {s} \cup suite.deps

\* Suite.Delta is positive.  It reads the hash of every package.
Changed(suite, s, hashes) ==
    \/ hashes[s].testTime > suite.runTime
    \/ \E p \in suite.deps : hashes[p].codeTime > suite.runTime

\* Suite.MarkAsRunAndRecomputedDependencies: an error leaves the dependencies.
MarkAsRun(suite, s) ==
    [runTime |-> disk.now, deps |-> IF There(s) THEN NewDependencies(s, Depth) ELSE suite.deps]

-----------------------------------------------------------------------------
(* The tracker.                                                            *)

\* Time goes on where the code reads the clock.
Noticed(t, hashes) == IF \E p \in DOMAIN hashes : hashes[p].deleted /\ ~t.hashes[p].deleted
                      THEN [disk EXCEPT !.now = @ + 1] ELSE disk

NewDeltaTracker == [suites |-> <<>>, hashes |-> <<>>]

\* What one look at the disk finds: the suites that changed, the new ones,
\* and the tracker after it; panics when a suite that had gone is back,
\* whose hashes were pruned.
Delta(t) ==
    LET provided == findSuites
        hashes == [p \in DOMAIN t.hashes |-> CheckForChanges(p, t.hashes[p])]
        known == DOMAIN t.suites \cap provided
        used == UNION {Needs(t.suites[s], s) : s \in known}
        panics == ~(used \subseteq DOMAIN hashes)
        new == provided \ DOMAIN t.suites
        suites == [s \in new |-> NewSuite0(s, NewDependencies(s, Depth))]
    IN [panics |-> panics, new |-> new, disk |-> Noticed(t, hashes),
        modified |-> IF panics THEN {} ELSE {s \in known : Changed(t.suites[s], s, hashes)},
        tracker |-> [suites |-> t.suites @@ suites,
                     hashes |-> Add(StopTrackingUsageAndPrune(hashes, used), UNION {Needs(suites[s], s) : s \in new})]]

WillRun(t, s) ==
    LET suite == MarkAsRun(t.suites[s], s)
    IN [t EXCEPT !.suites[s] = suite, !.hashes = IF There(s) THEN Add(@, Needs(suite, s)) ELSE @]
=============================================================================
