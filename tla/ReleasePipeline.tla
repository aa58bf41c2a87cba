-------------------------- MODULE ReleasePipeline --------------------------
(***************************************************************************)
(* How a change becomes a release: pull requests with their checks, and    *)
(* for each merge a release run of .github/workflows/ci.yml with the       *)
(* scripts it calls.  A run pins the bytes it built in the trust root on   *)
(* main, tags the version, pushes the payload to gh-pages, publishes to    *)
(* npm and asks for a deploy.  Runs wait for an approval, so they overlap  *)
(* and run in any order; any step may fail and a failed run may be run     *)
(* again on the commit it was made for.                                    *)
(*                                                                         *)
(* Two builds of a tree are the same bytes (check-build-reproducible.mjs), *)
(* so a build is the set of changes in it.  A manifest is that set and     *)
(* where it was derived: in a build, or later from what the origin served, *)
(* which carries the time and so is never the same twice.                  *)
(***************************************************************************)
EXTENDS Naturals, Sequences, TLC

CONSTANTS
    Prs,          \* pull requests
    MaxVersion,   \* versions are 0..MaxVersion; 0 is out before the first request
    MaxFaults,    \* bound: steps that fail and registry reads that do not answer
    MaxDerived    \* bound: manifests derived from the origin

ASSUME ReleaseAssumption ==
    /\ MaxVersion \in Nat
    /\ MaxFaults \in Nat
    /\ MaxDerived \in Nat

----------------------------------------------------------------------------
(* The verdicts of the two scripts that guard a version: check 2 of a pull  *)
(* request, which asks for a bump, and the comparison with what npm holds.  *)
(* A version is a number, sources and dependencies are sets of changes.     *)

\* Every version one of the sources knows: the trust root, the tags the checkout
\* fetched, npm when it answered.
ReleasedVersions(trustRoot, fetchedTags, registry) ==
    trustRoot \cup fetchedTags \cup (IF registry.kind = "listed" THEN registry.versions ELSE {})

\* The verdict on a branch at `version`: `shipped` says whether it changes bytes that
\* ship, which without a base to compare with is unknown.
CheckPublishVersion(version, shipped, registry, known) ==
    CASE shipped = "unknown" -> "no diff"
      [] shipped = "no" -> "pass"
      [] OTHER -> IF version \in known THEN "already released"
                  ELSE IF \E v \in known : version < v THEN "below a released version"
                  ELSE IF registry.kind = "undetermined" THEN "registry unreadable"
                  ELSE "pass"

\* The declarations a consumer's install reads: the same blocks and fields on both sides.
DependencyDrift(published, local) == published.deps # local.deps

\* The packed files, compared one by one, package.json among them.
PayloadDrift(published, local) == <<published.code, published.deps>> # <<local.code, local.deps>>

\* The exit code: 0 at parity or when nothing is published, 1 on drift, 2 when it cannot
\* answer, which --offline-ok turns into 0.  Without a build only the manifest is compared.
ParityExit(reply, local, built, offlineOk) ==
    LET cannotAnswer == IF offlineOk THEN 0 ELSE 2
    IN  CASE reply.kind = "absent" -> 0
          [] reply.kind = "unreadable" -> cannotAnswer
          [] OTHER -> IF DependencyDrift(reply, local) THEN 1
                      ELSE IF ~built THEN cannotAnswer
                      ELSE IF PayloadDrift(reply, local) THEN 1 ELSE 0

----------------------------------------------------------------------------
VARIABLES
    main,     \* the branch: its tree, its trust root, the pin of version 0 before the first request, the requests merged
    pr,       \* the requests
    run,      \* the release run of each merged request
    tags,     \* v<version> on the remote: the trust root at the tag, the version's own manifest in it
    pages,    \* the gh-pages branch, by version: the files and their manifest
    served,   \* what the origin serves of it
    npm,      \* the registry, by version
    host,     \* the deployed host: the versions it pins, whether a deploy is queued
    faults,   \* failures so far
    derived   \* manifests derived so far

releaseVars == <<main, pr, run, tags, pages, served, npm, host, faults, derived>>

Versions == 0..MaxVersion
Kinds == {"code", "deps", "docs"}   \* what a request changes: bytes that ship, what an install reads, neither
NoManifest == [kind |-> "none"]
NoFiles == [kind |-> "none"]
NoPackage == [kind |-> "absent"]

Built(code) == [kind |-> "built", code |-> code]
Derived(code, n) == [kind |-> "derived", code |-> code, n |-> n]
Package(code, deps) == [kind |-> "published", code |-> code, deps |-> deps]

Pinned(root) == {v \in Versions : root[v] # NoManifest}
Tagged == {v \in Versions : tags[v][v] # NoManifest}
OnNpm == {v \in Versions : npm[v] # NoPackage}

Tree == [ver : Versions, code : SUBSET Prs, deps : SUBSET Prs]
Ended == {"none", "green", "red"}

\* A run on a commit; what it works with is gone when it ends, the commit stays.
EmptyRoot == [v \in Versions |-> NoManifest]
RunOn(tree, root, pc) == [pc |-> pc, tree |-> tree, root |-> root, payload |-> EmptyRoot, head |-> EmptyRoot,
                          seen |-> {}, newTag |-> FALSE]

----------------------------------------------------------------------------
(* Pull requests *)

\* The request merged into main as it is now: what CI checks out and what a merge makes.
\* Git refuses two different versions for the same line.
Mergeable(p) ==
    pr[p].ver = pr[p].base \/ main.tree.ver \in {pr[p].base, pr[p].ver}
Merged(p) ==
    [ver |-> IF pr[p].ver = pr[p].base THEN main.tree.ver ELSE pr[p].ver,
     code |-> IF pr[p].kind = "code" THEN main.tree.code \cup {p} ELSE main.tree.code,
     deps |-> IF pr[p].kind = "deps" THEN main.tree.deps \cup {p} ELSE main.tree.deps]

\* Opens a request, or pushes another version to one that main has left behind.
OpenPr(p) ==
    /\ \/ pr[p].state = "none"
       \/ pr[p].state \in {"open", "checked"} /\ pr[p].base # main.tree.ver
    /\ \E v \in Versions, kind \in Kinds :
        /\ pr[p].state # "none" => kind = pr[p].kind
        /\ pr' = [pr EXCEPT ![p] = [state |-> "open", kind |-> kind, ver |-> v, base |-> main.tree.ver]]
    /\ UNCHANGED <<main, run, tags, pages, served, npm, host, faults, derived>>

\* What a registry that may not answer says of the versions, and of one of them.
Listings == {[kind |-> "listed", versions |-> OnNpm]}
            \cup (IF faults < MaxFaults THEN {[kind |-> "undetermined"]} ELSE {})
Replies(v) == {npm[v]} \cup (IF faults < MaxFaults THEN {[kind |-> "unreadable"]} ELSE {})

\* The tags are known only if the checkout fetched them.
CheckPr(p) ==
    /\ pr[p].state = "open"
    /\ Mergeable(p)
    /\ \E listing \in Listings, reply \in Replies(Merged(p).ver),
          fetched \in {{}, Tagged} :
        /\ CheckPublishVersion(Merged(p).ver, IF pr[p].kind = "code" THEN "yes" ELSE "no", listing,
                               ReleasedVersions(Pinned(main.root), fetched, listing)) = "pass"
        /\ ParityExit(reply, Merged(p), TRUE, TRUE) = 0
        /\ faults' = IF listing.kind = "undetermined" \/ reply.kind = "unreadable" THEN faults + 1 ELSE faults
    /\ pr' = [pr EXCEPT ![p].state = "checked"]
    /\ UNCHANGED <<main, run, tags, pages, served, npm, host, derived>>

\* A checked request may be merged later, when main and the releases have moved on.
MergePr(p) ==
    /\ pr[p].state = "checked"
    /\ Mergeable(p)
    /\ main' = [main EXCEPT !.tree = Merged(p), !.merged = @ \cup {p}]
    /\ pr' = [pr EXCEPT ![p] = [@ EXCEPT !.state = "merged", !.ver = 0, !.base = 0]]
    /\ run' = [run EXCEPT ![p] = RunOn(Merged(p), main.root, "build-test")]
    /\ UNCHANGED <<tags, pages, served, npm, host, faults, derived>>

----------------------------------------------------------------------------
(* The release run *)

Goto(p, pc) == [run EXCEPT ![p] = IF pc \in Ended THEN RunOn(@.tree, @.root, pc) ELSE [@ EXCEPT !.pc = pc]]

\* The checks of the merged commit, of which only the comparison with npm is about releases.
BuildTest(p) ==
    /\ run[p].pc = "build-test"
    /\ \E reply \in Replies(run[p].tree.ver) :
        /\ run' = Goto(p, IF ParityExit(reply, run[p].tree, TRUE, TRUE) = 0 THEN "approval" ELSE "red")
        /\ faults' = IF reply.kind = "unreadable" THEN faults + 1 ELSE faults
    /\ UNCHANGED <<main, pr, tags, pages, served, npm, host, derived>>

\* The manifest of a version already on npm: the trust root's of this checkout, else the
\* one the origin serves, else one derived from the files it serves.
BackfillVersion(p, v) ==
    IF run[p].root[v] # NoManifest THEN run[p].root[v]
    ELSE IF served[v].kind = "none" THEN NoManifest
    ELSE IF served[v].manifest # NoManifest THEN served[v].manifest
    ELSE Derived(served[v].code, derived)

\* The origin answers for a pinned version with other bytes.
OriginDivergence(p, v) ==
    /\ run[p].root[v] # NoManifest
    /\ served[v].kind # "none"
    /\ served[v].manifest \notin {NoManifest, run[p].root[v]}

Others(p) == OnNpm \ {run[p].tree.ver}
Derives(p) == \E v \in Others(p) : BackfillVersion(p, v).kind = "derived"

\* Once approved, the job builds the version of the tree and collects a manifest for every other one on npm.
Assemble(p) ==
    /\ run[p].pc = "approval"
    /\ Derives(p) => derived < MaxDerived
    /\ run' = IF \E v \in Others(p) : OriginDivergence(p, v) \/ BackfillVersion(p, v) = NoManifest
              THEN Goto(p, "red")
              ELSE [run EXCEPT ![p].pc = "sync",
                               ![p].payload = [v \in Versions |->
                                   IF v = run[p].tree.ver THEN Built(run[p].tree.code)
                                   ELSE IF v \in Others(p) THEN BackfillVersion(p, v) ELSE NoManifest]]
    /\ derived' = IF Derives(p) THEN derived + 1 ELSE derived
    /\ UNCHANGED <<main, pr, tags, pages, served, npm, host, faults>>

\* Mutant of Violations: the version just built is not compared.
ViolationsOfOthers(p) ==
    {v \in Pinned(run[p].payload) \ {run[p].tree.ver} : run[p].root[v] \notin {NoManifest, run[p].payload[v]}}

\* The manifests of the payload that the checkout's trust root has with other bytes.
Violations(p) == {v \in Pinned(run[p].payload) : run[p].root[v] \notin {NoManifest, run[p].payload[v]}}

\* Writes the manifests the checkout's trust root lacks, unless one it has would change.
SyncRepoIntegrity(p) ==
    LET changed == Pinned(run[p].payload) \ Pinned(run[p].root)
    IN  /\ run[p].pc = "sync"
        /\ run' = IF Violations(p) # {} THEN Goto(p, "red")
                  ELSE [run EXCEPT ![p].pc = IF changed = {} THEN "tag" ELSE "rebase",
                                   ![p].head = [v \in Versions |-> IF v \in changed THEN run[p].payload[v]
                                                                   ELSE run[p].root[v]]]
        /\ UNCHANGED <<main, pr, tags, pages, served, npm, host, faults, derived>>

\* The manifests the commit adds.
Added(p) == Pinned(run[p].head) \ Pinned(run[p].root)

\* Mutant of Conflicts: a manifest that main has got is a conflict, also the same one.
ConflictsIfThere(p) == Added(p) \cap Pinned(main.root)

\* What the commit adds that main has got meanwhile with other bytes; what main has got
\* with the same bytes is no change any more.
Conflicts(p) == {v \in Added(p) : main.root[v] \notin {NoManifest, run[p].head[v]}}

\* The commit is replayed on main as it is now.
Rebase(p) ==
    /\ run[p].pc = "rebase"
    /\ run' = IF Conflicts(p) # {} THEN Goto(p, "red")
              ELSE [run EXCEPT ![p].pc = "push", ![p].seen = main.merged,
                               ![p].head = [v \in Versions |-> IF v \in Added(p) THEN run[p].head[v] ELSE main.root[v]]]
    /\ UNCHANGED <<main, pr, tags, pages, served, npm, host, faults, derived>>

\* Mutant of FastForward: the push is forced.
Forced(p) == run[p].seen \subseteq main.merged

\* Git takes the push only if it leaves nothing of main behind.
FastForward(p) == run[p].seen = main.merged /\ \A v \in Pinned(main.root) : run[p].head[v] = main.root[v]

PushMain(p) ==
    /\ run[p].pc = "push"
    /\ IF FastForward(p)
       THEN /\ main' = [main EXCEPT !.root = run[p].head]
            /\ run' = Goto(p, "tag")
       ELSE /\ run' = Goto(p, "red")
            /\ UNCHANGED main
    /\ UNCHANGED <<pr, tags, pages, served, npm, host, faults, derived>>

Tag(p) ==
    LET v == run[p].tree.ver
    IN  /\ run[p].pc = "tag"
        /\ tags' = IF v \in Tagged THEN tags ELSE [tags EXCEPT ![v] = run[p].head]
        /\ run' = [run EXCEPT ![p].pc = "pages", ![p].newTag = v \notin Tagged]
        /\ UNCHANGED <<main, pr, pages, served, npm, host, faults, derived>>

\* The version's files and every manifest of the payload; other files are kept.
PushPages(p) ==
    LET v == run[p].tree.ver
    IN  /\ run[p].pc = "pages"
        /\ pages' = [w \in Versions |->
             IF w = v THEN [kind |-> "files", code |-> run[p].tree.code, manifest |-> run[p].payload[v]]
             ELSE IF run[p].payload[w] # NoManifest /\ pages[w].kind = "files"
                  THEN [pages[w] EXCEPT !.manifest = run[p].payload[w]]
             ELSE pages[w]]
        /\ run' = Goto(p, "npm")
        /\ UNCHANGED <<main, pr, tags, served, npm, host, faults, derived>>

\* Mutant of SkipIsNoOp: skipped in any case.
SkipAlways(p) == run[p].pc = "npm"

\* A version that npm has is skipped, if that changes nothing.
SkipIsNoOp(p) == ParityExit(npm[run[p].tree.ver], run[p].tree, TRUE, FALSE) = 0

\* npm answers that it has the version, or the version is published; what fails on the
\* way (a reply that does not come, npm refusing a version it has) is a failed step.
Publish(p) ==
    LET t == run[p].tree
        publish == npm[t.ver] = NoPackage
    IN  /\ run[p].pc = "npm"
        /\ npm' = IF publish THEN [npm EXCEPT ![t.ver] = Package(t.code, t.deps)] ELSE npm
        /\ run' = Goto(p, IF publish \/ SkipIsNoOp(p) THEN "deploy" ELSE "red")
        /\ UNCHANGED <<main, pr, tags, pages, served, host, faults, derived>>

\* Mutant of NeedsDeploy: only the run that made the tag asks.
NeedsDeployIfNew(p) == run[p].newTag

\* A deploy is asked for unless the host is known to pin the version; a request for one
\* that is refused fails the run, as any other step may.
NeedsDeploy(p) == run[p].tree.ver \notin host.pins

Dispatch(p) ==
    /\ run[p].pc = "deploy"
    /\ host' = IF NeedsDeploy(p) THEN [host EXCEPT !.queued = TRUE] ELSE host
    /\ run' = Goto(p, "green")
    /\ UNCHANGED <<main, pr, tags, pages, served, npm, faults, derived>>

\* Any step of either job may fail, and what it has done so far stays.
Fail(p) ==
    /\ run[p].pc \notin Ended
    /\ faults < MaxFaults
    /\ faults' = faults + 1
    /\ run' = Goto(p, "red")
    /\ UNCHANGED <<main, pr, tags, pages, served, npm, host, derived>>

\* The failed jobs of a run again, on the same commit.
Rerun(p) ==
    /\ run[p].pc = "red"
    /\ run' = Goto(p, "build-test")
    /\ UNCHANGED <<main, pr, tags, pages, served, npm, host, faults, derived>>

\* After a green run the pages job serves the branch as it is then.
DeployPages(p) ==
    /\ run[p].pc = "green"
    /\ served' = pages
    /\ UNCHANGED <<main, pr, run, tags, pages, npm, host, faults, derived>>

\* What the tag of the greatest version has in its trust root, older versions included.
PinnedByNewestTag == UNION {Pinned(tags[n]) : n \in {n \in Tagged : \A v \in Tagged : v <= n}}

\* A deploy assembles the host's manifest from the newest tag, or is lost.
HostDeploys ==
    /\ host.queued
    /\ \/ host' = [pins |-> PinnedByNewestTag, queued |-> FALSE] /\ UNCHANGED faults
       \/ faults < MaxFaults /\ faults' = faults + 1 /\ host' = [host EXCEPT !.queued = FALSE]
    /\ UNCHANGED <<main, pr, run, tags, pages, served, npm, derived>>

----------------------------------------------------------------------------
\* Version 0 is on npm and served, with or without a manifest in the trust root and at a tag.
Init ==
    /\ \E pinned \in BOOLEAN :
        LET root == [v \in Versions |-> IF v = 0 /\ pinned THEN Built({}) ELSE NoManifest]
        IN  /\ main = [tree |-> [ver |-> 0, code |-> {}, deps |-> {}], root |-> root, first |-> root[0], merged |-> {}]
            /\ pages = [v \in Versions |-> IF v = 0 THEN [kind |-> "files", code |-> {}, manifest |-> root[0]]
                                           ELSE NoFiles]
            /\ tags = [v \in Versions |-> IF v = 0 THEN root ELSE EmptyRoot]
            /\ host = [pins |-> {v \in {0} : pinned}, queued |-> FALSE]
    /\ served = pages
    /\ npm = [v \in Versions |-> IF v = 0 THEN Package({}, {}) ELSE NoPackage]
    /\ pr = [p \in Prs |-> [state |-> "none", kind |-> "docs", ver |-> 0, base |-> 0]]
    /\ run = [p \in Prs |-> RunOn(main.tree, main.root, "none")]
    /\ faults = 0
    /\ derived = 0

Step(p) == BuildTest(p) \/ Assemble(p) \/ SyncRepoIntegrity(p) \/ Rebase(p) \/ PushMain(p)
           \/ Tag(p) \/ PushPages(p) \/ Publish(p) \/ Dispatch(p)

Next ==
    \/ \E p \in Prs : OpenPr(p) \/ CheckPr(p) \/ MergePr(p)
    \/ \E p \in Prs : Step(p) \/ Fail(p) \/ Rerun(p) \/ DeployPages(p)
    \/ HostDeploys

Spec == Init /\ [][Next]_releaseVars

\* Reviewers approve, somebody runs a failed job again, the pages and the deploy come.
FairSpec == Spec /\ \A p \in Prs : WF_releaseVars(Step(p)) /\ WF_releaseVars(Rerun(p)) /\ WF_releaseVars(DeployPages(p))
                 /\ WF_releaseVars(HostDeploys)

----------------------------------------------------------------------------
(* Properties *)

Manifests == {NoManifest} \cup [kind : {"built"}, code : SUBSET Prs]
             \cup [kind : {"derived"}, code : SUBSET Prs, n : 0..MaxDerived]
Roots == [Versions -> Manifests]
PageSet == [Versions -> {NoFiles} \cup [kind : {"files"}, code : SUBSET Prs, manifest : Manifests]]

TypeOK ==
    /\ main \in [tree : Tree, root : Roots, first : Manifests, merged : SUBSET Prs]
    /\ pr \in [Prs -> [state : {"none", "open", "checked", "merged"}, kind : Kinds, ver : Versions, base : Versions]]
    /\ run \in [Prs -> [pc : Ended \cup {"build-test", "approval", "sync", "rebase", "push", "tag",
                                         "pages", "npm", "deploy"},
                        tree : Tree, root : Roots, payload : Roots, head : Roots, seen : SUBSET Prs, newTag : BOOLEAN]]
    /\ tags \in [Versions -> Roots]
    /\ pages \in PageSet
    /\ served \in PageSet
    /\ npm \in [Versions -> {NoPackage} \cup [kind : {"published"}, code : SUBSET Prs, deps : SUBSET Prs]]
    /\ host \in [pins : SUBSET Versions, queued : BOOLEAN]
    /\ faults \in 0..MaxFaults
    /\ derived \in 0..MaxDerived

\* Once the trust root on main pins a version, no run and no merge changes or removes the
\* pin (sync-repo-integrity.mjs, the rebase and the push of ci.yml).
TrustRootFrozen == [][\A v \in Pinned(main.root) : main'.root[v] = main.root[v]]_releaseVars

\* Whatever runs overlap or break off: the files on gh-pages, the package on npm and the
\* manifest of a version at any tag are those the trust root pins, and but for version 0
\* nothing is out before it is pinned.  If version 0 was not pinned when the first request
\* came, its pin is only as good as the answers of the registry: a run whose comparison with
\* npm got none may pin another tree, when the version went back to 0 after a check.
Unpinned(v) ==
    /\ \A t \in Versions : tags[t][v] = NoManifest
    /\ pages[v] = NoFiles \/ pages[v].manifest = NoManifest
    /\ v = 0 \/ (pages[v] = NoFiles /\ npm[v] = NoPackage)

Agree(v, pin) ==
    /\ \A t \in Versions : tags[t][v] \in {NoManifest, pin}
    /\ pages[v] = NoFiles \/ pages[v].manifest \in {NoManifest, pin}
    /\ \/ v = 0 /\ main.first = NoManifest
       \/ /\ pages[v] = NoFiles \/ pages[v].code = pin.code
          /\ npm[v] = NoPackage \/ npm[v].code = pin.code

OneSetOfBytes == \A v \in Versions :
    IF main.root[v] = NoManifest THEN Unpinned(v) ELSE Agree(v, main.root[v])

\* A run that ends green has its tree on npm: a skip is a no-op.
GreenMeansShipped == \A p \in Prs :
    run[p].pc = "green" => npm[run[p].tree.ver] = Package(run[p].tree.code, run[p].tree.deps)

\* A version that every request which carries it builds from the same tree is on npm in
\* the end, however often its runs fail, when version 0 was pinned before.  And once no step
\* or deploy fails any more, a version whose run comes to its last step is pinned by the host
\* in the end, also when an earlier run had tagged it and failed before it asked for a deploy -
\* unless a greater version was tagged on a trust root without it: a deploy reads the newest tag
\* only (ci.yml:378), so of two releases that end out of order the older may stay unpinned.
Undisputed(p) == \A q \in Prs : run[q].pc # "none" /\ run[q].tree.ver = run[p].tree.ver => run[q].tree = run[p].tree
Overtaken(v) == \E w \in Tagged : w > v /\ tags[w][v] = NoManifest
BumpShips ==
    /\ main.root[0] # NoManifest => \A p \in Prs :
         <>[](run[p].pc # "none" /\ Undisputed(p)) => <>(run[p].pc # "none" /\ npm[run[p].tree.ver] # NoPackage)
    /\ \A p \in Prs : run[p].pc = "deploy" /\ faults = MaxFaults ~>
         run[p].tree.ver \in host.pins \/ Overtaken(run[p].tree.ver)
=============================================================================
