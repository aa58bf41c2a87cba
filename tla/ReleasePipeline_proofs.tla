----------------------- MODULE ReleasePipeline_proofs -----------------------
(***************************************************************************)
(* What overlapping, failing and repeated release runs keep, for any       *)
(* number of requests, versions and failures.  The trust root and the      *)
(* registry only grow; what a run works with is therefore still true when  *)
(* it comes to use it, however long it waited.                             *)
(***************************************************************************)
EXTENDS ReleasePipeline, TLAPS

----------------------------------------------------------------------------
(* Types.                                                                  *)

Pcs == Ended \cup {"build-test", "approval", "sync", "rebase", "push", "tag", "pages", "npm", "deploy"}
RunSet == [pc : Pcs, tree : Tree, root : Roots, payload : Roots, head : Roots, seen : SUBSET Prs, newTag : BOOLEAN]
PrSet == [state : {"none", "open", "checked", "merged"}, kind : Kinds, ver : Versions, base : Versions]
FileSet == {NoFiles} \cup [kind : {"files"}, code : SUBSET Prs, manifest : Manifests]
Packages == {NoPackage} \cup [kind : {"published"}, code : SUBSET Prs, deps : SUBSET Prs]

LEMMA TypeParts == TypeOK <=>
    /\ main \in [tree : Tree, root : Roots, first : Manifests, merged : SUBSET Prs]
    /\ pr \in [Prs -> PrSet]
    /\ run \in [Prs -> RunSet]
    /\ tags \in [Versions -> Roots]
    /\ pages \in [Versions -> FileSet]
    /\ served \in [Versions -> FileSet]
    /\ npm \in [Versions -> Packages]
    /\ host \in [pins : SUBSET Versions, queued : BOOLEAN]
    /\ faults \in 0..MaxFaults
    /\ derived \in 0..MaxDerived
BY DEF TypeOK, PrSet, RunSet, Pcs, PageSet, FileSet, Packages

LEMMA ManifestTypes ==
    /\ NoManifest \in Manifests
    /\ EmptyRoot \in Roots
    /\ \A code \in SUBSET Prs : Built(code) \in Manifests /\ Built(code) # NoManifest
    /\ \A code \in SUBSET Prs, n \in 0..MaxDerived : Derived(code, n) \in Manifests
BY DEF NoManifest, EmptyRoot, Roots, Manifests, Built, Derived

LEMMA RunOnType ==
    ASSUME NEW tree \in Tree, NEW root \in Roots, NEW pc \in Pcs
    PROVE  /\ RunOn(tree, root, pc) \in RunSet
           /\ RunOn(tree, root, pc).pc = pc
           /\ RunOn(tree, root, pc).tree = tree
           /\ RunOn(tree, root, pc).root = root
BY ManifestTypes DEF RunOn, RunSet

\* A step of a run that changes its place only, or ends it.
LEMMA GotoType ==
    ASSUME TypeOK, NEW p \in Prs, NEW pc \in Pcs
    PROVE  /\ Goto(p, pc) \in [Prs -> RunSet]
           /\ \A q \in Prs \ {p} : Goto(p, pc)[q] = run[q]
           /\ Goto(p, pc)[p].pc = pc
           /\ Goto(p, pc)[p].tree = run[p].tree
           /\ Goto(p, pc)[p].root = run[p].root
           /\ pc \notin Ended => /\ Goto(p, pc)[p].payload = run[p].payload
                                 /\ Goto(p, pc)[p].head = run[p].head
<1>1. run \in [Prs -> RunSet] /\ run[p] \in RunSet /\ run[p].tree \in Tree /\ run[p].root \in Roots
    <2>1. run \in [Prs -> RunSet]
        BY TypeParts
    <2>2. QED
        BY <2>1 DEF RunSet
<1>2. CASE pc \in Ended
    <2>1. Goto(p, pc) = [run EXCEPT ![p] = RunOn(run[p].tree, run[p].root, pc)]
        BY <1>1, <1>2 DEF Goto
    <2>2. QED
        BY <1>1, <1>2, <2>1, RunOnType
<1>3. CASE pc \notin Ended
    <2>1. Goto(p, pc) = [run EXCEPT ![p] = [run[p] EXCEPT !.pc = pc]]
        BY <1>1, <1>3 DEF Goto
    <2>2. [run[p] EXCEPT !.pc = pc] \in RunSet
        BY <1>1 DEF RunSet
    <2>3. QED
        BY <1>1, <1>3, <2>1, <2>2 DEF RunSet
<1>4. QED
    BY <1>2, <1>3

LEMMA BackfillType ==
    ASSUME TypeOK, NEW p \in Prs, NEW v \in Versions
    PROVE  BackfillVersion(p, v) \in Manifests
<1>1. run[p].root[v] \in Manifests
    BY TypeParts DEF RunSet, Roots
<1>2. served[v] \in FileSet
    BY TypeParts
<1>3. CASE served[v].kind = "none"
    BY <1>1, <1>3, ManifestTypes DEF BackfillVersion
<1>4. CASE served[v].kind # "none"
    <2>1. served[v].manifest \in Manifests /\ served[v].code \in SUBSET Prs
        BY <1>2, <1>4 DEF FileSet, NoFiles
    <2>2. Derived(served[v].code, derived) \in Manifests
        BY <2>1, TypeParts, ManifestTypes
    <2>3. QED
        BY <1>1, <1>4, <2>1, <2>2 DEF BackfillVersion
<1>5. QED
    BY <1>3, <1>4

LEMMA InitType == Init => TypeOK
<1> SUFFICES ASSUME Init PROVE TypeOK
    OBVIOUS
<1>1. 0 \in Versions
    BY ReleaseAssumption DEF Versions
<1>2. PICK pinned \in BOOLEAN :
        LET root == [v \in Versions |-> IF v = 0 /\ pinned THEN Built({}) ELSE NoManifest]
        IN  /\ main = [tree |-> [ver |-> 0, code |-> {}, deps |-> {}], root |-> root, first |-> root[0], merged |-> {}]
            /\ pages = [v \in Versions |-> IF v = 0 THEN [kind |-> "files", code |-> {}, manifest |-> root[0]]
                                           ELSE NoFiles]
            /\ tags = [v \in Versions |-> IF v = 0 THEN root ELSE EmptyRoot]
            /\ host = [pins |-> {v \in {0} : pinned}, queued |-> FALSE]
    BY DEF Init
<1> DEFINE root == [v \in Versions |-> IF v = 0 /\ pinned THEN Built({}) ELSE NoManifest]
<1>3. root \in Roots /\ root[0] \in Manifests
    <2>1. Built({}) \in Manifests /\ NoManifest \in Manifests
        BY ManifestTypes
    <2>2. QED
        BY <1>1, <2>1 DEF Roots
<1> HIDE DEF root
<1>4. /\ main = [tree |-> [ver |-> 0, code |-> {}, deps |-> {}], root |-> root, first |-> root[0], merged |-> {}]
      /\ pages = [v \in Versions |-> IF v = 0 THEN [kind |-> "files", code |-> {}, manifest |-> root[0]]
                                     ELSE NoFiles]
      /\ tags = [v \in Versions |-> IF v = 0 THEN root ELSE EmptyRoot]
      /\ host = [pins |-> {v \in {0} : pinned}, queued |-> FALSE]
    BY <1>2 DEF root
<1>5. main.tree \in Tree /\ main.root \in Roots
    BY <1>1, <1>3, <1>4 DEF Tree
<1>6. main \in [tree : Tree, root : Roots, first : Manifests, merged : SUBSET Prs]
    BY <1>3, <1>4, <1>5
<1>7. run \in [Prs -> RunSet]
    BY <1>5, RunOnType DEF Init, Pcs, Ended
<1>8. pages \in [Versions -> FileSet] /\ served \in [Versions -> FileSet]
    BY <1>3, <1>4 DEF FileSet, Init
<1>9. npm \in [Versions -> Packages]
    BY DEF Init, Packages, Package
<1>10. pr \in [Prs -> PrSet]
    BY <1>1 DEF Init, PrSet, Kinds
<1>11. host \in [pins : SUBSET Versions, queued : BOOLEAN] /\ tags \in [Versions -> Roots]
    BY <1>1, <1>3, <1>4, ManifestTypes
<1>12. faults \in 0..MaxFaults /\ derived \in 0..MaxDerived
    BY ReleaseAssumption DEF Init
<1>13. QED
    BY <1>6, <1>7, <1>8, <1>9, <1>10, <1>11, <1>12, TypeParts

----------------------------------------------------------------------------
(* The invariant.                                                          *)

\* A run `r` with the trust root and the registry as they are.
RunFits(r, root, shop) ==
    \* the pins of its checkout are those of main
    /\ \A v \in Versions : r.root[v] # NoManifest => root[v] = r.root[v]
    \* its payload holds what it built, and manifests of versions that are out
    /\ r.pc \in {"sync", "rebase", "push", "tag", "pages", "npm", "deploy"} =>
         /\ r.payload[r.tree.ver] = Built(r.tree.code)
         /\ \A v \in Versions : r.payload[v] # NoManifest => v = r.tree.ver \/ shop[v] # NoPackage
    \* the commit it makes holds the payload, and nothing that main has otherwise
    /\ r.pc \in {"rebase", "push", "tag"} =>
         \A v \in Versions : r.payload[v] # NoManifest => r.head[v] = r.payload[v]
    /\ r.pc \in {"rebase", "push", "tag"} =>
         \A v \in Versions : r.head[v] # NoManifest => r.head[v] = r.payload[v] \/ r.head[v] = root[v]
    /\ r.pc = "rebase" =>
         \A v \in Versions : r.payload[v] # NoManifest /\ r.root[v] # NoManifest => r.root[v] = r.payload[v]
    \* from the push on the payload is pinned
    /\ r.pc \in {"tag", "pages", "npm", "deploy"} =>
         \A v \in Versions : r.payload[v] # NoManifest => root[v] = r.payload[v]
    \* and from the publication on its tree is on npm
    /\ r.pc \in {"deploy", "green"} => shop[r.tree.ver] = Package(r.tree.code, r.tree.deps)

FirstStays == main.first # NoManifest => main.root[0] = main.first

IInv == TypeOK /\ FirstStays /\ OneSetOfBytes /\ \A p \in Prs : RunFits(run[p], main.root, npm)

\* What no step takes back.
RootGrows == \A v \in Versions : main.root[v] # NoManifest => main'.root[v] = main.root[v]
ShopGrows == \A v \in Versions : npm[v] # NoPackage => npm'[v] = npm[v]

LEMMA RunTypes ==
    ASSUME TypeOK, NEW p \in Prs
    PROVE  /\ run[p] \in RunSet
           /\ run[p].tree \in Tree /\ run[p].tree.ver \in Versions /\ run[p].tree.code \in SUBSET Prs
           /\ run[p].tree.deps \in SUBSET Prs
           /\ run[p].root \in Roots /\ run[p].payload \in Roots /\ run[p].head \in Roots
           /\ Built(run[p].tree.code) # NoManifest
<1>1. run[p] \in RunSet
    BY TypeParts
<1>2. /\ run[p].tree \in Tree
      /\ run[p].root \in Roots /\ run[p].payload \in Roots /\ run[p].head \in Roots
    BY <1>1 DEF RunSet
<1>3. run[p].tree.ver \in Versions /\ run[p].tree.code \in SUBSET Prs /\ run[p].tree.deps \in SUBSET Prs
    BY <1>2 DEF Tree
<1>4. QED
    BY <1>1, <1>2, <1>3, ManifestTypes

\* A run stays right while others add pins and packages.
LEMMA FitsAsOthersGo ==
    ASSUME NEW r, r.tree.ver \in Versions, NEW root, NEW root2, NEW shop, NEW shop2,
           \A v \in Versions : root[v] # NoManifest => root2[v] = root[v],
           \A v \in Versions : shop[v] # NoPackage => shop2[v] = shop[v],
           RunFits(r, root, shop)
    PROVE  RunFits(r, root2, shop2)
<1>1. \A code, deps : Package(code, deps) # NoPackage
    BY DEF Package, NoPackage
<1>2. \A v \in Versions : r.root[v] # NoManifest => root2[v] = r.root[v]
    BY DEF RunFits
<1>3. r.pc \in {"sync", "rebase", "push", "tag", "pages", "npm", "deploy"} =>
         /\ r.payload[r.tree.ver] = Built(r.tree.code)
         /\ \A v \in Versions : r.payload[v] # NoManifest => v = r.tree.ver \/ shop2[v] # NoPackage
    BY DEF RunFits
<1>4. /\ r.pc \in {"rebase", "push", "tag"} =>
           \A v \in Versions : r.payload[v] # NoManifest => r.head[v] = r.payload[v]
      /\ r.pc \in {"rebase", "push", "tag"} =>
           \A v \in Versions : r.head[v] # NoManifest => r.head[v] = r.payload[v] \/ r.head[v] = root2[v]
      /\ r.pc = "rebase" =>
           \A v \in Versions : r.payload[v] # NoManifest /\ r.root[v] # NoManifest => r.root[v] = r.payload[v]
    BY DEF RunFits
<1>5. r.pc \in {"tag", "pages", "npm", "deploy"} =>
         \A v \in Versions : r.payload[v] # NoManifest => root2[v] = r.payload[v]
    BY DEF RunFits
<1>6. r.pc \in {"deploy", "green"} => shop2[r.tree.ver] = Package(r.tree.code, r.tree.deps)
    BY <1>1 DEF RunFits
<1>7. QED
    BY <1>2, <1>3, <1>4, <1>5, <1>6 DEF RunFits

\* A run that starts or has failed holds nothing but its checkout.
LEMMA FitsAtRest ==
    ASSUME NEW r, NEW root, NEW shop, r.pc \in {"none", "red", "build-test", "approval"},
           \A v \in Versions : r.root[v] # NoManifest => root[v] = r.root[v]
    PROVE  RunFits(r, root, shop)
BY DEF RunFits

\* What is shown of a step of the run p.
RunStep(p) ==
    /\ TypeOK'
    /\ RootGrows /\ ShopGrows /\ main'.first = main.first
    /\ \A q \in Prs \ {p} : run'[q] = run[q]
    /\ RunFits(run'[p], main'.root, npm')
    /\ OneSetOfBytes'

LEMMA RunStepKeeps ==
    ASSUME IInv, NEW p \in Prs, RunStep(p)
    PROVE  IInv'
<1>1. 0 \in Versions
    BY ReleaseAssumption DEF Versions
<1>2. FirstStays'
    BY <1>1 DEF IInv, FirstStays, RunStep, RootGrows
<1>3. ASSUME NEW q \in Prs
      PROVE  RunFits(run'[q], main'.root, npm')
    <2>1. CASE q = p
        BY <2>1 DEF RunStep
    <2>2. CASE q # p
        <3>1. run'[q] = run[q] /\ run[q].tree.ver \in Versions /\ RunFits(run[q], main.root, npm)
            BY <2>2, RunTypes DEF RunStep, IInv
        <3>2. QED
            BY <3>1, FitsAsOthersGo DEF RunStep, RootGrows, ShopGrows
    <2>3. QED
        BY <2>1, <2>2
<1>4. QED
    BY <1>2, <1>3 DEF IInv, RunStep

\* The branch, the tags, the pages and npm decide OneSetOfBytes.
LEMMA BytesUnchanged ==
    ASSUME OneSetOfBytes, UNCHANGED <<tags, pages, npm>>, main'.root = main.root, main'.first = main.first
    PROVE  OneSetOfBytes'
BY DEF OneSetOfBytes, Unpinned, Agree

LEMMA InitIInv == Init => IInv
<1> SUFFICES ASSUME Init PROVE IInv
    OBVIOUS
<1>1. 0 \in Versions
    BY ReleaseAssumption DEF Versions
<1>2. TypeOK
    BY InitType
<1>3. FirstStays /\ \A t, v \in Versions : tags[t][v] \in {NoManifest, main.root[v]}
    BY <1>1 DEF Init, FirstStays, EmptyRoot
<1>4. /\ \A v \in Versions : main.root[v] \in {NoManifest, Built({})} /\ (v # 0 => main.root[v] = NoManifest)
      /\ pages = [v \in Versions |-> IF v = 0 THEN [kind |-> "files", code |-> {}, manifest |-> main.root[0]]
                                     ELSE NoFiles]
    BY <1>1 DEF Init
<1>5. OneSetOfBytes
    <2> SUFFICES ASSUME NEW v \in Versions
                 PROVE  IF main.root[v] = NoManifest THEN Unpinned(v) ELSE Agree(v, main.root[v])
        BY DEF OneSetOfBytes
    <2>1. CASE v # 0
        BY <1>3, <1>4, <2>1 DEF Unpinned, Init
    <2>2. CASE v = 0
        <3>1. npm[v].code = {} /\ pages[v].code = {} /\ pages[v].manifest = main.root[v]
            BY <1>1, <1>4, <2>2 DEF Init, Package
        <3>2. Built({}).code = {}
            BY DEF Built
        <3>3. QED
            BY <1>3, <1>4, <2>2, <3>1, <3>2 DEF Unpinned, Agree
    <2>3. QED
        BY <2>1, <2>2
<1>6. ASSUME NEW p \in Prs
      PROVE  RunFits(run[p], main.root, npm)
    <2>1. run[p] = RunOn(main.tree, main.root, "none")
        BY DEF Init
    <2>2. run[p].pc = "none" /\ run[p].root = main.root
        BY <2>1 DEF RunOn
    <2>3. QED
        BY <2>2, FitsAtRest
<1>7. QED
    BY <1>2, <1>3, <1>5, <1>6 DEF IInv

----------------------------------------------------------------------------
(* The steps.                                                              *)

LEMMA TypeNext ==
    ASSUME main' \in [tree : Tree, root : Roots, first : Manifests, merged : SUBSET Prs],
           pr' \in [Prs -> PrSet],
           run' \in [Prs -> RunSet],
           tags' \in [Versions -> Roots],
           pages' \in [Versions -> FileSet],
           served' \in [Versions -> FileSet],
           npm' \in [Versions -> Packages],
           host' \in [pins : SUBSET Versions, queued : BOOLEAN],
           faults' \in 0..MaxFaults,
           derived' \in 0..MaxDerived
    PROVE  TypeOK'
BY DEF TypeOK, PrSet, RunSet, Pcs, PageSet, FileSet, Packages

\* A step that moves the run p and leaves what is published alone.
LEMMA QuietStep ==
    ASSUME IInv, NEW p \in Prs, UNCHANGED <<main, pr, tags, pages, served, npm, host>>,
           run' \in [Prs -> RunSet], \A q \in Prs \ {p} : run'[q] = run[q],
           faults' \in 0..MaxFaults, derived' \in 0..MaxDerived,
           RunFits(run'[p], main.root, npm)
    PROVE  RunStep(p)
<1>1. TypeOK'
    BY TypeParts, TypeNext DEF IInv
<1>2. OneSetOfBytes'
    BY BytesUnchanged DEF IInv
<1>3. QED
    BY <1>1, <1>2 DEF RunStep, RootGrows, ShopGrows

\* Requests and their checks touch no run.
LEMMA MergedType ==
    ASSUME TypeOK, NEW p \in Prs
    PROVE  Merged(p) \in Tree
<1>1. pr[p] \in PrSet /\ main.tree \in Tree
    BY TypeParts
<1>2. QED
    BY <1>1 DEF Merged, Tree, PrSet

LEMMA OpenPrKeeps ==
    ASSUME IInv, NEW p \in Prs, OpenPr(p)
    PROVE  RunStep(p)
<1>1. PICK v \in Versions, kind \in Kinds :
        pr' = [pr EXCEPT ![p] = [state |-> "open", kind |-> kind, ver |-> v, base |-> main.tree.ver]]
    BY DEF OpenPr
<1>2. main.tree.ver \in Versions
    BY TypeParts DEF IInv, Tree
<1>3. pr' \in [Prs -> PrSet]
    BY <1>1, <1>2, TypeParts DEF IInv, PrSet
<1>4. UNCHANGED <<main, run, tags, pages, served, npm, host, faults, derived>>
    BY DEF OpenPr
<1>5. TypeOK'
    BY <1>3, <1>4, TypeParts, TypeNext DEF IInv
<1>6. OneSetOfBytes'
    BY <1>4, BytesUnchanged DEF IInv
<1>7. QED
    BY <1>4, <1>5, <1>6 DEF RunStep, RootGrows, ShopGrows, IInv

LEMMA CheckPrKeeps ==
    ASSUME IInv, NEW p \in Prs, CheckPr(p)
    PROVE  RunStep(p)
<1>1. pr' = [pr EXCEPT ![p].state = "checked"]
      /\ UNCHANGED <<main, run, tags, pages, served, npm, host, derived>>
    BY DEF CheckPr
<1>2. pr' \in [Prs -> PrSet]
    BY <1>1, TypeParts DEF IInv, PrSet
<1>3. faults' \in 0..MaxFaults
    <2>1. faults \in 0..MaxFaults
        BY TypeParts DEF IInv
    <2>2. PICK listing \in Listings, reply \in Replies(Merged(p).ver) :
            faults' = IF listing.kind = "undetermined" \/ reply.kind = "unreadable" THEN faults + 1 ELSE faults
        BY DEF CheckPr
    <2>3. npm[Merged(p).ver].kind # "unreadable"
        <3>1. npm[Merged(p).ver] \in Packages
            BY MergedType, TypeParts DEF IInv, Tree
        <3>2. QED
            BY <3>1 DEF Packages, NoPackage
    <2>4. faults < MaxFaults \/ (listing.kind # "undetermined" /\ reply.kind # "unreadable")
        BY <2>3 DEF Listings, Replies
    <2>5. QED
        BY <2>1, <2>2, <2>4, ReleaseAssumption
<1>4. TypeOK'
    BY <1>1, <1>2, <1>3, TypeParts, TypeNext DEF IInv
<1>5. OneSetOfBytes'
    BY <1>1, BytesUnchanged DEF IInv
<1>6. QED
    BY <1>1, <1>4, <1>5 DEF RunStep, RootGrows, ShopGrows, IInv

LEMMA MergePrKeeps ==
    ASSUME IInv, NEW p \in Prs, MergePr(p)
    PROVE  RunStep(p)
<1>1. /\ main' = [main EXCEPT !.tree = Merged(p), !.merged = main.merged \cup {p}]
      /\ pr' = [pr EXCEPT ![p] = [pr[p] EXCEPT !.state = "merged", !.ver = 0, !.base = 0]]
      /\ run' = [run EXCEPT ![p] = RunOn(Merged(p), main.root, "build-test")]
      /\ UNCHANGED <<tags, pages, served, npm, host, faults, derived>>
    BY DEF MergePr
<1>2. /\ main \in [tree : Tree, root : Roots, first : Manifests, merged : SUBSET Prs]
      /\ run \in [Prs -> RunSet] /\ pr \in [Prs -> PrSet] /\ Merged(p) \in Tree
    BY TypeParts, MergedType DEF IInv
<1>3. main' \in [tree : Tree, root : Roots, first : Manifests, merged : SUBSET Prs]
      /\ main'.root = main.root /\ main'.first = main.first
    BY <1>1, <1>2
<1>4. pr' \in [Prs -> PrSet]
    <2>1. 0 \in Versions
        BY ReleaseAssumption DEF Versions
    <2>2. [pr[p] EXCEPT !.state = "merged", !.ver = 0, !.base = 0] \in PrSet
        BY <1>2, <2>1 DEF PrSet
    <2>3. QED
        BY <1>1, <1>2, <2>2
<1>5. /\ run' \in [Prs -> RunSet] /\ run'[p].pc = "build-test" /\ run'[p].root = main.root
      /\ \A q \in Prs \ {p} : run'[q] = run[q]
    <2>1. main.root \in Roots /\ "build-test" \in Pcs
        BY <1>2 DEF Pcs
    <2>2. QED
        BY <1>1, <1>2, <2>1, RunOnType
<1>6. RunFits(run'[p], main'.root, npm')
    BY <1>3, <1>5, FitsAtRest
<1>7. TypeOK'
    BY <1>1, <1>3, <1>4, <1>5, TypeParts, TypeNext DEF IInv
<1>8. OneSetOfBytes'
    BY <1>1, <1>3, BytesUnchanged DEF IInv
<1>9. QED
    BY <1>1, <1>3, <1>5, <1>6, <1>7, <1>8 DEF RunStep, RootGrows, ShopGrows

\* A run that begins again, fails or waits for its approval.
LEMMA ToRestKeeps ==
    ASSUME IInv, NEW p \in Prs, NEW pc \in {"red", "build-test", "approval"},
           run' = Goto(p, pc), UNCHANGED <<main, pr, tags, pages, served, npm, host>>,
           faults' \in 0..MaxFaults, derived' \in 0..MaxDerived
    PROVE  RunStep(p)
<1>1. /\ run' \in [Prs -> RunSet] /\ \A q \in Prs \ {p} : run'[q] = run[q]
      /\ run'[p].pc = pc /\ run'[p].root = run[p].root
    BY GotoType DEF IInv, Pcs, Ended
<1>2. RunFits(run'[p], main.root, npm)
    BY <1>1, FitsAtRest DEF IInv, RunFits
<1>3. QED
    BY <1>1, <1>2, QuietStep
LEMMA BuildTestKeeps ==
    ASSUME IInv, NEW p \in Prs, BuildTest(p)
    PROVE  RunStep(p)
<1>1. PICK reply \in Replies(run[p].tree.ver) :
        /\ run' = Goto(p, IF ParityExit(reply, run[p].tree, TRUE, TRUE) = 0 THEN "approval" ELSE "red")
        /\ faults' = IF reply.kind = "unreadable" THEN faults + 1 ELSE faults
    BY DEF BuildTest
<1>2. npm[run[p].tree.ver] \in Packages
    BY RunTypes, TypeParts DEF IInv
<1>3. npm[run[p].tree.ver].kind # "unreadable"
    BY <1>2 DEF Packages, NoPackage
<1>4. reply.kind = "unreadable" => faults < MaxFaults
    BY <1>3 DEF Replies
<1>5. faults' \in 0..MaxFaults /\ derived' \in 0..MaxDerived
    <2>1. faults \in 0..MaxFaults /\ derived \in 0..MaxDerived
        BY TypeParts DEF IInv
    <2>2. QED
        BY <1>1, <1>4, <2>1, ReleaseAssumption DEF BuildTest
<1>6. QED
    BY <1>1, <1>5, ToRestKeeps DEF BuildTest

\* The payload of a run: what it built and what is backfilled for the others.
LEMMA AssembleKeeps ==
    ASSUME IInv, NEW p \in Prs, Assemble(p)
    PROVE  RunStep(p)
<1> DEFINE payload == [v \in Versions |-> IF v = run[p].tree.ver THEN Built(run[p].tree.code)
                                          ELSE IF v \in Others(p) THEN BackfillVersion(p, v) ELSE NoManifest]
           moved == [run EXCEPT ![p].pc = "sync", ![p].payload = payload]
<1>1. UNCHANGED <<main, pr, tags, pages, served, npm, host, faults>>
    BY DEF Assemble
<1>2. faults' \in 0..MaxFaults /\ derived' \in 0..MaxDerived
    <2>1. faults \in 0..MaxFaults /\ derived \in 0..MaxDerived
        BY TypeParts DEF IInv
    <2>2. derived' = derived \/ (derived' = derived + 1 /\ derived < MaxDerived)
        BY DEF Assemble
    <2>3. QED
        BY <1>1, <2>1, <2>2, ReleaseAssumption
<1>3. run' = Goto(p, "red") \/ run' = moved
    BY DEF Assemble
<1>4. CASE run' = Goto(p, "red")
    BY <1>1, <1>2, <1>4, ToRestKeeps
<1>5. CASE run' = moved
    <2>1. run \in [Prs -> RunSet] /\ run[p] \in RunSet
        BY TypeParts DEF IInv
    <2>2. payload \in Roots
        <3>1. Built(run[p].tree.code) \in Manifests
            BY RunTypes, ManifestTypes DEF IInv
        <3>2. \A v \in Versions : BackfillVersion(p, v) \in Manifests
            BY BackfillType DEF IInv
        <3>3. QED
            BY <3>1, <3>2, ManifestTypes DEF Roots
    <2>3. /\ payload[run[p].tree.ver] = Built(run[p].tree.code)
          /\ \A v \in Versions : payload[v] # NoManifest => v = run[p].tree.ver \/ npm[v] # NoPackage
        BY RunTypes DEF IInv, Others, OnNpm
    <2> HIDE DEF payload
    <2>4. moved = [run EXCEPT ![p] = [run[p] EXCEPT !.pc = "sync", !.payload = payload]]
        BY <2>1
    <2>5. [run[p] EXCEPT !.pc = "sync", !.payload = payload] \in RunSet
        BY <2>1, <2>2 DEF RunSet, Pcs
    <2>6. /\ run' \in [Prs -> RunSet] /\ \A q \in Prs \ {p} : run'[q] = run[q]
          /\ run'[p].pc = "sync" /\ run'[p].payload = payload
          /\ run'[p].tree = run[p].tree /\ run'[p].root = run[p].root
        BY <1>5, <2>1, <2>4, <2>5 DEF RunSet
    <2>7. \A v \in Versions : run[p].root[v] # NoManifest => main.root[v] = run[p].root[v]
        BY DEF IInv, RunFits
    <2>8. RunFits(run'[p], main.root, npm)
        BY <2>3, <2>6, <2>7 DEF RunFits
    <2>9. QED
        BY <1>1, <1>2, <2>6, <2>8, QuietStep
<1>6. QED
    BY <1>3, <1>4, <1>5

\* The commit of a run: its payload where the checkout has nothing, and nothing changed.
LEMMA SyncKeeps ==
    ASSUME IInv, NEW p \in Prs, SyncRepoIntegrity(p)
    PROVE  RunStep(p)
<1> DEFINE changed == Pinned(run[p].payload) \ Pinned(run[p].root)
           head == [v \in Versions |-> IF v \in changed THEN run[p].payload[v] ELSE run[p].root[v]]
           next == IF changed = {} THEN "tag" ELSE "rebase"
<1>1. UNCHANGED <<main, pr, tags, pages, served, npm, host, faults, derived>> /\ run[p].pc = "sync"
    BY DEF SyncRepoIntegrity
<1>2. faults' \in 0..MaxFaults /\ derived' \in 0..MaxDerived
    BY <1>1, TypeParts DEF IInv
<1>3. CASE Violations(p) # {}
    BY <1>1, <1>2, <1>3, ToRestKeeps DEF SyncRepoIntegrity
<1>4. CASE Violations(p) = {}
    <2>1. /\ run \in [Prs -> RunSet] /\ run[p] \in RunSet
          /\ run[p].payload \in Roots /\ run[p].root \in Roots
        BY TypeParts, RunTypes DEF IInv
    <2>2. run' = [run EXCEPT ![p].pc = next, ![p].head = head]
        BY <1>4 DEF SyncRepoIntegrity
    <2>3. head \in Roots
        BY <2>1 DEF Roots
    <2>4. \A v \in Versions : run[p].payload[v] # NoManifest /\ run[p].root[v] # NoManifest
                              => run[p].root[v] = run[p].payload[v]
        BY <1>4 DEF Violations, Pinned
    <2>5. \A v \in Versions : run[p].payload[v] # NoManifest => head[v] = run[p].payload[v]
        BY <2>4 DEF Pinned
    <2>6. \A v \in Versions : head[v] # NoManifest => head[v] = run[p].payload[v] \/ head[v] = run[p].root[v]
        OBVIOUS
    <2>7. changed = {} => \A v \in Versions : run[p].payload[v] # NoManifest => run[p].root[v] = run[p].payload[v]
        BY <2>4 DEF Pinned
    <2>8. next \in {"tag", "rebase"} /\ (next = "tag" => changed = {})
        OBVIOUS
    <2> HIDE DEF head, next, changed
    <2>9. run' = [run EXCEPT ![p] = [run[p] EXCEPT !.pc = next, !.head = head]]
        BY <2>1, <2>2
    <2>10. [run[p] EXCEPT !.pc = next, !.head = head] \in RunSet
        BY <2>1, <2>3, <2>8 DEF RunSet, Pcs
    <2>11. /\ run' \in [Prs -> RunSet] /\ \A q \in Prs \ {p} : run'[q] = run[q]
           /\ run'[p].pc = next /\ run'[p].head = head /\ run'[p].payload = run[p].payload
           /\ run'[p].tree = run[p].tree /\ run'[p].root = run[p].root
        BY <2>1, <2>9, <2>10 DEF RunSet
    <2>12. /\ \A v \in Versions : run[p].root[v] # NoManifest => main.root[v] = run[p].root[v]
           /\ run[p].payload[run[p].tree.ver] = Built(run[p].tree.code)
           /\ \A v \in Versions : run[p].payload[v] # NoManifest => v = run[p].tree.ver \/ npm[v] # NoPackage
        BY <1>1 DEF IInv, RunFits
    <2>13. next = "tag" => \A v \in Versions : run[p].payload[v] # NoManifest => main.root[v] = run[p].payload[v]
        BY <2>7, <2>8, <2>12
    <2>14. \A v \in Versions : head[v] # NoManifest => head[v] = run[p].payload[v] \/ head[v] = main.root[v]
        BY <2>6, <2>12
    <2>15. RunFits(run'[p], main.root, npm)
        BY <2>4, <2>5, <2>8, <2>11, <2>12, <2>13, <2>14 DEF RunFits
    <2>16. QED
        BY <1>1, <1>2, <2>11, <2>15, QuietStep
<1>5. QED
    BY <1>3, <1>4

\* The commit replayed on main: where the run adds nothing main stays.
LEMMA RebaseKeeps ==
    ASSUME IInv, NEW p \in Prs, Rebase(p)
    PROVE  RunStep(p)
<1> DEFINE head == [v \in Versions |-> IF v \in Added(p) THEN run[p].head[v] ELSE main.root[v]]
<1>1. UNCHANGED <<main, pr, tags, pages, served, npm, host, faults, derived>> /\ run[p].pc = "rebase"
    BY DEF Rebase
<1>2. faults' \in 0..MaxFaults /\ derived' \in 0..MaxDerived
    BY <1>1, TypeParts DEF IInv
<1>3. CASE Conflicts(p) # {}
    BY <1>1, <1>2, <1>3, ToRestKeeps DEF Rebase
<1>4. CASE Conflicts(p) = {}
    <2>1. /\ run \in [Prs -> RunSet] /\ run[p] \in RunSet /\ run[p].head \in Roots
          /\ main \in [tree : Tree, root : Roots, first : Manifests, merged : SUBSET Prs]
          /\ main.root \in Roots /\ main.merged \in SUBSET Prs
        BY TypeParts, RunTypes DEF IInv
    <2>2. run' = [run EXCEPT ![p].pc = "push", ![p].seen = main.merged, ![p].head = head]
        BY <1>4 DEF Rebase
    <2>3. head \in Roots
        BY <2>1 DEF Roots
    <2>4. /\ \A v \in Versions : run[p].root[v] # NoManifest => main.root[v] = run[p].root[v]
          /\ run[p].payload[run[p].tree.ver] = Built(run[p].tree.code)
          /\ \A v \in Versions : run[p].payload[v] # NoManifest => v = run[p].tree.ver \/ npm[v] # NoPackage
          /\ \A v \in Versions : run[p].payload[v] # NoManifest => run[p].head[v] = run[p].payload[v]
          /\ \A v \in Versions : run[p].head[v] # NoManifest
                                 => run[p].head[v] = run[p].payload[v] \/ run[p].head[v] = main.root[v]
          /\ \A v \in Versions : run[p].payload[v] # NoManifest /\ run[p].root[v] # NoManifest
                                 => run[p].root[v] = run[p].payload[v]
        BY <1>1 DEF IInv, RunFits
    <2>5. ASSUME NEW v \in Versions, run[p].payload[v] # NoManifest
          PROVE  head[v] = run[p].payload[v]
        <3>1. CASE v \in Added(p)
            BY <2>4, <2>5, <3>1
        <3>2. CASE v \notin Added(p)
            BY <2>4, <2>5, <3>2 DEF Added, Pinned
        <3>3. QED
            BY <3>1, <3>2
    <2>6. \A v \in Versions : head[v] # NoManifest => head[v] = run[p].payload[v] \/ head[v] = main.root[v]
        BY <2>4
    <2> HIDE DEF head
    <2>7. run' = [run EXCEPT ![p] = [run[p] EXCEPT !.pc = "push", !.seen = main.merged, !.head = head]]
        BY <2>1, <2>2
    <2>8. [run[p] EXCEPT !.pc = "push", !.seen = main.merged, !.head = head] \in RunSet
        BY <2>1, <2>3 DEF RunSet, Pcs
    <2>9. /\ run' \in [Prs -> RunSet] /\ \A q \in Prs \ {p} : run'[q] = run[q]
          /\ run'[p].pc = "push" /\ run'[p].head = head /\ run'[p].payload = run[p].payload
          /\ run'[p].tree = run[p].tree /\ run'[p].root = run[p].root
        BY <2>1, <2>7, <2>8 DEF RunSet
    <2>10. RunFits(run'[p], main.root, npm)
        BY <2>4, <2>5, <2>6, <2>9 DEF RunFits
    <2>11. QED
        BY <1>1, <1>2, <2>9, <2>10, QuietStep
<1>5. QED
    BY <1>3, <1>4
\* What a push may add to the trust root: its own version, or one that npm has.
LEMMA PushMainKeeps ==
    ASSUME IInv, NEW p \in Prs, PushMain(p)
    PROVE  RunStep(p)
<1>1. UNCHANGED <<pr, tags, pages, served, npm, host, faults, derived>> /\ run[p].pc = "push"
    BY DEF PushMain
<1>2. faults' \in 0..MaxFaults /\ derived' \in 0..MaxDerived
    BY <1>1, TypeParts DEF IInv
<1>3. CASE ~FastForward(p)
    BY <1>1, <1>2, <1>3, ToRestKeeps DEF PushMain
<1>4. CASE FastForward(p)
    <2>1. main' = [main EXCEPT !.root = run[p].head] /\ run' = Goto(p, "tag")
        BY <1>4 DEF PushMain
    <2>2. /\ main \in [tree : Tree, root : Roots, first : Manifests, merged : SUBSET Prs]
          /\ run[p].head \in Roots /\ run[p].tree.ver \in Versions
          /\ Built(run[p].tree.code) # NoManifest
        BY TypeParts, RunTypes DEF IInv
    <2>3. /\ main' \in [tree : Tree, root : Roots, first : Manifests, merged : SUBSET Prs]
          /\ main'.root = run[p].head /\ main'.first = main.first
        BY <2>1, <2>2
    <2>4. /\ run' \in [Prs -> RunSet] /\ \A q \in Prs \ {p} : run'[q] = run[q]
          /\ run'[p].pc = "tag" /\ run'[p].head = run[p].head /\ run'[p].payload = run[p].payload
          /\ run'[p].tree = run[p].tree /\ run'[p].root = run[p].root
        BY <2>1, GotoType DEF IInv, Pcs, Ended
    <2>5. TypeOK'
        BY <1>1, <1>2, <2>3, <2>4, TypeParts, TypeNext DEF IInv
    <2>6. RootGrows
        BY <1>4, <2>3 DEF FastForward, Pinned, RootGrows
    <2>7. /\ \A v \in Versions : run[p].root[v] # NoManifest => main.root[v] = run[p].root[v]
          /\ run[p].payload[run[p].tree.ver] = Built(run[p].tree.code)
          /\ \A v \in Versions : run[p].payload[v] # NoManifest => v = run[p].tree.ver \/ npm[v] # NoPackage
          /\ \A v \in Versions : run[p].payload[v] # NoManifest => run[p].head[v] = run[p].payload[v]
          /\ \A v \in Versions : run[p].head[v] # NoManifest
                                 => run[p].head[v] = run[p].payload[v] \/ run[p].head[v] = main.root[v]
        BY <1>1 DEF IInv, RunFits
    <2>8. RunFits(run'[p], main'.root, npm')
        <3>1. \A v \in Versions : run'[p].root[v] # NoManifest => main'.root[v] = run'[p].root[v]
            BY <2>4, <2>6, <2>7 DEF RootGrows
        <3>2. QED
            BY <1>1, <2>3, <2>4, <2>7, <3>1 DEF RunFits
    <2>9. OneSetOfBytes'
        <3> SUFFICES ASSUME NEW v \in Versions
                     PROVE  (IF main.root[v] = NoManifest THEN Unpinned(v) ELSE Agree(v, main.root[v]))'
            BY DEF OneSetOfBytes
        <3>1. CASE main.root[v] # NoManifest
            <4>1. main'.root[v] = main.root[v]
                BY <2>6, <3>1 DEF RootGrows
            <4>2. Agree(v, main.root[v])
                BY <3>1 DEF IInv, OneSetOfBytes
            <4>3. QED
                BY <1>1, <2>3, <3>1, <4>1, <4>2 DEF Agree
        <3>2. CASE main.root[v] = NoManifest /\ main'.root[v] = NoManifest
            <4>1. Unpinned(v)
                BY <3>2 DEF IInv, OneSetOfBytes
            <4>2. QED
                BY <1>1, <3>2, <4>1 DEF Unpinned
        <3>3. CASE main.root[v] = NoManifest /\ main'.root[v] # NoManifest
            <4>1. Unpinned(v)
                BY <3>3 DEF IInv, OneSetOfBytes
            <4>2. v = 0 => main.first = NoManifest
                BY <3>3 DEF IInv, FirstStays
            <4>3. /\ \A t \in Versions : tags'[t][v] = NoManifest
                  /\ pages'[v] = NoFiles \/ pages'[v].manifest = NoManifest
                  /\ \/ v = 0 /\ main'.first = NoManifest
                     \/ pages'[v] = NoFiles /\ npm'[v] = NoPackage
                BY <1>1, <2>3, <4>1, <4>2 DEF Unpinned
            <4>4. QED
                BY <3>3, <4>3 DEF Agree
        <3>4. QED
            BY <3>1, <3>2, <3>3
    <2>10. QED
        BY <1>1, <2>3, <2>4, <2>5, <2>6, <2>8, <2>9 DEF RunStep, ShopGrows
<1>5. QED
    BY <1>3, <1>4

\* The tag gets the trust root of the commit it is put on, which holds nothing else than main.
LEMMA TagKeeps ==
    ASSUME IInv, NEW p \in Prs, Tag(p)
    PROVE  RunStep(p)
<1> DEFINE v == run[p].tree.ver
           fresh == v \notin Tagged
<1>1. /\ UNCHANGED <<main, pr, pages, served, npm, host, faults, derived>> /\ run[p].pc = "tag"
      /\ tags' = IF v \in Tagged THEN tags ELSE [tags EXCEPT ![v] = run[p].head]
      /\ run' = [run EXCEPT ![p].pc = "pages", ![p].newTag = fresh]
    BY DEF Tag
<1>2. /\ run \in [Prs -> RunSet] /\ run[p] \in RunSet /\ run[p].head \in Roots /\ v \in Versions
      /\ tags \in [Versions -> Roots] /\ Built(run[p].tree.code) # NoManifest
    BY TypeParts, RunTypes DEF IInv
<1>3. /\ \A w \in Versions : run[p].root[w] # NoManifest => main.root[w] = run[p].root[w]
      /\ run[p].payload[v] = Built(run[p].tree.code)
      /\ \A w \in Versions : run[p].payload[w] # NoManifest => w = v \/ npm[w] # NoPackage
      /\ \A w \in Versions : run[p].payload[w] # NoManifest => run[p].head[w] = run[p].payload[w]
      /\ \A w \in Versions : run[p].payload[w] # NoManifest => main.root[w] = run[p].payload[w]
    BY <1>1 DEF IInv, RunFits
<1>4. \A w \in Versions : run[p].head[w] \in {NoManifest, main.root[w]}
    BY <1>1, <1>3 DEF IInv, RunFits
<1>5. fresh \in BOOLEAN
    OBVIOUS
<1>6. /\ tags' \in [Versions -> Roots]
      /\ \A t, w \in Versions : tags'[t][w] = tags[t][w] \/ tags'[t][w] \in {NoManifest, main.root[w]}
    BY <1>1, <1>2, <1>4
<1> HIDE DEF v, fresh
<1>7. run' = [run EXCEPT ![p] = [run[p] EXCEPT !.pc = "pages", !.newTag = fresh]]
    BY <1>1, <1>2
<1>8. [run[p] EXCEPT !.pc = "pages", !.newTag = fresh] \in RunSet
    BY <1>2, <1>5 DEF RunSet, Pcs
<1>9. /\ run' \in [Prs -> RunSet] /\ \A q \in Prs \ {p} : run'[q] = run[q]
      /\ run'[p].pc = "pages" /\ run'[p].payload = run[p].payload
      /\ run'[p].tree = run[p].tree /\ run'[p].root = run[p].root
    BY <1>2, <1>7, <1>8 DEF RunSet
<1>10. TypeOK'
    BY <1>1, <1>6, <1>9, TypeParts, TypeNext DEF IInv
<1>11. RunFits(run'[p], main'.root, npm')
    BY <1>1, <1>3, <1>9 DEF RunFits, v
<1>12. OneSetOfBytes'
    <2> SUFFICES ASSUME NEW w \in Versions
                 PROVE  (IF main.root[w] = NoManifest THEN Unpinned(w) ELSE Agree(w, main.root[w]))'
        BY DEF OneSetOfBytes
    <2>1. IF main.root[w] = NoManifest THEN Unpinned(w) ELSE Agree(w, main.root[w])
        BY DEF IInv, OneSetOfBytes
    <2>2. CASE main.root[w] = NoManifest
        BY <1>1, <1>6, <2>1, <2>2 DEF Unpinned
    <2>3. CASE main.root[w] # NoManifest
        BY <1>1, <1>6, <2>1, <2>3 DEF Agree
    <2>4. QED
        BY <2>2, <2>3
<1>13. QED
    BY <1>1, <1>9, <1>10, <1>11, <1>12 DEF RunStep, RootGrows, ShopGrows
\* What reaches gh-pages is pinned: the built files and the manifests of the payload.
LEMMA PushPagesKeeps ==
    ASSUME IInv, NEW p \in Prs, PushPages(p)
    PROVE  RunStep(p)
<1> DEFINE v == run[p].tree.ver
           payload == run[p].payload
<1>1. /\ UNCHANGED <<main, pr, tags, served, npm, host, faults, derived>> /\ run[p].pc = "pages"
      /\ run' = Goto(p, "npm")
      /\ pages' = [w \in Versions |->
             IF w = v THEN [kind |-> "files", code |-> run[p].tree.code, manifest |-> payload[v]]
             ELSE IF payload[w] # NoManifest /\ pages[w].kind = "files"
                  THEN [pages[w] EXCEPT !.manifest = payload[w]]
             ELSE pages[w]]
    BY DEF PushPages
<1>2. /\ pages \in [Versions -> FileSet] /\ payload \in Roots /\ v \in Versions
      /\ run[p].tree.code \in SUBSET Prs /\ Built(run[p].tree.code) # NoManifest
    BY TypeParts, RunTypes DEF IInv
<1>3. /\ \A w \in Versions : run[p].root[w] # NoManifest => main.root[w] = run[p].root[w]
      /\ payload[v] = Built(run[p].tree.code)
      /\ \A w \in Versions : payload[w] # NoManifest => w = v \/ npm[w] # NoPackage
      /\ \A w \in Versions : payload[w] # NoManifest => main.root[w] = payload[w]
    BY <1>1 DEF IInv, RunFits
<1>4. /\ run' \in [Prs -> RunSet] /\ \A q \in Prs \ {p} : run'[q] = run[q]
      /\ run'[p].pc = "npm" /\ run'[p].payload = payload
      /\ run'[p].tree = run[p].tree /\ run'[p].root = run[p].root
    BY <1>1, GotoType DEF IInv, Pcs, Ended
<1>5. RunFits(run'[p], main'.root, npm')
    BY <1>1, <1>3, <1>4 DEF RunFits
<1> HIDE DEF payload, v
<1>6. ASSUME NEW w \in Versions
      PROVE  /\ pages'[w] \in FileSet
             /\ \/ pages'[w] = pages[w]
                \/ w = v /\ pages'[w].code = run[p].tree.code /\ pages'[w].manifest = payload[w]
                \/ /\ payload[w] # NoManifest /\ pages[w] # NoFiles
                   /\ pages'[w].code = pages[w].code /\ pages'[w].manifest = payload[w]
    <2>1. payload[w] \in Manifests /\ pages[w] \in FileSet
        BY <1>2 DEF Roots
    <2>2. CASE w = v
        <3>1. pages'[w] = [kind |-> "files", code |-> run[p].tree.code, manifest |-> payload[w]]
            BY <1>1, <2>2
        <3>2. QED
            BY <1>2, <2>1, <2>2, <3>1 DEF FileSet
    <2>3. CASE w # v /\ payload[w] # NoManifest /\ pages[w].kind = "files"
        <3>1. pages'[w] = [pages[w] EXCEPT !.manifest = payload[w]]
            BY <1>1, <2>3
        <3>2. pages[w] \in [kind : {"files"}, code : SUBSET Prs, manifest : Manifests] /\ pages[w] # NoFiles
            BY <2>1, <2>3 DEF FileSet, NoFiles
        <3>3. QED
            BY <2>1, <2>3, <3>1, <3>2 DEF FileSet
    <2>4. CASE w # v /\ ~(payload[w] # NoManifest /\ pages[w].kind = "files")
        <3>1. pages'[w] = pages[w]
            BY <1>1, <2>4
        <3>2. QED
            BY <2>1, <3>1
    <2>5. QED
        BY <2>2, <2>3, <2>4
<1>7. pages' \in [Versions -> FileSet]
    BY <1>1, <1>6
<1>8. TypeOK'
    BY <1>1, <1>4, <1>7, TypeParts, TypeNext DEF IInv
<1>9. OneSetOfBytes'
    <2> SUFFICES ASSUME NEW w \in Versions
                 PROVE  (IF main.root[w] = NoManifest THEN Unpinned(w) ELSE Agree(w, main.root[w]))'
        BY DEF OneSetOfBytes
    <2>1. IF main.root[w] = NoManifest THEN Unpinned(w) ELSE Agree(w, main.root[w])
        BY DEF IInv, OneSetOfBytes
    <2>2. CASE pages'[w] = pages[w]
        BY <1>1, <2>1, <2>2 DEF Unpinned, Agree
    <2>3. CASE w = v /\ pages'[w].code = run[p].tree.code /\ pages'[w].manifest = payload[w]
        <3>1. main.root[w] = payload[w] /\ main.root[w] # NoManifest /\ main.root[w].code = run[p].tree.code
            BY <1>2, <1>3, <2>3 DEF Built
        <3>2. QED
            BY <1>1, <2>1, <2>3, <3>1 DEF Agree
    <2>4. CASE /\ payload[w] # NoManifest /\ pages[w] # NoFiles
               /\ pages'[w].code = pages[w].code /\ pages'[w].manifest = payload[w]
        <3>1. main.root[w] = payload[w] /\ main.root[w] # NoManifest
            BY <1>3, <2>4
        <3>2. QED
            BY <1>1, <2>1, <2>4, <3>1 DEF Agree
    <2>5. QED
        BY <1>6, <2>2, <2>3, <2>4
<1>10. QED
    BY <1>1, <1>4, <1>5, <1>8, <1>9 DEF RunStep, RootGrows, ShopGrows

\* A version is published once, with the code that is pinned, and skipped only at parity.
LEMMA PublishKeeps ==
    ASSUME IInv, NEW p \in Prs, Publish(p)
    PROVE  RunStep(p)
<1> DEFINE t == run[p].tree
           publish == npm[t.ver] = NoPackage
<1>1. /\ UNCHANGED <<main, pr, tags, pages, served, host, faults, derived>> /\ run[p].pc = "npm"
      /\ npm' = IF publish THEN [npm EXCEPT ![t.ver] = Package(t.code, t.deps)] ELSE npm
      /\ run' = Goto(p, IF publish \/ SkipIsNoOp(p) THEN "deploy" ELSE "red")
    BY DEF Publish
<1>2. /\ npm \in [Versions -> Packages] /\ t.ver \in Versions
      /\ t.code \in SUBSET Prs /\ t.deps \in SUBSET Prs /\ Built(t.code) # NoManifest
    BY TypeParts, RunTypes DEF IInv
<1>3. /\ \A w \in Versions : run[p].root[w] # NoManifest => main.root[w] = run[p].root[w]
      /\ run[p].payload[t.ver] = Built(t.code)
      /\ \A w \in Versions : run[p].payload[w] # NoManifest => w = t.ver \/ npm[w] # NoPackage
      /\ \A w \in Versions : run[p].payload[w] # NoManifest => main.root[w] = run[p].payload[w]
    BY <1>1 DEF IInv, RunFits
<1>4. main.root[t.ver] = Built(t.code) /\ main.root[t.ver] # NoManifest /\ main.root[t.ver].code = t.code
    BY <1>2, <1>3 DEF Built
<1>5. Package(t.code, t.deps) \in Packages /\ Package(t.code, t.deps).code = t.code
    BY <1>2 DEF Package, Packages
<1>6. /\ npm' \in [Versions -> Packages]
      /\ \A w \in Versions : npm'[w] = npm[w] \/ (w = t.ver /\ publish /\ npm'[w] = Package(t.code, t.deps))
      /\ publish => npm'[t.ver] = Package(t.code, t.deps)
    BY <1>1, <1>2, <1>5
<1>7. SkipIsNoOp(p) /\ ~publish => npm'[t.ver] = Package(t.code, t.deps)
    <2> SUFFICES ASSUME SkipIsNoOp(p), ~publish
                 PROVE  npm[t.ver] = Package(t.code, t.deps)
        BY <1>1
    <2>1. npm[t.ver] \in [kind : {"published"}, code : SUBSET Prs, deps : SUBSET Prs]
        BY <1>2 DEF Packages
    <2>2. npm[t.ver].deps = t.deps /\ <<npm[t.ver].code, npm[t.ver].deps>> = <<t.code, t.deps>>
        BY <2>1 DEF SkipIsNoOp, ParityExit, DependencyDrift, PayloadDrift
    <2>3. npm[t.ver].code = t.code
        BY <2>2
    <2>4. QED
        BY <2>1, <2>2, <2>3 DEF Package
<1>8. PICK pc \in {"deploy", "red"} : /\ run' = Goto(p, pc)
                                      /\ pc = "deploy" => npm'[t.ver] = Package(t.code, t.deps)
    BY <1>1, <1>6, <1>7
<1>9. /\ run' \in [Prs -> RunSet] /\ \A q \in Prs \ {p} : run'[q] = run[q]
      /\ run'[p].pc = pc /\ run'[p].tree = run[p].tree /\ run'[p].root = run[p].root
      /\ pc = "deploy" => run'[p].payload = run[p].payload
    BY <1>8, GotoType DEF IInv, Pcs, Ended
<1> HIDE DEF publish
<1>10. RootGrows /\ ShopGrows
    BY <1>1, <1>6 DEF RootGrows, ShopGrows, publish
<1>11. RunFits(run'[p], main'.root, npm')
    <2>1. CASE pc = "red"
        BY <1>1, <1>3, <1>9, <2>1, FitsAtRest
    <2>2. CASE pc = "deploy"
        <3>1. \A w \in Versions : run[p].payload[w] # NoManifest => w = t.ver \/ npm'[w] # NoPackage
            BY <1>3, <1>10 DEF ShopGrows
        <3>2. QED
            BY <1>1, <1>3, <1>8, <1>9, <2>2, <3>1 DEF RunFits
    <2>3. QED
        BY <2>1, <2>2
<1>12. TypeOK'
    BY <1>1, <1>6, <1>9, TypeParts, TypeNext DEF IInv
<1>13. OneSetOfBytes'
    <2> SUFFICES ASSUME NEW w \in Versions
                 PROVE  (IF main.root[w] = NoManifest THEN Unpinned(w) ELSE Agree(w, main.root[w]))'
        BY DEF OneSetOfBytes
    <2>1. IF main.root[w] = NoManifest THEN Unpinned(w) ELSE Agree(w, main.root[w])
        BY DEF IInv, OneSetOfBytes
    <2>2. CASE npm'[w] = npm[w]
        BY <1>1, <2>1, <2>2 DEF Unpinned, Agree
    <2>3. CASE w = t.ver /\ npm'[w] = Package(t.code, t.deps)
        BY <1>1, <1>4, <1>5, <2>1, <2>3 DEF Agree
    <2>4. QED
        BY <1>6, <2>2, <2>3
<1>14. QED
    BY <1>1, <1>9, <1>10, <1>11, <1>12, <1>13 DEF RunStep

LEMMA DispatchKeeps ==
    ASSUME IInv, NEW p \in Prs, Dispatch(p)
    PROVE  RunStep(p)
<1>1. /\ UNCHANGED <<main, pr, tags, pages, served, npm, faults, derived>> /\ run[p].pc = "deploy"
      /\ host' = (IF NeedsDeploy(p) THEN [host EXCEPT !.queued = TRUE] ELSE host) /\ run' = Goto(p, "green")
    BY DEF Dispatch
<1>2. host' \in [pins : SUBSET Versions, queued : BOOLEAN]
    BY <1>1, TypeParts DEF IInv
<1>3. /\ run' \in [Prs -> RunSet] /\ \A q \in Prs \ {p} : run'[q] = run[q]
      /\ run'[p].pc = "green" /\ run'[p].tree = run[p].tree /\ run'[p].root = run[p].root
    BY <1>1, GotoType DEF IInv, Pcs, Ended
<1>4. TypeOK'
    BY <1>1, <1>2, <1>3, TypeParts, TypeNext DEF IInv
<1>5. RunFits(run'[p], main'.root, npm')
    <2>1. /\ \A w \in Versions : run[p].root[w] # NoManifest => main.root[w] = run[p].root[w]
          /\ npm[run[p].tree.ver] = Package(run[p].tree.code, run[p].tree.deps)
        BY <1>1 DEF IInv, RunFits
    <2>2. QED
        BY <1>1, <1>3, <2>1 DEF RunFits
<1>6. OneSetOfBytes'
    BY <1>1, BytesUnchanged DEF IInv
<1>7. QED
    BY <1>1, <1>3, <1>4, <1>5, <1>6 DEF RunStep, RootGrows, ShopGrows

LEMMA FailKeeps ==
    ASSUME IInv, NEW p \in Prs, Fail(p) \/ Rerun(p)
    PROVE  RunStep(p)
<1>1. faults \in 0..MaxFaults /\ derived \in 0..MaxDerived
    BY TypeParts DEF IInv
<1>2. faults' \in 0..MaxFaults /\ derived' \in 0..MaxDerived
    BY <1>1, ReleaseAssumption DEF Fail, Rerun
<1>3. QED
    BY <1>2, ToRestKeeps DEF Fail, Rerun

LEMMA DeploysKeep ==
    ASSUME IInv, (\E p \in Prs : DeployPages(p)) \/ HostDeploys
    PROVE  /\ IInv' /\ RootGrows
<1>1. UNCHANGED <<main, pr, run, tags, pages, npm, derived>>
    BY DEF DeployPages, HostDeploys
<1>2. served' \in [Versions -> FileSet]
    BY TypeParts DEF IInv, DeployPages, HostDeploys
<1>3. /\ host' \in [pins : SUBSET Versions, queued : BOOLEAN]
      /\ faults' \in 0..MaxFaults
    <2>1. host \in [pins : SUBSET Versions, queued : BOOLEAN] /\ faults \in 0..MaxFaults
        BY TypeParts DEF IInv
    <2>2. CASE \E p \in Prs : DeployPages(p)
        BY <2>1, <2>2 DEF DeployPages
    <2>3. CASE HostDeploys
        <3>1. [pins |-> PinnedByNewestTag, queued |-> FALSE] \in [pins : SUBSET Versions, queued : BOOLEAN]
            BY DEF PinnedByNewestTag, Pinned
        <3>2. [host EXCEPT !.queued = FALSE] \in [pins : SUBSET Versions, queued : BOOLEAN]
            BY <2>1
        <3>3. host' \in {[pins |-> PinnedByNewestTag, queued |-> FALSE],
                         [host EXCEPT !.queued = FALSE]}
            BY <2>3, Zenon DEF HostDeploys
        <3>4. faults' = faults \/ (faults < MaxFaults /\ faults' = faults + 1)
            BY <2>3, Zenon DEF HostDeploys
        <3>5. host' \in [pins : SUBSET Versions, queued : BOOLEAN]
            BY <3>1, <3>2, <3>3, Zenon
        <3>6. faults' \in 0..MaxFaults
            BY <2>1, <3>4, ReleaseAssumption
        <3>7. QED
            BY <3>5, <3>6
    <2>4. QED
        BY <2>2, <2>3
<1>4. TypeOK'
    BY <1>1, <1>2, <1>3, TypeParts, TypeNext DEF IInv
<1>5. OneSetOfBytes'
    BY <1>1, BytesUnchanged DEF IInv
<1>6. QED
    BY <1>1, <1>4, <1>5 DEF RootGrows, IInv, FirstStays

----------------------------------------------------------------------------
(* The theorems.                                                           *)

LEMMA StepIInv == IInv /\ [Next]_releaseVars => IInv' /\ (RootGrows \/ UNCHANGED releaseVars)
<1> SUFFICES ASSUME IInv, [Next]_releaseVars
             PROVE  IInv' /\ (RootGrows \/ UNCHANGED releaseVars)
    OBVIOUS
<1>1. CASE UNCHANGED releaseVars
    <2>1. TypeOK'
        BY <1>1, TypeParts, TypeNext DEF IInv, releaseVars
    <2>2. OneSetOfBytes'
        BY <1>1, BytesUnchanged DEF IInv, releaseVars
    <2>3. QED
        BY <1>1, <2>1, <2>2 DEF IInv, FirstStays, releaseVars
<1>2. ASSUME NEW p \in Prs, OpenPr(p) \/ CheckPr(p) \/ MergePr(p)
      PROVE  RunStep(p)
    BY <1>2, OpenPrKeeps, CheckPrKeeps, MergePrKeeps
<1>3. ASSUME NEW p \in Prs, Step(p) \/ Fail(p) \/ Rerun(p)
      PROVE  RunStep(p)
    BY <1>3, BuildTestKeeps, AssembleKeeps, SyncKeeps, RebaseKeeps, PushMainKeeps, TagKeeps, PushPagesKeeps,
       PublishKeeps, DispatchKeeps, FailKeeps DEF Step
<1>4. ASSUME NEW p \in Prs, RunStep(p)
      PROVE  IInv' /\ RootGrows
    BY <1>4, RunStepKeeps DEF RunStep
<1>5. QED
    BY <1>1, <1>2, <1>3, <1>4, DeploysKeep DEF Next

LEMMA Invariance == Spec => []IInv
BY InitIInv, StepIInv, PTL DEF Spec

\* Branch, requests, runs, tags, pages, registry and host keep their types.
THEOREM ReleaseTypeCorrect == Spec => []TypeOK
<1>1. IInv => TypeOK
    BY DEF IInv
<1>2. QED
    BY <1>1, Invariance, PTL

\* Tags, pages and npm hold what the trust root pins, whatever runs overlap, fail and are
\* run again.
THEOREM BytesCorrect == Spec => []OneSetOfBytes
<1>1. IInv => OneSetOfBytes
    BY DEF IInv
<1>2. QED
    BY <1>1, Invariance, PTL

\* A green run's tree is on npm.
THEOREM GreenCorrect == Spec => []GreenMeansShipped
<1>1. IInv => GreenMeansShipped
    BY DEF IInv, RunFits, GreenMeansShipped
<1>2. QED
    BY <1>1, Invariance, PTL

\* No step of any run moves or removes a pin.
THEOREM PinsCorrect == Spec => TrustRootFrozen
<1>1. IInv /\ [Next]_releaseVars => [\A v \in Pinned(main.root) : main'.root[v] = main.root[v]]_releaseVars
    BY StepIInv DEF RootGrows, Pinned
<1>2. QED
    BY <1>1, Invariance, PTL DEF Spec, TrustRootFrozen
=============================================================================
