-------------------------------- MODULE Files --------------------------------
(***************************************************************************)
(* The file view of a mount (fs.ts): how a path relative to the mount      *)
(* becomes an absolute one or is refused, where the app may write, what    *)
(* an operation answers when the file system is missing or fails, and the  *)
(* changes of the working tree that the view of the app's own mount hands  *)
(* on; which file an interpreted include reads (SafeInclude.tsx); and the  *)
(* documents a component inside a bundle is shown (bundle.ts).  A path is  *)
(* a sequence of segments; the file system is external.                    *)
(***************************************************************************)
EXTENDS Lists

CONSTANTS
    Names,           \* names of files and directories
    MaxSegments,     \* segments of a path
    MountRoots,      \* roots of mounts, sequences of segments
    Siblings,        \* directories beside them
    AppRoot,         \* getAppMountPath()
    ExploredRules    \* the rules mounts may have

\* The segment between two slashes.
NoName == ""

Segments == Names \union {NoName, ".", ".."}
PathsOf(segments, n) == {p \in [absolute : BOOLEAN, segs : BoundedSeq(segments, n)] :
                            ~p.absolute /\ Len(p.segs) > 1 => p.segs[1] # NoName}
RelPaths == PathsOf(Segments, MaxSegments)
IncludePaths == PathsOf(Segments \union ToSet(AppRoot), MaxSegments + 1)
RealPaths == BoundedSeq(Names, MaxSegments)
Modes == {"ro", "rw"}

\* A rule of a mount: its subtree, with or without a slash at the end ("/" is all slash).
MountRules == [segs : RealPaths, slash : BOOLEAN, mode : Modes]

\* Segments that name a file or a directory, or a step up.
Named == (Segments \union ToSet(AppRoot)) \ {NoName, "."}

DocumentPaths == UNION {{root \o <<n>> : n \in Names} : root \in MountRoots \union Siblings}

\* Names are no steps, and no mount is a document of another directory.
ASSUME FilesAssumption ==
    /\ MaxSegments \in Nat
    /\ ExploredRules \subseteq MountRules
    /\ Names \intersect {NoName, ".", ".."} = {}
    /\ \A root \in MountRoots \union Siblings : root \in Seq(ToSet(root) \ {NoName, ".", ".."})
    /\ AppRoot \in MountRoots
    /\ DocumentPaths \intersect MountRoots = {}

\* resolveUnder: mount-relative, without a step up, or "invalid-path".
Accepted(rel) == ~rel.absolute /\ ~Contains(rel.segs, "..")
ResolveUnder(root, rel) == root \o Kept(rel.segs, Named)

\* A rule that ends in a slash governs what is below its subtree, not the subtree itself.
Governs(rule, path) ==
    \/ rule.segs = <<>>
    \/ rule.segs = path /\ ~rule.slash
    \/ IsStrictPrefix(rule.segs, path)

\* r.subtree.length, up to its order on the prefixes of one path.
SubtreeLength(rule) == 2 * Len(rule.segs) + (IF rule.slash THEN 1 ELSE 0)

\* The first of the longest.
LongestOf(rules) ==
    LET longest == {k \in DOMAIN rules : \A j \in DOMAIN rules : SubtreeLength(rules[j]) <= SubtreeLength(rules[k])}
    IN  rules[CHOOSE k \in longest : \A j \in longest : k <= j]

\* writableAt, of a path that is not looked at for `..`.
WritableAt(mount, rel) ==
    LET path == Kept(rel.segs, Named)
        matching == Kept(mount.rules, {r \in ToSet(mount.rules) : Governs(r, path)})
    IN  IF matching # <<>> THEN LongestOf(matching).mode = "rw" ELSE mount.mode = "rw"

\* appMountRelative: without the root of the app and without slashes in front.
WithoutSlashes(segs) ==
    LET named == {k \in DOMAIN segs : segs[k] # NoName}
    IN  IF named = {} THEN <<>> ELSE SubSeq(segs, CHOOSE k \in named : \A j \in named : k <= j, Len(segs))
UnderAppRoot(p) == p.absolute /\ IsStrictPrefix(AppRoot, p.segs)
AppMountRelative(p) == [absolute |-> FALSE, segs |->
    WithoutSlashes(IF UnderAppRoot(p) THEN SubSeq(p.segs, Len(AppRoot) + 1, Len(p.segs)) ELSE p.segs)]

\* root.replace(/\/+$/, '')
WithoutTrailing(segs) ==
    LET named == {k \in DOMAIN segs : segs[k] # NoName}
    IN  IF named = {} THEN <<>> ELSE SubSeq(segs, 1, CHOOSE k \in named : \A j \in named : j <= k)

IsForeignMountPath(p) == p.absolute /\ ~UnderAppRoot(p) /\ p.segs # AppRoot

\* readInterpretedSource: a file of the app from its mount, any other from the namespace.
ReadInterpreted(p) ==
    LET rel == IF IsForeignMountPath(p) THEN [absolute |-> FALSE, segs |-> WithoutSlashes(p.segs)] ELSE AppMountRelative(p)
        root == IF IsForeignMountPath(p) THEN <<>> ELSE AppRoot
    IN  [ok |-> Accepted(rel), path |-> ResolveUnder(root, rel)]

\* What the file system does with a call, and mapError.
Errnos == {"ENOENT", "EROFS", "EACCES", "EPERM", "EEXIST", "ENOTEMPTY", "EIO"}
MapError == [ENOENT |-> "not-found", EROFS |-> "read-only", EACCES |-> "not-permitted", EPERM |-> "not-permitted",
             EEXIST |-> "exists", ENOTEMPTY |-> "not-empty", EIO |-> "unknown"]

\* readFile, readdir, stat, mkdir, rm, rename and writeFile: the port first, then the path.
OpResult(available, rel, outcome) ==
    IF ~available THEN "unavailable"
    ELSE IF ~Accepted(rel) THEN "invalid-path"
    ELSE IF outcome = "ok" THEN "ok" ELSE MapError[outcome]

\* exists: a failure that says nothing of the path is thrown, any other is a `no`.
ExistsResult(available, rel, outcome) ==
    LET stat == OpResult(available, rel, outcome)
    IN  IF stat \in {"unavailable", "invalid-path"} THEN stat ELSE IF stat = "ok" THEN "yes" ELSE "no"

----------------------------------------------------------------------------
(* The scope of a bundle: its root, <<>> for none and <<segs>> for a path,  *)
(* which may end in slashes.                                                *)

\* toBundlePath
ToBundlePath(path, root) ==
    IF root = <<>> \/ ~IsStrictPrefix(WithoutTrailing(root[1]), path) THEN <<>>
    ELSE <<SubSeq(path, Len(WithoutTrailing(root[1])) + 1, Len(path))>>

\* fromBundlePath
FromBundlePath(path, root) == IF root = <<>> THEN <<>> ELSE <<WithoutTrailing(root[1]) \o path>>

\* useBundleEntries: the documents under the root, in the order of their paths, which the set
\* leaves out; `stored` maps the paths of the store to the frontmatter.
BundleEntries(stored, root) ==
    {[path |-> ToBundlePath(p, root)[1], meta |-> stored[p]] : p \in {q \in DOMAIN stored : ToBundlePath(q, root) # <<>>}}

\* useBundleEntry
BundleEntry(stored, root, path) ==
    LET found == FromBundlePath(path, root)
    IN  IF found = <<>> \/ found[1] \notin DOMAIN stored THEN <<>> ELSE <<stored[found[1]]>>

\* useCurrentEntry
CurrentEntry(stored, root, entry) ==
    IF entry = <<>> \/ BundleEntry(stored, root, entry[1]) = <<>> THEN <<>>
    ELSE <<[path |-> entry[1], meta |-> BundleEntry(stored, root, entry[1])[1]]>>

----------------------------------------------------------------------------
VARIABLES
    bundleSeen,   \* the scope and what it shows: [stored, root, entry, entries, current]
    fileAsked,    \* [rel, mount, available, outcome] of the last call
    fileAnswer,   \* [path, result, exists, writable] of it
    included,     \* the path of the last interpreted include
    fsBatch,      \* onFsChange's value: the paths of the last batch
    watching,     \* the roots whose view has a subscriber
    toldPaths     \* of each, what it was last told

fileVars == <<bundleSeen, fileAsked, fileAnswer, included, fsBatch, watching, toldPaths>>

NoCall == [rel |-> [absolute |-> FALSE, segs |-> <<>>], mount |-> [rules |-> <<>>, mode |-> "rw"], available |-> TRUE, outcome |-> "ok"]

AnswerTo(call) == [
    path |-> ResolveUnder(AppRoot, call.rel),
    result |-> OpResult(call.available, call.rel, call.outcome),
    exists |-> ExistsResult(call.available, call.rel, call.outcome),
    writable |-> WritableAt(call.mount, call.rel)]

NoScope == [stored |-> <<>>, root |-> <<>>, entry |-> <<>>, entries |-> {}, current |-> <<>>]

FilesInit ==
    /\ bundleSeen = NoScope
    /\ fileAsked = NoCall /\ fileAnswer = AnswerTo(NoCall)
    /\ included = NoCall.rel
    /\ fsBatch = {} /\ watching = {} /\ toldPaths = [root \in MountRoots |-> {}]

\* A call of the view and of canWrite, for a mount with up to two rules.
CallFiles(rel, rules, mode) ==
    /\ fileAsked' = [NoCall EXCEPT !.rel = rel, !.mount = [rules |-> rules, mode |-> mode]]
    /\ fileAnswer' = AnswerTo(fileAsked')
    /\ UNCHANGED <<bundleSeen, included, fsBatch, watching, toldPaths>>

CallFails(rel, available, outcome) ==
    /\ fileAsked' = [NoCall EXCEPT !.rel = rel, !.available = available, !.outcome = outcome]
    /\ fileAnswer' = AnswerTo(fileAsked')
    /\ UNCHANGED <<bundleSeen, included, fsBatch, watching, toldPaths>>

\* <Include mode="interpreted"> of a path.
IncludeFile(p) ==
    /\ included' = p
    /\ UNCHANGED <<bundleSeen, fileAsked, fileAnswer, fsBatch, watching, toldPaths>>

\* A component is rendered in a bundle, with a store of documents.
ShowBundle(stored, root, entry) ==
    /\ bundleSeen' = [stored |-> stored, root |-> root, entry |-> entry,
                      entries |-> BundleEntries(stored, root), current |-> CurrentEntry(stored, root, entry)]
    /\ UNCHANGED <<fileAsked, fileAnswer, included, fsBatch, watching, toldPaths>>

\* Nothing else was asked in this behaviour: the calls and the watching share no state.
NoneAsked == bundleSeen = NoScope /\ fileAsked = NoCall /\ included = NoCall.rel

\* What a view hands on: the paths relative to the mount, nothing of an empty batch.
Handed(batch) == {[absolute |-> FALSE, segs |-> p] : p \in batch}

\* onChange: inert for a mount that is not the app's; the batch before is told again.
WatchFiles(root) ==
    /\ root \notin watching /\ NoneAsked
    /\ watching' = watching \union {root}
    /\ toldPaths' = [toldPaths EXCEPT ![root] = IF root = AppRoot THEN Handed(fsBatch) ELSE @]
    /\ UNCHANGED <<bundleSeen, fileAsked, fileAnswer, included, fsBatch>>

UnwatchFiles(root) ==
    /\ root \in watching /\ NoneAsked
    /\ watching' = watching \ {root}
    /\ UNCHANGED <<bundleSeen, fileAsked, fileAnswer, included, fsBatch, toldPaths>>

\* A batch of the working tree, its paths with a leading slash.
FilesChange(batch) ==
    /\ batch # fsBatch /\ NoneAsked
    /\ fsBatch' = batch
    /\ toldPaths' = [root \in MountRoots |->
         IF root = AppRoot /\ root \in watching /\ batch # {} THEN Handed(batch) ELSE toldPaths[root]]
    /\ UNCHANGED <<bundleSeen, fileAsked, fileAnswer, included, watching>>

\* The roots of the mounts as they may be written, and the root of the file system.
BundleRoots == {<<>>} \union
    UNION {{<<r \o slashes>> : slashes \in {<<>>, <<NoName>>, <<NoName, NoName>>}} : r \in MountRoots \union {<<>>}}
BundleNames == {<<>>} \union {<< <<n>> >> : n \in Names}

\* One call of a behaviour, before anything is watched.
NothingYet == NoneAsked /\ watching = {} /\ fsBatch = {} /\ toldPaths[AppRoot] = {}

FilesNext ==
    \/ NothingYet /\ \E rel \in {r \in RelPaths : ~r.absolute}, mode \in Modes, rules \in BoundedSeq(ExploredRules, 2) : CallFiles(rel, rules, mode)
    \/ NothingYet /\ \E rel \in RelPaths, available \in BOOLEAN, outcome \in Errnos \union {"ok"} : CallFails(rel, available, outcome)
    \/ NothingYet /\ \E p \in IncludePaths : IncludeFile(p)
    \/ NothingYet /\ \E paths \in SUBSET DocumentPaths, root \in BundleRoots, entry \in BundleNames :
         ShowBundle([p \in paths |-> p], root, entry)
    \/ \E root \in MountRoots : WatchFiles(root) \/ UnwatchFiles(root)
    \/ \E batch \in SUBSET {<<n>> : n \in Names} : FilesChange(batch)

----------------------------------------------------------------------------
\* What an accepted path names lies in the mount, step by step real names.
StaysInMount ==
    fileAnswer.result \notin {"unavailable", "invalid-path"} =>
        /\ IsPrefix(AppRoot, fileAnswer.path)
        /\ \A k \in DOMAIN fileAnswer.path : fileAnswer.path[k] \in Names \union ToSet(AppRoot)

\* Where canWrite says yes and no, it is what the most specific scope around the file says.
WriteRuleIsDeepest ==
    LET path == Kept(fileAsked.rel.segs, Named)
        around == {r \in ToSet(fileAsked.mount.rules) : r.segs = <<>> \/ (IsPrefix(r.segs, path) /\ (r.slash => r.segs # path))}
        deepest == {r \in around : \A q \in around : Len(q.segs) <= Len(r.segs)}
    IN  /\ around = {} => (fileAnswer.writable <=> fileAsked.mount.mode = "rw")
        /\ around # {} => \E r \in deepest : fileAnswer.writable <=> r.mode = "rw"

\* A change that is told names, fed back into the view, the file that changed; a mount other
\* than the app's is never told of the app's files.
ChangeReadsBack ==
    \A root \in MountRoots :
        /\ root # AppRoot => toldPaths[root] = {}
        /\ root \in watching /\ root = AppRoot /\ fsBatch # {} =>
             {ResolveUnder(root, rel) : rel \in toldPaths[root]} = {AppRoot \o p : p \in fsBatch}

\* An interpreted include reads the file its path names, in the app or in any other mount,
\* or none if the path steps up; the root of the app itself is no file.
IncludeReadsNamed ==
    LET read == ReadInterpreted(included)
        names == Kept(included.segs, Named)
        meant == IF included.absolute THEN names ELSE AppRoot \o names
    IN  /\ read.ok <=> ~Contains(included.segs, "..")
        /\ read.ok /\ meant # AppRoot => read.path = meant

\* The path a component in a bundle is given of a document leads it to that document again,
\* says nothing of where the bundle is mounted - the same documents under another root have
\* the same paths - and what lies beside the bundle is not in it.
BundleLeadsBack ==
    LET seen == bundleSeen
        root == WithoutTrailing(seen.root[1])
        moved == [p \in {<<"elsewhere">> \o SubSeq(q, Len(root) + 1, Len(q)) : q \in {d \in DOMAIN seen.stored : IsPrefix(root, d)}} |->
                     root \o Tail(p)]
    IN  /\ seen.root = <<>> => seen.entries = {} /\ seen.current = <<>>
        /\ seen.root # <<>> =>
             /\ \A e \in seen.entries : BundleEntry(seen.stored, seen.root, e.path) = <<e.meta>>
             /\ {e.meta : e \in seen.entries} = {p \in DOMAIN seen.stored : IsPrefix(root, p)}
             /\ BundleEntries(moved, << <<"elsewhere">> >>) = seen.entries
             /\ ToSet(seen.current) = {e \in seen.entries : <<e.path>> = seen.entry}

\* fs.ts:184 resolveUnder, fs.ts:203 writableAt, fs.ts:411 onChange, SafeInclude.tsx:54 readInterpretedSource,
\* bundle.ts:68 toBundlePath.
FilesAgree == StaysInMount /\ WriteRuleIsDeepest /\ ChangeReadsBack /\ IncludeReadsNamed /\ BundleLeadsBack
=============================================================================
