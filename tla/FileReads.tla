----------------------------- MODULE FileReads -----------------------------
(***************************************************************************)
(* Reads of an app that answer late: createSourceCache (sourceCache.ts),   *)
(* which keeps one promise per path, and useObjectUrl (hooks.ts), which    *)
(* turns a file into a URL it has to give back.  A read settles whenever   *)
(* it likes, in any order, well or badly.                                  *)
(***************************************************************************)
EXTENDS Naturals, Sequences, FiniteSets

CONSTANTS
    Paths,      \* paths read through the cache
    MaxReads,   \* bound: reads the cache starts
    Pictures,   \* what a component shows: mount path, relative path and type
    NoPicture,  \* no mount or no path
    MaxLoads    \* bound: effects of the component

ASSUME NoPictureAssumption == NoPicture \notin Pictures

VARIABLES
    reads,        \* the promises the cache made: [path, epoch, outcome]
    sources,      \* `cache`: per path the number of its promise, or 0
    epochs,       \* history: how often a path was invalidated
    shown,        \* the picture the component renders, or "unmounted"
    effectDue,    \* it has rendered and its effect has to run
    loads,        \* one per effect that read: [picture, alive, url]
    effect,       \* the load of the last effect, or 0
    urlState      \* what useState holds: [url: number of a load or 0, loading, error]

cacheVars == <<reads, sources, epochs>>
urlVars == <<shown, effectDue, loads, effect, urlState>>

Idle == [url |-> 0, loading |-> FALSE, error |-> FALSE]
Loading == [Idle EXCEPT !.loading = TRUE]

SourcesInit ==
    /\ reads = <<>>
    /\ sources = [p \in Paths |-> 0]
    /\ epochs = [p \in Paths |-> 0]

PicturesInit ==
    /\ shown \in Pictures \union {NoPicture}
    /\ effectDue = TRUE
    /\ loads = <<>>
    /\ effect = 0
    /\ urlState = IF shown = NoPicture THEN Idle ELSE Loading

----------------------------------------------------------------------------
(* createSourceCache *)

\* read(path) with nothing memoised; a hit only returns what there is.
ReadSource(p) ==
    /\ sources[p] = 0
    /\ Len(reads) < MaxReads
    /\ reads' = Append(reads, [path |-> p, epoch |-> epochs[p], outcome |-> "pending"])
    /\ sources' = [sources EXCEPT ![p] = Len(reads) + 1]
    /\ UNCHANGED epochs

\* Mutant of WithoutFailed: whatever the path holds is dropped.
WithoutPath(r) == [sources EXCEPT ![reads[r].path] = 0]

\* The failed read is forgotten, if it is still the one of its path.
WithoutFailed(r) == [sources EXCEPT ![reads[r].path] = IF @ = r THEN 0 ELSE @]

SettleSource(r) ==
    /\ reads[r].outcome = "pending"
    /\ \/ reads' = [reads EXCEPT ![r].outcome = "text"] /\ UNCHANGED sources
       \/ reads' = [reads EXCEPT ![r].outcome = "failed"] /\ sources' = WithoutFailed(r)
    /\ UNCHANGED epochs

\* invalidate(path), or of all of them.
InvalidateSources(paths) ==
    /\ \E p \in paths : sources[p] # 0
    /\ sources' = [p \in Paths |-> IF p \in paths THEN 0 ELSE sources[p]]
    /\ epochs' = [p \in Paths |-> IF p \in paths THEN epochs[p] + 1 ELSE epochs[p]]
    /\ UNCHANGED reads

----------------------------------------------------------------------------
(* useObjectUrl *)

\* The component is rendered with other props; until its effect has run it shows what it has.
ShowPicture(f) ==
    /\ shown \notin {f, "unmounted"} /\ ~effectDue
    /\ shown' = f
    /\ effectDue' = TRUE
    /\ UNCHANGED <<loads, effect, urlState>>

\* The cleanup of the last effect: not alive any more, and its URL given back.
CleanedUp ==
    IF effect = 0 THEN loads
    ELSE [loads EXCEPT ![effect].alive = FALSE, ![effect].url = IF @ = "made" THEN "revoked" ELSE @]

RunPictureEffect ==
    /\ effectDue
    /\ effectDue' = FALSE
    /\ IF shown = NoPicture
       THEN loads' = CleanedUp /\ effect' = 0 /\ urlState' = Idle
       ELSE /\ Len(loads) < MaxLoads
            /\ loads' = Append(CleanedUp, [picture |-> shown, alive |-> TRUE, url |-> "reading"])
            /\ effect' = Len(loads) + 1
            /\ urlState' = Loading
    /\ UNCHANGED shown

\* Mutant of PictureRead: the URL of a read that lost the race is dropped as it is.
PictureReadAlways(i) ==
    /\ loads' = [loads EXCEPT ![i].url = "made"]
    /\ urlState' = IF loads[i].alive THEN [Idle EXCEPT !.url = i] ELSE urlState

\* The bytes are there and their URL is made.
PictureRead(i) ==
    /\ loads' = [loads EXCEPT ![i].url = IF loads[i].alive THEN "made" ELSE "revoked"]
    /\ urlState' = IF loads[i].alive THEN [Idle EXCEPT !.url = i] ELSE urlState

PictureFailed(i) ==
    /\ loads' = [loads EXCEPT ![i].url = "none"]
    /\ urlState' = IF loads[i].alive THEN [Idle EXCEPT !.error = TRUE] ELSE urlState

SettlePicture(i) ==
    /\ loads[i].url = "reading"
    /\ PictureRead(i) \/ PictureFailed(i)
    /\ UNCHANGED <<shown, effectDue, effect>>

UnmountPicture ==
    /\ shown # "unmounted"
    /\ shown' = "unmounted"
    /\ effectDue' = FALSE
    /\ loads' = CleanedUp
    /\ effect' = 0
    /\ UNCHANGED urlState

SourcesNext ==
    \/ \E p \in Paths : ReadSource(p) \/ InvalidateSources({p})
    \/ InvalidateSources(Paths)
    \/ \E r \in DOMAIN reads : SettleSource(r)

PicturesNext ==
    \/ \E f \in Pictures \union {NoPicture} : ShowPicture(f)
    \/ RunPictureEffect
    \/ \E i \in DOMAIN loads : SettlePicture(i)
    \/ UnmountPicture

----------------------------------------------------------------------------
\* A path is read once until it is invalidated or its read fails: no failure stays in the
\* cache, and a read that fails late does not evict the newer one (sourceCache.ts:38).
ReadOnce ==
    /\ \A p \in Paths : sources[p] # 0 => reads[sources[p]].outcome # "failed"
    /\ \A r, s \in DOMAIN reads :
         r < s /\ reads[r].path = reads[s].path /\ reads[r].epoch = reads[s].epoch => reads[r].outcome = "failed"

\* Every URL that was made is given back, but for the one the component shows; and that one
\* is of the picture its props name, as soon as their effect has run (hooks.ts:155).
UrlsReleased ==
    /\ \A i \in DOMAIN loads : loads[i].url = "made" => i = effect /\ urlState.url = i
    /\ shown # "unmounted" /\ ~effectDue =>
         /\ urlState.url # 0 => loads[urlState.url].url = "made" /\ loads[urlState.url].picture = shown
         /\ urlState.loading <=> (effect # 0 /\ loads[effect].url = "reading")

\* Both: a read that answers late neither leaves anything behind nor takes anything away.
ReadsSettle == ReadOnce /\ UrlsReleased
=============================================================================
