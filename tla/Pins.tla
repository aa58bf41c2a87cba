-------------------------------- MODULE Pins --------------------------------
(***************************************************************************)
(* The gates on what a branch pins (check-dependency-pins.mjs and          *)
(* check-lock-version.mjs, as CI runs them): package.json and the lockfile *)
(* agree, and every pinned version of a sibling package is published.      *)
(*                                                                         *)
(* A branch is edited in any order, the siblings publish meanwhile, and    *)
(* npm may not answer.  The text of a range is not looked at by the code,  *)
(* so a range has none here.  In CI nothing is linked.                     *)
(***************************************************************************)
EXTENDS Naturals

CONSTANTS
    PinNames,     \* the scoped packages
    PinFields,    \* dependencies, devDependencies, peerDependencies
    PinVersions   \* versions, of the package itself as well

NotLocked == 0
ASSUME PinsAssumption == NotLocked \notin PinVersions

Exactly(v) == [kind |-> "exact", version |-> v]
NoPin == [kind |-> "none", version |-> NotLocked]
PinSpecs == {Exactly(v) : v \in PinVersions} \cup {[NoPin EXCEPT !.kind = k] : k \in {"none", "range", "file"}}

VARIABLES
    pkg,         \* package.json: its version, what each field says of each name
    lock,        \* package-lock.json: its two versions of the package, each name's entry
    npmHas,      \* the published versions of each name
    pinsPassed   \* CI has passed on the branch as it is

pinVars == <<pkg, lock, npmHas, pinsPassed>>

\* collectPins, without those that are no published pin.
Pinned == {p \in PinNames \X PinFields : pkg.pins[p].kind \in {"exact", "range"}}

\* What npm says of a name: its versions, that there is none, or nothing that can be read.
PinReplies(n) ==
    {[kind |-> "undetermined", versions |-> {}]}
    \cup {[kind |-> IF npmHas[n] = {} THEN "not-found" ELSE "listed", versions |-> npmHas[n]]}

\* Mutant of Published: what cannot be told is fine.
PublishedOrUnknown(reply, want) == reply.kind = "undetermined" \/ want \in reply.versions

\* A reply that cannot be read is not a pass.
Published(reply, want) == reply.kind = "listed" /\ want \in reply.versions

\* checkPins: no error for one pin.
PinHolds(p, reply) ==
    LET said == pkg.pins[p]
        locked == lock.entries[p[1]]
    IN  /\ locked # NotLocked
        /\ said.kind = "exact" => locked = said.version
        /\ Published(reply, IF said.kind = "exact" THEN said.version ELSE locked)

\* checkLockVersion: both of the lockfile's own fields.
LockIsInSync == lock.root = pkg.version /\ lock.self = pkg.version

----------------------------------------------------------------------------
EditPackage ==
    /\ \/ \E v \in PinVersions : pkg' = [pkg EXCEPT !.version = v]
       \/ \E p \in PinNames \X PinFields, s \in PinSpecs : pkg' = [pkg EXCEPT !.pins[p] = s]
    /\ pinsPassed' = FALSE
    /\ UNCHANGED <<lock, npmHas>>

\* By hand, by a merge, or by `npm install`.
EditLock ==
    /\ \/ \E v \in PinVersions : lock' = [lock EXCEPT !.root = v]
       \/ \E v \in PinVersions : lock' = [lock EXCEPT !.self = v]
       \/ \E n \in PinNames, v \in PinVersions \cup {NotLocked} : lock' = [lock EXCEPT !.entries[n] = v]
    /\ pinsPassed' = FALSE
    /\ UNCHANGED <<pkg, npmHas>>

PublishSibling(n, v) ==
    /\ npmHas' = [npmHas EXCEPT ![n] = @ \cup {v}]
    /\ UNCHANGED <<pkg, lock, pinsPassed>>

\* CI asks npm once for each name.
CheckPins ==
    /\ \E reply \in [PinNames -> UNION {PinReplies(n) : n \in PinNames}] :
         /\ \A n \in PinNames : reply[n] \in PinReplies(n)
         /\ pinsPassed' = (LockIsInSync /\ \A p \in Pinned : PinHolds(p, reply[p[1]]))
    /\ UNCHANGED <<pkg, lock, npmHas>>

PinsInit ==
    /\ \E v \in PinVersions :
         /\ pkg = [version |-> v, pins |-> [p \in PinNames \X PinFields |-> NoPin]]
         /\ lock = [root |-> v, self |-> v, entries |-> [n \in PinNames |-> NotLocked]]
    /\ npmHas = [n \in PinNames |-> {}]
    /\ pinsPassed = FALSE

PinsNext ==
    \/ EditPackage \/ EditLock \/ CheckPins
    \/ \E n \in PinNames, v \in PinVersions : PublishSibling(n, v)

----------------------------------------------------------------------------
\* A branch that passed installs, and goes on to however long it waits for its merge: `npm ci`
\* finds an entry for every pin that satisfies an exact one, and npm has that version
\* (check-dependency-pins.mjs:2); the lockfile is of the package's own version.
PassMeansInstalls ==
    pinsPassed =>
        /\ \A p \in Pinned : lock.entries[p[1]] \in npmHas[p[1]]
        /\ \A n \in PinNames, f, g \in PinFields :
             pkg.pins[<<n, f>>].kind = "exact" /\ pkg.pins[<<n, g>>].kind = "exact" => pkg.pins[<<n, f>>] = pkg.pins[<<n, g>>]
        /\ \A p \in Pinned : pkg.pins[p].kind = "exact" => pkg.pins[p].version = lock.entries[p[1]]
        /\ {lock.root, lock.self} = {pkg.version}
=============================================================================
