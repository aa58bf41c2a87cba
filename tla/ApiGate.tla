------------------------------ MODULE ApiGate ------------------------------
(***************************************************************************)
(* The gate on the public surface (check-api-stability.mjs): what a branch *)
(* exports is compared with the snapshot it carries; a loss needs an entry *)
(* in the ledger of removals, an addition needs a new snapshot.  A surface *)
(* is a shape for every export.  The model follows main through a sequence *)
(* of branches, each free to change the sources, write ledger entries and  *)
(* run the update in any order before it is merged.                        *)
(***************************************************************************)
EXTENDS Naturals, FiniteSets

CONSTANTS
    Exports,         \* names the modules may export
    ReleaseExport,   \* the one whose value changes at every release (SDK_VERSION)
    Shapes,          \* the shapes an export may get
    MaxEntries       \* bound: entries of the ledger

(***************************************************************************)
(* The one-line shapes.  An item is a member with its `?` and its arity, a *)
(* member of a union, or a property of a callable.                         *)
(***************************************************************************)
Listed(kind, items) == [kind |-> kind, items |-> items, required |-> 0, total |-> 0, text |-> "items"]
Callable(required, total, items) ==
    [kind |-> "fn", items |-> items, required |-> required, total |-> total, text |-> "items"]
FreeText(kind, text) == [kind |-> kind, items |-> {}, required |-> 0, total |-> 0, text |-> text]
Absent == FreeText("absent", "none")

\* A callable has a signature and a list; a constant's shape is its value.
ASSUME ShapeAssumption == \A shape \in Shapes :
    /\ shape.kind = "fn" => shape.text = "items" /\ shape.required \in Nat /\ shape.total \in Nat
    /\ shape.kind = "const" => shape.text # "items"

VARIABLES
    main,      \* what is merged: [surface, snapshot, ledger]
    branch,    \* the working copy of the branch in hand
    offered    \* history: per export, every use a merged surface offered

apiVars == <<main, branch, offered>>

----------------------------------------------------------------------------
(* The comparison *)

\* One thing lost, as the report and the ledger name it: a kind, a text, an item or a count.
Detail(what, was, now) == [what |-> what, was |-> was, now |-> now]
Said(kind, text, count) == [kind |-> kind, text |-> text, count |-> count]
Gone == Said("", "", 0)
Lost(what, items) == {Detail(what, Said("", i, 0), Gone) : i \in items}
If(condition, detail) == IF condition THEN {detail} ELSE {}

\* Mutant of FnLosses: one that asks for more arguments than before is no loss.
FnLossesOfTotal(was, now) ==
    If(now.total < was.total, Detail("accepts", Said("", "", was.total), Said("", "", now.total)))
    \cup Lost("property", was.items \ now.items)

\* A callable that requires more, accepts fewer or has lost a property.
FnLosses(was, now) ==
    If(now.required > was.required, Detail("requires", Said("", "", was.required), Said("", "", now.required)))
    \cup If(now.total < was.total, Detail("accepts", Said("", "", was.total), Said("", "", now.total)))
    \cup Lost("property", was.items \ now.items)

\* What of `was` a consumer loses: a change of kind or of a free text is a loss as a whole.
Breaking(was, now) ==
    IF was = now THEN {}
    ELSE IF was.kind # now.kind THEN {Detail("kind", Said(was.kind, "", 0), Said(now.kind, "", 0))}
    ELSE IF was.kind = "fn" THEN FnLosses(was, now)
    ELSE IF was.text = "items" /\ now.text = "items"
         THEN Lost(IF was.kind = "union" THEN "union member" ELSE "member", was.items \ now.items)
    ELSE {Detail("type", Said("", was.text, 0), Said("", now.text, 0))}

\* What it gains, which a callable that loses something is not asked.
Grows(was, now) ==
    IF was = Absent THEN now # Absent
    ELSE /\ was # now /\ was.kind = now.kind
         /\ IF was.kind = "fn" THEN FnLosses(was, now) = {}
            ELSE was.text = "items" /\ now.text = "items" /\ now.items \ was.items # {}

\* The release constant's value is exempt, its existence and its kind are not.
ReleaseNoise(e, was, now) == e = ReleaseExport /\ was.kind = "const" /\ now.kind = "const"

\* diffSurfaces: the losses of every export the snapshot has, and the exports that gain.
Findings(snapshot, surface) ==
    {[export |-> e, detail |-> Detail("itself", Gone, Gone)] : e \in {x \in Exports : snapshot[x] # Absent /\ surface[x] = Absent}}
    \cup UNION {{[export |-> e, detail |-> d] : d \in Breaking(snapshot[e], surface[e])} :
               e \in {x \in Exports : Absent \notin {snapshot[x], surface[x]} /\ ~ReleaseNoise(x, snapshot[x], surface[x])}}
Additive(snapshot, surface) == {e \in Exports : surface[e] # Absent /\ Grows(snapshot[e], surface[e])}

Undocumented(copy) == Findings(copy.snapshot, copy.surface) \ copy.ledger

----------------------------------------------------------------------------
(* A branch *)

Edit(e, shape) ==
    /\ branch.surface[e] # shape
    /\ branch' = [branch EXCEPT !.surface[e] = shape]
    /\ UNCHANGED <<main, offered>>

\* An entry of the ledger, as the report of the failed check or update prints it.
Document ==
    /\ Cardinality(branch.ledger) < MaxEntries
    /\ \E f \in Undocumented(branch) : branch' = [branch EXCEPT !.ledger = @ \cup {f}]
    /\ UNCHANGED <<main, offered>>

\* Mutant of Update: it writes whatever there is.
UpdateAnyway ==
    /\ branch' = [branch EXCEPT !.snapshot = branch.surface]
    /\ UNCHANGED <<main, offered>>

\* --update: refuses while the new snapshot would drop something undocumented.
Update ==
    /\ Undocumented(branch) = {}
    /\ branch' = [branch EXCEPT !.snapshot = branch.surface]
    /\ UNCHANGED <<main, offered>>

\* The check of a branch passes if there is nothing to document and nothing to record.
Passes(copy) == Findings(copy.snapshot, copy.surface) = {} /\ Additive(copy.snapshot, copy.surface) = {}

(***************************************************************************)
(* What a consumer can do with a shape: use an item, call with so many     *)
(* arguments, rely on the kind or on the exact text.                       *)
(***************************************************************************)
Use(how, what, count) == [how |-> how, what |-> what, count |-> count]
Uses(shape) ==
    IF shape = Absent THEN {}
    ELSE {Use("kind", shape.kind, 0)}
         \cup (IF shape.text = "items" THEN {Use("item", i, 0) : i \in shape.items} ELSE {Use("text", shape.text, 0)})
         \cup (IF shape.kind = "fn" THEN {Use("call", "", n) : n \in shape.required..shape.total} ELSE {})

Merge ==
    /\ branch # main
    /\ Passes(branch)
    /\ main' = branch
    /\ offered' = [e \in Exports |-> offered[e] \cup Uses(branch.surface[e])]
    /\ UNCHANGED branch

Abandon ==
    /\ branch # main
    /\ branch' = main
    /\ UNCHANGED <<main, offered>>

ApiInit ==
    /\ \E surface \in [Exports -> Shapes] : main = [surface |-> surface, snapshot |-> surface, ledger |-> {}]
    /\ branch = main
    /\ offered = [e \in Exports |-> Uses(main.surface[e])]

ApiNext ==
    \/ \E e \in Exports, shape \in Shapes : Edit(e, shape)
    \/ Document \/ Update \/ Merge \/ Abandon

----------------------------------------------------------------------------
(* Properties *)

\* An entry of the ledger accounts for a use.
Accounts(detail, use) ==
    \/ detail.what \in {"itself", "kind", "type"}
    \/ detail.what \in {"requires", "accepts"} /\ use.how = "call"
    \/ detail.what \in {"property", "member", "union member"} /\ use.how = "item" /\ use.what = detail.was.text

\* Whatever any merged surface offered, and the present one does not, is written down in the
\* ledger: no sequence of edits, updates and merges loses a use unseen (the gate's purpose,
\* check-api-stability.mjs:11).  The value of the release constant is exempt.
NoSilentLoss == \A e \in Exports : \A use \in offered[e] \ Uses(main.surface[e]) :
    \/ e = ReleaseExport /\ use.how = "text"
    \/ \E entry \in main.ledger : entry.export = e /\ Accounts(entry.detail, use)
=============================================================================
