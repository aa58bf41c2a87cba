--------------------------- MODULE Gates_proofs ---------------------------
(***************************************************************************)
(* What each gate lets pass is what it says it does, for any exports, any  *)
(* calls, any two sides of a method, any pins and any history of edits.    *)
(*                                                                         *)
(* The public surface: the snapshot carries the argument.  A use that was  *)
(* ever offered is in the uses of the snapshot or accounted for in the     *)
(* ledger beside it, and a check that passes says that the surface offers  *)
(* what the snapshot does, no less and no more.                            *)
(* The wire: a description ends with the revision of its field or with a   *)
(* name (ShapeEnds), and a call that is alone is told by the snapshot      *)
(* (AloneIsHeld), which says nothing no call said (SnapshotIsSaid).        *)
(* The lockstep: the walk of the results goes as far as the host speaks    *)
(* (PathReached).                                                          *)
(* The pins: a pass is of the files as they are, and npm forgets nothing.  *)
(* The walk: what an activation holds is what the edges it followed bring  *)
(* (FollowBrings), a file that is called is never one that waits           *)
(* (StackRanks), and a file is right when the files it leads to are        *)
(* (OneEdgeRight).                                                         *)
(***************************************************************************)
EXTENDS Gates, SequenceTheorems, FiniteSetTheorems, WellFoundedInduction, TLAPS

Surfaces == [Exports -> Shapes \cup {Absent}]
Entries == UNION {Findings(snapshot, surface) : snapshot \in Surfaces, surface \in Surfaces}
Copies == [surface : Surfaces, snapshot : Surfaces, ledger : SUBSET Entries]

\* The release constant's value may change.
Exempt(e, use) == e = ReleaseExport /\ use.how = "text"

Accounted(ledger, e, use) == \E entry \in ledger : entry.export = e /\ Accounts(entry.detail, use)

\* A copy's snapshot and its ledger know of every use that was offered.
KnowsAll(copy) == \A e \in Exports : \A use \in offered[e] \ Uses(copy.snapshot[e]) :
    Exempt(e, use) \/ Accounted(copy.ledger, e, use)

LossInv ==
    /\ main \in Copies /\ branch \in Copies /\ DOMAIN offered = Exports
    /\ KnowsAll(main) /\ KnowsAll(branch)
    /\ NoSilentLoss

LEMMA Shaped ==
    ASSUME NEW shape \in Shapes \cup {Absent}
    PROVE  /\ shape.kind = "fn" => shape.text = "items" /\ shape.required \in Nat /\ shape.total \in Nat
           /\ shape.kind = "const" => shape.text # "items"
BY ShapeAssumption DEF Absent, FreeText

LEMMA UseFacts ==
    ASSUME NEW shape, NEW use \in Uses(shape)
    PROVE  /\ shape # Absent
           /\ \/ use = Use("kind", shape.kind, 0)
              \/ shape.text = "items" /\ \E i \in shape.items : use = Use("item", i, 0)
              \/ shape.text # "items" /\ use = Use("text", shape.text, 0)
              \/ shape.kind = "fn" /\ \E n \in shape.required..shape.total : use = Use("call", "", n)
BY DEF Uses

LEMMA UsesHave ==
    ASSUME NEW shape, shape # Absent
    PROVE  /\ Use("kind", shape.kind, 0) \in Uses(shape)
           /\ shape.text = "items" => \A i \in shape.items : Use("item", i, 0) \in Uses(shape)
           /\ shape.text # "items" => Use("text", shape.text, 0) \in Uses(shape)
           /\ shape.kind = "fn" => \A n \in shape.required..shape.total : Use("call", "", n) \in Uses(shape)
BY DEF Uses

LEMMA UseFields ==
    ASSUME NEW how, NEW what, NEW count
    PROVE  Use(how, what, count).how = how /\ Use(how, what, count).what = what
BY DEF Use

LEMMA LostHas ==
    ASSUME NEW items, NEW i \in items, NEW what
    PROVE  \E d \in Lost(what, items) : d.what = what /\ d.was.text = i
<1>1. Detail(what, Said("", i, 0), Gone) \in Lost(what, items)
    BY DEF Lost
<1>2. QED
    BY <1>1 DEF Detail, Said

\* The value of a constant is all a change of it can lose or gain.
LEMMA ConstUses ==
    ASSUME NEW was \in Shapes \cup {Absent}, NEW now \in Shapes \cup {Absent}, now # Absent,
           was.kind = "const", now.kind = "const", NEW use \in Uses(was) \ Uses(now)
    PROVE  use.how = "text"
<1>1. was.text # "items"
    BY Shaped
<1>2. use # Use("kind", was.kind, 0)
    BY UsesHave
<1>3. use = Use("text", was.text, 0)
    BY <1>1, <1>2, UseFacts
<1>4. QED
    BY <1>3, UseFields

LEMMA AccountsWhole ==
    ASSUME NEW what \in {"itself", "kind", "type"}, NEW was, NEW now, NEW use
    PROVE  Accounts(Detail(what, was, now), use)
<1>1. Detail(what, was, now).what = what
    BY DEF Detail
<1>2. QED
    BY <1>1 DEF Accounts

LEMMA AccountsCall ==
    ASSUME NEW what \in {"requires", "accepts"}, NEW was, NEW now, NEW use, use.how = "call"
    PROVE  Accounts(Detail(what, was, now), use)
<1>1. Detail(what, was, now).what = what
    BY DEF Detail
<1>2. QED
    BY <1>1 DEF Accounts

\* An item that is gone is among the losses of the list it was in.
LEMMA LostAccounts ==
    ASSUME NEW items, NEW i \in items, NEW what \in {"property", "member", "union member"},
           NEW use, use = Use("item", i, 0)
    PROVE  \E d \in Lost(what, items) : Accounts(d, use)
<1>1. \E d \in Lost(what, items) : d.what = what /\ d.was.text = i
    BY LostHas
<1>2. PICK d \in Lost(what, items) : d.what = what /\ d.was.text = i
    BY <1>1
<1>3. use.how = "item" /\ use.what = i
    BY DEF Use
<1>4. Accounts(d, use)
    BY <1>2, <1>3 DEF Accounts
<1>5. QED
    BY <1>4

LEMMA FnLossesAccount ==
    ASSUME NEW was \in Shapes \cup {Absent}, NEW now \in Shapes \cup {Absent}, was # Absent, now # Absent,
           was.kind = "fn", now.kind = "fn", NEW use \in Uses(was) \ Uses(now)
    PROVE  \E d \in FnLosses(was, now) : Accounts(d, use)
<1>1. /\ was.text = "items" /\ now.text = "items"
      /\ was.required \in Nat /\ was.total \in Nat /\ now.required \in Nat /\ now.total \in Nat
    BY Shaped
<1>2. use # Use("kind", was.kind, 0)
    BY UsesHave
<1>3. CASE \E i \in was.items : use = Use("item", i, 0)
    <2>1. PICK i \in was.items : use = Use("item", i, 0)
        BY <1>3
    <2>2. i \in was.items \ now.items
        BY <1>1, <2>1, UsesHave
    <2>3. QED
        BY <2>1, <2>2, LostAccounts DEF FnLosses
<1>4. CASE \E n \in was.required..was.total : use = Use("call", "", n)
    <2>1. PICK n \in was.required..was.total : use = Use("call", "", n)
        BY <1>4
    <2>2. n \notin now.required..now.total
        BY <2>1, UsesHave
    <2>3. use.how = "call" /\ (now.required > was.required \/ now.total < was.total)
        <3>1. use.how = "call"
            BY <2>1, UseFields
        <3>2. QED
            BY <1>1, <2>2, <3>1
    <2>4. CASE now.required > was.required
        <3> DEFINE d == Detail("requires", Said("", "", was.required), Said("", "", now.required))
        <3>1. d \in FnLosses(was, now)
            BY <2>4 DEF FnLosses, If
        <3>2. Accounts(d, use)
            BY <2>3, AccountsCall
        <3>3. QED
            BY <3>1, <3>2
    <2>5. CASE now.total < was.total
        <3> DEFINE d == Detail("accepts", Said("", "", was.total), Said("", "", now.total))
        <3>1. d \in FnLosses(was, now)
            BY <2>5 DEF FnLosses, If
        <3>2. Accounts(d, use)
            BY <2>3, AccountsCall
        <3>3. QED
            BY <3>1, <3>2
    <2>6. QED
        BY <2>3, <2>4, <2>5
<1>5. QED
    BY <1>1, <1>2, <1>3, <1>4, UseFacts

\* Whatever a shape loses, the comparison reports.
LEMMA BreakingAccounts ==
    ASSUME NEW was \in Shapes \cup {Absent}, NEW now \in Shapes \cup {Absent}, now # Absent,
           NEW use \in Uses(was) \ Uses(now)
    PROVE  \E d \in Breaking(was, now) : Accounts(d, use)
<1>1. was # now /\ was # Absent
    BY UseFacts
<1>2. CASE was.kind # now.kind
    <2> DEFINE d == Detail("kind", Said(was.kind, "", 0), Said(now.kind, "", 0))
    <2>1. d \in Breaking(was, now)
        BY <1>1, <1>2 DEF Breaking
    <2>2. Accounts(d, use)
        BY AccountsWhole
    <2>3. QED
        BY <2>1, <2>2
<1>3. CASE was.kind = now.kind /\ was.kind = "fn"
    <2>1. Breaking(was, now) = FnLosses(was, now)
        BY <1>1, <1>3 DEF Breaking
    <2>2. QED
        BY <1>1, <1>3, <2>1, FnLossesAccount
<1>4. CASE was.kind = now.kind /\ was.kind # "fn" /\ was.text = "items" /\ now.text = "items"
    <2> DEFINE what == IF was.kind = "union" THEN "union member" ELSE "member"
    <2>1. Breaking(was, now) = Lost(what, was.items \ now.items)
        BY <1>1, <1>4 DEF Breaking
    <2>2. PICK i \in was.items : use = Use("item", i, 0)
        <3>1. use # Use("kind", was.kind, 0)
            BY <1>1, <1>4, UsesHave
        <3>2. QED
            BY <1>4, <3>1, UseFacts
    <2>3. i \in was.items \ now.items
        BY <1>4, <2>2, UsesHave
    <2>4. what \in {"property", "member", "union member"}
        OBVIOUS
    <2>5. QED
        BY <2>1, <2>2, <2>3, <2>4, LostAccounts
<1>5. CASE was.kind = now.kind /\ was.kind # "fn" /\ ~(was.text = "items" /\ now.text = "items")
    <2> DEFINE d == Detail("type", Said("", was.text, 0), Said("", now.text, 0))
    <2>1. d \in Breaking(was, now)
        BY <1>1, <1>5 DEF Breaking
    <2>2. Accounts(d, use)
        BY AccountsWhole
    <2>3. QED
        BY <2>1, <2>2
<1>6. QED
    BY <1>2, <1>3, <1>4, <1>5

\* Whatever a surface loses of a snapshot is among the findings, but for the
\* value of the release constant.
LEMMA LossIsFound ==
    ASSUME NEW snapshot \in Surfaces, NEW surface \in Surfaces, NEW e \in Exports,
           NEW use \in Uses(snapshot[e]) \ Uses(surface[e])
    PROVE  Exempt(e, use) \/ Accounted(Findings(snapshot, surface), e, use)
<1>1. snapshot[e] # Absent /\ snapshot[e] \in Shapes \cup {Absent} /\ surface[e] \in Shapes \cup {Absent}
    BY UseFacts DEF Surfaces
<1>2. CASE surface[e] = Absent
    <2> DEFINE entry == [export |-> e, detail |-> Detail("itself", Gone, Gone)]
    <2>1. entry \in Findings(snapshot, surface)
        BY <1>1, <1>2 DEF Findings
    <2>2. entry.export = e /\ Accounts(entry.detail, use)
        BY DEF Accounts, Detail
    <2>3. QED
        BY <2>1, <2>2 DEF Accounted
<1>3. CASE surface[e] # Absent /\ ReleaseNoise(e, snapshot[e], surface[e])
    BY <1>1, <1>3, ConstUses DEF ReleaseNoise, Exempt
<1>4. CASE surface[e] # Absent /\ ~ReleaseNoise(e, snapshot[e], surface[e])
    <2>1. PICK d \in Breaking(snapshot[e], surface[e]) : Accounts(d, use)
        BY <1>1, <1>4, BreakingAccounts
    <2> DEFINE entry == [export |-> e, detail |-> d]
    <2>2. entry \in Findings(snapshot, surface)
        <3> DEFINE Kept == {x \in Exports : /\ Absent \notin {snapshot[x], surface[x]}
                                            /\ ~ReleaseNoise(x, snapshot[x], surface[x])}
                   Written(x) == {[export |-> x, detail |-> c] : c \in Breaking(snapshot[x], surface[x])}
        <3>1. e \in Kept
            BY <1>1, <1>4
        <3>2. entry \in Written(e)
            BY Zenon
        <3> HIDE DEF Kept, Written, entry
        <3>3. entry \in UNION {Written(x) : x \in Kept}
            BY <3>1, <3>2, Zenon
        <3>4. UNION {Written(x) : x \in Kept} \subseteq Findings(snapshot, surface)
            BY Zenon DEF Findings, Kept, Written
        <3>5. QED
            BY <3>3, <3>4, Zenon
    <2>3. entry.export = e /\ entry.detail = d
        OBVIOUS
    <2>4. QED
        BY <2>1, <2>2, <2>3 DEF Accounted
<1>5. QED
    BY <1>2, <1>3, <1>4

\* A check that passes lets no use into the surface that the snapshot lacks.
LEMMA GainIsFound ==
    ASSUME NEW snapshot \in Surfaces, NEW surface \in Surfaces, NEW e \in Exports,
           Findings(snapshot, surface) = {}, Additive(snapshot, surface) = {},
           NEW use \in Uses(surface[e]) \ Uses(snapshot[e])
    PROVE  Exempt(e, use)
<1> DEFINE was == snapshot[e]
           now == surface[e]
<1>1. now # Absent /\ was \in Shapes \cup {Absent} /\ now \in Shapes \cup {Absent}
    BY UseFacts DEF Surfaces
<1>2. ~Grows(was, now)
    BY <1>1 DEF Additive
<1>3. was # Absent
    BY <1>1, <1>2 DEF Grows
<1>4. CASE ReleaseNoise(e, was, now)
    BY <1>1, <1>3, <1>4, ConstUses DEF ReleaseNoise, Exempt
<1>5. CASE ~ReleaseNoise(e, was, now)
    <2>1. Breaking(was, now) = {}
        <3>1. ASSUME NEW d \in Breaking(was, now) PROVE FALSE
            <4>1. [export |-> e, detail |-> d] \in Findings(snapshot, surface)
                BY <1>1, <1>3, <1>5, <3>1 DEF Findings
            <4>2. QED
                BY <4>1
        <3>2. QED
            BY <3>1
    <2> HIDE DEF was, now
    <2>2. was # now
        BY DEF was, now
    <2>3. was.kind = now.kind
        BY <2>1, <2>2 DEF Breaking
    <2>4. ~(was.kind = "fn" /\ now.kind = "fn")
        BY <1>2, <1>3, <2>1, <2>2 DEF Breaking, Grows
    <2>5. was.text = "items" /\ now.text = "items"
        BY <2>1, <2>2, <2>3, <2>4 DEF Breaking
    <2>6. now.items \ was.items = {}
        BY <1>2, <1>3, <2>2, <2>3, <2>4, <2>5 DEF Grows
    <2>7. use \in Uses(now) /\ use \notin Uses(was)
        BY DEF was, now
    <2>8. PICK i \in now.items : use = Use("item", i, 0)
        <3>1. use # Use("kind", now.kind, 0)
            BY <1>3, <2>3, <2>7, UsesHave
        <3>2. QED
            BY <2>3, <2>4, <2>5, <2>7, <3>1, UseFacts
    <2>9. i \in was.items
        BY <2>6
    <2>10. QED
        BY <1>3, <2>5, <2>7, <2>8, <2>9, UsesHave
<1>6. QED
    BY <1>4, <1>5

-----------------------------------------------------------------------------
(* The steps.                                                              *)

LEMMA LossStart == ApiInit => LossInv
<1> SUFFICES ASSUME ApiInit PROVE LossInv
    OBVIOUS
<1>1. PICK surface \in [Exports -> Shapes] : main = [surface |-> surface, snapshot |-> surface, ledger |-> {}]
    BY DEF ApiInit
<1>2. main \in Copies /\ branch = main
    BY <1>1 DEF ApiInit, Copies, Surfaces
<1>3. offered = [e \in Exports |-> Uses(main.surface[e])]
    BY DEF ApiInit
<1>4. DOMAIN offered = Exports /\ \A e \in Exports : offered[e] = Uses(main.surface[e]) /\ main.snapshot = main.surface
    BY <1>1, <1>3
<1>5. QED
    BY <1>2, <1>4 DEF LossInv, KnowsAll, NoSilentLoss

LEMMA EditStep == ASSUME LossInv, NEW e \in Exports, NEW shape \in Shapes, Edit(e, shape) PROVE LossInv'
<1>1. /\ branch' = [branch EXCEPT !.surface[e] = shape] /\ UNCHANGED <<main, offered>>
    BY DEF Edit
<1>2. /\ branch' \in Copies /\ branch'.snapshot = branch.snapshot /\ branch'.ledger = branch.ledger
    BY <1>1 DEF LossInv, Copies, Surfaces
<1>3. QED
    BY <1>1, <1>2 DEF LossInv, KnowsAll, NoSilentLoss

LEMMA DocumentStep == LossInv /\ Document => LossInv'
<1> SUFFICES ASSUME LossInv, Document PROVE LossInv'
    OBVIOUS
<1>1. PICK f \in Undocumented(branch) : branch' = [branch EXCEPT !.ledger = @ \cup {f}]
    BY DEF Document
<1>2. UNCHANGED <<main, offered>> /\ branch \in Copies
    BY DEF LossInv, Document
<1>3. f \in Entries
    BY <1>2 DEF Undocumented, Entries, Copies
<1>4. /\ branch' \in Copies /\ branch'.snapshot = branch.snapshot
      /\ branch'.ledger = branch.ledger \cup {f}
    BY <1>1, <1>2, <1>3 DEF Copies
<1>5. KnowsAll(branch)'
    BY <1>2, <1>4 DEF LossInv, KnowsAll, Accounted
<1>6. QED
    BY <1>2, <1>4, <1>5 DEF LossInv, KnowsAll, NoSilentLoss

LEMMA UpdateStep == LossInv /\ Update => LossInv'
<1> SUFFICES ASSUME LossInv, Update PROVE LossInv'
    OBVIOUS
<1>1. /\ UNCHANGED <<main, offered>> /\ branch \in Copies
      /\ branch' = [branch EXCEPT !.snapshot = branch.surface]
      /\ Findings(branch.snapshot, branch.surface) \subseteq branch.ledger
    BY DEF LossInv, Update, Undocumented
<1>2. /\ branch' \in Copies /\ branch'.snapshot = branch.surface /\ branch'.ledger = branch.ledger
      /\ branch.snapshot \in Surfaces /\ branch.surface \in Surfaces
    BY <1>1 DEF Copies
<1>3. KnowsAll(branch)'
    <2>1. SUFFICES ASSUME NEW e \in Exports, NEW use \in offered[e], use \notin Uses(branch.surface[e])
                   PROVE  Exempt(e, use) \/ Accounted(branch.ledger, e, use)
        BY <1>1, <1>2 DEF KnowsAll
    <2>2. CASE use \notin Uses(branch.snapshot[e])
        BY <2>2 DEF LossInv, KnowsAll
    <2>3. CASE use \in Uses(branch.snapshot[e])
        <3>1. Exempt(e, use) \/ Accounted(Findings(branch.snapshot, branch.surface), e, use)
            BY <1>2, <2>1, <2>3, LossIsFound
        <3>2. QED
            BY <1>1, <3>1 DEF Accounted
    <2>4. QED
        BY <2>2, <2>3
<1>4. QED
    BY <1>1, <1>2, <1>3 DEF LossInv, KnowsAll, NoSilentLoss

LEMMA MergeStep == LossInv /\ Merge => LossInv'
<1> SUFFICES ASSUME LossInv, Merge PROVE LossInv'
    OBVIOUS
<1>1. /\ main' = branch /\ branch' = branch /\ branch \in Copies /\ DOMAIN offered = Exports
      /\ Findings(branch.snapshot, branch.surface) = {} /\ Additive(branch.snapshot, branch.surface) = {}
      /\ branch.snapshot \in Surfaces /\ branch.surface \in Surfaces
      /\ offered' = [e \in Exports |-> offered[e] \cup Uses(branch.surface[e])]
    BY DEF LossInv, Merge, Passes, Copies
<1>2. DOMAIN offered' = Exports /\ \A e \in Exports : offered'[e] = offered[e] \cup Uses(branch.surface[e])
    BY <1>1
<1>3. KnowsAll(branch)'
    <2>1. SUFFICES ASSUME NEW e \in Exports, NEW use \in offered'[e], use \notin Uses(branch.snapshot[e])
                   PROVE  Exempt(e, use) \/ Accounted(branch.ledger, e, use)
        BY <1>1 DEF KnowsAll
    <2>2. CASE use \in offered[e]
        BY <2>1, <2>2 DEF LossInv, KnowsAll
    <2>3. CASE use \in Uses(branch.surface[e])
        BY <1>1, <2>1, <2>3, GainIsFound
    <2>4. QED
        BY <1>2, <2>1, <2>2, <2>3
<1>4. NoSilentLoss'
    <2>1. SUFFICES ASSUME NEW e \in Exports, NEW use \in offered'[e], use \notin Uses(branch.surface[e])
                   PROVE  Exempt(e, use) \/ Accounted(branch.ledger, e, use)
        BY <1>1 DEF NoSilentLoss, Exempt, Accounted
    <2>2. CASE use \notin Uses(branch.snapshot[e])
        BY <1>2, <2>1, <2>2 DEF LossInv, KnowsAll
    <2>3. CASE use \in Uses(branch.snapshot[e])
        <3>1. Exempt(e, use) \/ Accounted({}, e, use)
            BY <1>1, <2>1, <2>3, LossIsFound
        <3>2. QED
            BY <3>1 DEF Accounted
    <2>4. QED
        BY <2>2, <2>3
<1>5. QED
    BY <1>1, <1>2, <1>3, <1>4 DEF LossInv, KnowsAll

LEMMA LossStep == LossInv /\ [ApiNext]_apiVars => LossInv'
<1>1. ASSUME LossInv, UNCHANGED apiVars PROVE LossInv'
    BY <1>1 DEF apiVars, LossInv, KnowsAll, NoSilentLoss
<1>2. ASSUME LossInv, Abandon PROVE LossInv'
    BY <1>2 DEF Abandon, LossInv, KnowsAll, NoSilentLoss
<1>3. QED
    BY <1>1, <1>2, EditStep, DocumentStep, UpdateStep, MergeStep DEF ApiNext

-----------------------------------------------------------------------------
(* The pins.                                                               *)

PinsTypeOK ==
    /\ pkg \in [version : PinVersions, pins : [PinNames \X PinFields -> PinSpecs]]
    /\ lock \in [root : PinVersions, self : PinVersions, entries : [PinNames -> PinVersions \cup {NotLocked}]]
    /\ npmHas \in [PinNames -> SUBSET PinVersions]
    /\ pinsPassed \in BOOLEAN

PinsInv == PinsTypeOK /\ PassMeansInstalls

LEMMA PinsStart == PinsInit => PinsInv
<1> SUFFICES ASSUME PinsInit PROVE PinsInv
    OBVIOUS
<1>1. NoPin \in PinSpecs
    BY DEF PinSpecs, NoPin
<1>2. PinsTypeOK
    <2>1. PICK v \in PinVersions :
             /\ pkg = [version |-> v, pins |-> [p \in PinNames \X PinFields |-> NoPin]]
             /\ lock = [root |-> v, self |-> v, entries |-> [n \in PinNames |-> NotLocked]]
        BY DEF PinsInit
    <2>2. /\ [p \in PinNames \X PinFields |-> NoPin] \in [PinNames \X PinFields -> PinSpecs]
          /\ [n \in PinNames |-> NotLocked] \in [PinNames -> PinVersions \cup {NotLocked}]
        BY <1>1
    <2>3. npmHas \in [PinNames -> SUBSET PinVersions] /\ pinsPassed = FALSE
        BY DEF PinsInit
    <2>4. QED
        BY <2>1, <2>2, <2>3 DEF PinsTypeOK
<1>3. PassMeansInstalls
    BY DEF PinsInit, PassMeansInstalls
<1>4. QED
    BY <1>2, <1>3 DEF PinsInv

\* An exact pin is told by its version.
LEMMA ExactPin ==
    ASSUME NEW said \in PinSpecs, said.kind = "exact"
    PROVE  said = Exactly(said.version)
<1>1. \A k \in {"none", "range", "file"} : [NoPin EXCEPT !.kind = k].kind = k
    BY DEF NoPin
<1>2. PICK v \in PinVersions : said = Exactly(v)
    BY <1>1 DEF PinSpecs
<1>3. QED
    BY <1>2 DEF Exactly

LEMMA PinsCheck ==
    ASSUME PinsTypeOK, CheckPins
    PROVE  PinsInv'
<1>1. PICK reply \in [PinNames -> UNION {PinReplies(n) : n \in PinNames}] :
         /\ \A n \in PinNames : reply[n] \in PinReplies(n)
         /\ pinsPassed' = (LockIsInSync /\ \A p \in Pinned : PinHolds(p, reply[p[1]]))
    BY DEF CheckPins
<1>2. UNCHANGED <<pkg, lock, npmHas>>
    BY DEF CheckPins
<1>3. PinsTypeOK'
    BY <1>1, <1>2 DEF PinsTypeOK
<1>4. ASSUME pinsPassed' PROVE LockIsInSync /\ \A p \in Pinned : PinHolds(p, reply[p[1]])
    BY <1>1, <1>4
<1>5. ASSUME pinsPassed', NEW p \in Pinned
      PROVE  /\ lock.entries[p[1]] \in npmHas[p[1]]
             /\ pkg.pins[p].kind = "exact" => pkg.pins[p].version = lock.entries[p[1]]
    <2>1. p[1] \in PinNames
        BY DEF Pinned
    <2>2. PinHolds(p, reply[p[1]])
        BY <1>4, <1>5
    <2>3. reply[p[1]].kind = "listed" => reply[p[1]].versions = npmHas[p[1]]
        <3>1. reply[p[1]] \in PinReplies(p[1])
            BY <1>1, <2>1
        <3>2. QED
            BY <3>1 DEF PinReplies
    <2>4. QED
        BY <2>2, <2>3 DEF PinHolds, Published
<1>6. ASSUME pinsPassed', NEW n \in PinNames, NEW f \in PinFields, NEW g \in PinFields,
             pkg.pins[<<n, f>>].kind = "exact", pkg.pins[<<n, g>>].kind = "exact"
      PROVE  pkg.pins[<<n, f>>] = pkg.pins[<<n, g>>]
    <2>1. <<n, f>> \in Pinned /\ <<n, g>> \in Pinned
        BY <1>6 DEF Pinned
    <2>2. pkg.pins[<<n, f>>].version = lock.entries[n] /\ pkg.pins[<<n, g>>].version = lock.entries[n]
        BY <1>5, <1>6, <2>1
    <2>3. pkg.pins[<<n, f>>] \in PinSpecs /\ pkg.pins[<<n, g>>] \in PinSpecs
        BY DEF PinsTypeOK
    <2>4. QED
        BY <1>6, <2>2, <2>3, ExactPin
<1>7. PassMeansInstalls'
    BY <1>2, <1>4, <1>5, <1>6 DEF PassMeansInstalls, Pinned, LockIsInSync
<1>8. QED
    BY <1>3, <1>7 DEF PinsInv

LEMMA PinsPublish ==
    ASSUME PinsInv, NEW n \in PinNames, NEW v \in PinVersions, PublishSibling(n, v)
    PROVE  PinsInv'
<1>1. /\ UNCHANGED <<pkg, lock, pinsPassed>>
      /\ npmHas' \in [PinNames -> SUBSET PinVersions]
      /\ \A m \in PinNames : npmHas[m] \subseteq npmHas'[m]
    BY DEF PublishSibling, PinsInv, PinsTypeOK
<1>2. \A p \in Pinned : p[1] \in PinNames
    BY DEF Pinned
<1>3. PinsTypeOK'
    BY <1>1 DEF PinsInv, PinsTypeOK
<1>4. Pinned' = Pinned
    BY <1>1 DEF Pinned
<1>5. PassMeansInstalls'
    BY <1>1, <1>2, <1>4 DEF PinsInv, PassMeansInstalls
<1>6. QED
    BY <1>3, <1>5 DEF PinsInv

LEMMA PinsStep == PinsInv /\ [PinsNext]_pinVars => PinsInv'
<1> SUFFICES ASSUME PinsInv, [PinsNext]_pinVars PROVE PinsInv'
    OBVIOUS
<1>1. CASE UNCHANGED pinVars
    <2>1. UNCHANGED <<pkg, lock, npmHas, pinsPassed>> /\ Pinned' = Pinned
        BY <1>1 DEF pinVars, Pinned
    <2>2. PinsTypeOK'
        BY <2>1 DEF PinsInv, PinsTypeOK
    <2>3. PassMeansInstalls'
        BY <2>1 DEF PinsInv, PassMeansInstalls
    <2>4. QED
        BY <2>2, <2>3 DEF PinsInv
<1>2. CASE EditPackage
    <2>1. pinsPassed' = FALSE /\ UNCHANGED <<lock, npmHas>>
        BY <1>2 DEF EditPackage
    <2>2. pkg' \in [version : PinVersions, pins : [PinNames \X PinFields -> PinSpecs]]
        BY <1>2 DEF EditPackage, PinsInv, PinsTypeOK
    <2>3. QED
        BY <2>1, <2>2 DEF PinsInv, PinsTypeOK, PassMeansInstalls
<1>3. CASE EditLock
    <2>1. pinsPassed' = FALSE /\ UNCHANGED <<pkg, npmHas>>
        BY <1>3 DEF EditLock
    <2>2. lock' \in [root : PinVersions, self : PinVersions, entries : [PinNames -> PinVersions \cup {NotLocked}]]
        BY <1>3 DEF EditLock, PinsInv, PinsTypeOK
    <2>3. QED
        BY <2>1, <2>2 DEF PinsInv, PinsTypeOK, PassMeansInstalls
<1>4. QED
    BY <1>1, <1>2, <1>3, PinsCheck, PinsPublish DEF PinsNext, PinsInv

-----------------------------------------------------------------------------
(* Induction: a set of naturals that is not empty has a least element.     *)

LEMMA LeastNatural ==
    ASSUME NEW T, T \subseteq Nat, T # {}
    PROVE  \E n \in T : \A m \in T : n <= m
<1> DEFINE D == {0..n : n \in T}
<1>1. \A n \in T : 0..n \in FiniteSubsetsOf(Nat)
    <2> TAKE n \in T
    <2>1. IsFiniteSet(0..n)
        BY FS_Interval
    <2>2. QED
        BY <2>1 DEF FiniteSubsetsOf
<1>2. D \subseteq FiniteSubsetsOf(Nat) /\ D # {}
    BY <1>1
<1>3. IsWellFoundedOn(StrictSubsetOrdering(Nat), FiniteSubsetsOf(Nat))
    BY FS_StrictSubsetOrderingWellFounded
<1>4. \E x \in D : \A y \in D : <<y, x>> \notin StrictSubsetOrdering(Nat)
    BY <1>2, <1>3, WFMin
<1>5. PICK n \in T : \A m \in T : <<0..m, 0..n>> \notin StrictSubsetOrdering(Nat)
    BY <1>4
<1>6. ASSUME NEW m \in T, m < n PROVE FALSE
    <2>1. 0..m \subseteq 0..n /\ n \in 0..n /\ n \notin 0..m
        BY <1>6
    <2>2. 0..m \in SUBSET Nat /\ 0..n \in SUBSET Nat
        OBVIOUS
    <2>3. <<0..m, 0..n>> \in StrictSubsetOrdering(Nat)
        BY <2>1, <2>2 DEF StrictSubsetOrdering
    <2>4. QED
        BY <2>3, <1>5
<1>7. QED
    BY <1>6

-----------------------------------------------------------------------------
(* The lockstep.                                                           *)

LEMMA ReachedWhen ==
    ASSUME NEW sdk, NEW host, NEW p \in DOMAIN sdk \cap DOMAIN host,
           \A n \in 0..(Len(p) - 1) :
              LET q == SubSeq(p, 1, n)
              IN  q \in DOMAIN host /\ Comparable(sdk[q], host[q]) /\ ~TypesDiffer(sdk[q], host[q])
    PROVE  p \in Reached(sdk, host)
BY DEF Reached

\* Along a path of which the host speaks, the walk of the results leg goes all the way.
LEMMA PathReached ==
    ASSUME NEW sdk, NEW host, NEW p \in Seq(Keys), NEW k,
           \A n \in 0..Len(p) : SubSeq(p, 1, n) \in DOMAIN sdk /\ sdk[SubSeq(p, 1, n)].type # "void",
           SpeaksOf(host, p, k),
           ResultViolations(sdk, host) = {}
    PROVE  p \in Reached(sdk, host)
<1> DEFINE pre(n) == SubSeq(p, 1, n)
           T == {n \in 0..Len(p) : pre(n) \notin Reached(sdk, host)}
<1>1. Len(p) \in Nat
    OBVIOUS
<1>2. \A n \in 0..Len(p) : /\ pre(n) \in DOMAIN sdk /\ pre(n) \in DOMAIN host
                           /\ Comparable(sdk[pre(n)], host[pre(n)])
    BY DEF SpeaksOf, Comparable
<1>3. \A n \in 0..Len(p) : Len(pre(n)) = n /\ \A m \in 0..n : SubSeq(pre(n), 1, m) = pre(m)
    <2> TAKE n \in 0..Len(p)
    <2>1. pre(n) \in Seq(Keys) /\ Len(pre(n)) = n /\ \A i \in 1..n : pre(n)[i] = p[i]
        BY <1>1
    <2>2. ASSUME NEW m \in 0..n PROVE SubSeq(pre(n), 1, m) = pre(m)
        <3>1. \A i \in 1..m : i \in 1..n
            BY <1>1, <2>2
        <3>2. /\ SubSeq(pre(n), 1, m) = [i \in 1..m |-> pre(n)[i]]
              /\ pre(m) = [i \in 1..m |-> p[i]]
            BY <1>1, <2>1
        <3>3. QED
            BY <2>1, <3>1, <3>2
    <2>3. QED
        BY <2>1, <2>2
<1>4. ASSUME T # {} PROVE FALSE
    <2>0. T \subseteq Nat
        BY <1>1
    <2> HIDE DEF T
    <2>1. PICK n \in T : \A m \in T : n <= m
        BY <1>4, <2>0, LeastNatural
    <2> USE DEF T
    <2>2. \A m \in 0..(n - 1) : m \in 0..Len(p) /\ m \in 0..n /\ pre(m) \in Reached(sdk, host)
        BY <1>1, <2>1
    <2>3. \A m \in 0..(n - 1) : ~TypesDiffer(sdk[pre(m)], host[pre(m)])
        BY <1>2, <2>2 DEF ResultViolations
    <2>4. n \in 0..Len(p) /\ Len(pre(n)) = n
        BY <1>3, <2>1
    <2>5. pre(n) \in Reached(sdk, host)
        <3>1. \A m \in 0..(Len(pre(n)) - 1) :
                 LET q == SubSeq(pre(n), 1, m)
                 IN  q \in DOMAIN host /\ Comparable(sdk[q], host[q]) /\ ~TypesDiffer(sdk[q], host[q])
            BY <1>2, <1>3, <2>2, <2>3, <2>4
        <3>2. QED
            <4>1. pre(n) \in DOMAIN sdk \cap DOMAIN host
                BY <1>2, <2>4
            <4> HIDE DEF pre
            <4>2. QED
                BY <3>1, <4>1, ReachedWhen
    <2>6. QED
        BY <2>1, <2>5
<1>5. pre(Len(p)) = p
    OBVIOUS
<1>6. Len(p) \notin T /\ Len(p) \in 0..Len(p)
    BY <1>1, <1>4
<1>7. pre(Len(p)) \in Reached(sdk, host)
    BY <1>6
<1> HIDE DEF pre
<1>8. QED
    BY <1>5, <1>7

LEMMA FitsInLockstep ==
    ASSUME descriptor \in Descriptors
    PROVE  LockstepFits
<1> DEFINE sdk == descriptor.result
           host == mirror.result
<1>1. SUFFICES ASSUME Agrees, NoSchema \notin {host, sdk},
                      NEW reply \in Replies(host), NEW p \in reply \cap DOMAIN sdk,
                      ~Ignored(sdk, p), NEW k \in sdk[p].required, SpeaksOf(host, p, k)
               PROVE  k \in Children(reply, p)
    BY DEF LockstepFits, Agrees
<1>2. ResultViolations(sdk, host) = {}
    BY <1>1 DEF Agrees
<1>3. p \in Seq(Keys)
    <2>1. reply \subseteq ({<<>>} \cup {<<a>> : a \in Keys} \cup {<<a, b>> : a \in Keys, b \in Keys})
        BY <1>1 DEF Replies
    <2>2. p \in {<<>>} \cup {<<a>> : a \in Keys} \cup {<<a, b>> : a \in Keys, b \in Keys}
        BY <1>1, <2>1
    <2>3. CASE p = <<>>
        BY <2>3
    <2>4. CASE \E a \in Keys : p = <<a>>
        BY <2>4
    <2>5. CASE \E a \in Keys, b \in Keys : p = <<a, b>>
        BY <2>5
    <2>6. QED
        BY <2>2, <2>3, <2>4, <2>5
<1>4. \A n \in 0..Len(p) : SubSeq(p, 1, n) \in DOMAIN sdk /\ sdk[SubSeq(p, 1, n)].type # "void"
    BY <1>1, SchemaAssumption DEF Ignored
<1>5. p \in Reached(sdk, host)
    BY <1>1, <1>2, <1>3, <1>4, PathReached
<1>6. SubSeq(p, 1, Len(p)) = p /\ Len(p) \in 0..Len(p)
    BY <1>3
<1>7. p \in DOMAIN host /\ Comparable(sdk[p], host[p]) /\ (k \in host[p].props \/ host[p].closed)
    BY <1>1, <1>4, <1>6 DEF SpeaksOf, Comparable
<1>8. k \notin Unsent(sdk[p], host[p])
    BY <1>2, <1>5, <1>7 DEF ResultViolations
<1>9. k \in host[p].required
    BY <1>7, <1>8 DEF Unsent
<1>10. QED
    BY <1>7, <1>9 DEF Replies

-----------------------------------------------------------------------------
(* The wire: where a description ends.                                     *)

EndOf(s) == s[Len(s)]
Words(t) == Layers \cup {"fields", "named", t.revision}

\* The last word of a printed type is the first name in it, or else the field.
LEMMA TextEnds ==
    ASSUME NEW t, t.layers \in Seq(Layers), NEW i \in 1..(Len(t.layers) + 1)
    PROVE  /\ Text(t, i) \in Seq(Words(t)) /\ Text(t, i) # <<>>
           /\ EndOf(Text(t, i)) \in Namings \cup {t.revision}
           /\ (\A j \in i..Len(t.layers) : t.layers[j] \notin Namings) => EndOf(Text(t, i)) = t.revision
<1> DEFINE n == Len(t.layers)
           named == {j \in i..n : t.layers[j] \in Namings}
<1>1. n \in Nat /\ t.layers \in Seq(Words(t))
    BY DEF Words
<1>2. CASE named = {}
    <2>1. Text(t, i) = SubSeq(t.layers, i, n) \o <<t.revision>>
        BY <1>2 DEF Text
    <2>2. SubSeq(t.layers, i, n) \in Seq(Words(t)) /\ <<t.revision>> \in Seq(Words(t))
        BY <1>1 DEF Words
    <2> DEFINE shown == SubSeq(t.layers, i, n)
    <2> HIDE DEF shown
    <2>3. shown \in Seq(Words(t)) /\ Text(t, i) = shown \o <<t.revision>>
        BY <2>1, <2>2 DEF shown
    <2>4. /\ Text(t, i) \in Seq(Words(t))
          /\ Len(Text(t, i)) = Len(shown) + 1
          /\ Text(t, i)[Len(shown) + 1] = t.revision
        BY <2>2, <2>3
    <2>5. QED
        BY <2>3, <2>4 DEF EndOf
<1>3. CASE named # {}
    <2>1. named \subseteq Nat
        BY <1>1
    <2>2. \E j \in named : \A k \in named : j <= k
        BY <1>3, <2>1, LeastNatural
    <2>3. PICK j \in named : Text(t, i) = SubSeq(t.layers, i, j)
        BY <1>3, <2>2 DEF Text
    <2>4. i \in 1..n /\ j \in i..n /\ t.layers[j] \in Namings
        BY <1>1, <2>3
    <2>5. /\ Text(t, i) \in Seq(Words(t))
          /\ Len(Text(t, i)) = j - i + 1
          /\ Text(t, i)[j - i + 1] = t.layers[j]
        BY <1>1, <2>3, <2>4
    <2>6. QED
        BY <2>4, <2>5 DEF EndOf
<1>4. QED
    BY <1>2, <1>3

\* What stands before a sequence that is not empty does not change its end.
LEMMA EndOfConcat ==
    ASSUME NEW W, NEW a \in Seq(W), NEW b \in Seq(W), b # <<>>
    PROVE  a \o b \in Seq(W) /\ a \o b # <<>> /\ EndOf(a \o b) = EndOf(b)
<1>1. /\ a \o b \in Seq(W) /\ Len(a \o b) = Len(a) + Len(b) /\ Len(b) \in Nat /\ Len(a) \in Nat
      /\ \A i \in 1..(Len(a) + Len(b)) : (a \o b)[i] = IF i <= Len(a) THEN a[i] ELSE b[i - Len(a)]
    BY ConcatProperties
<1>2. Len(b) > 0
    BY <1>1, EmptySeq
<1>3. (a \o b)[Len(a) + Len(b)] = b[Len(b)]
    BY <1>1, <1>2
<1>4. a \o b # <<>>
    BY <1>1, <1>2
<1>5. QED
    BY <1>1, <1>3, <1>4 DEF EndOf

\* What is printed at the cap ends as the text of the layers it does not open.
Opened(t, i) == IF Layer(t, i) = "own" THEN 1 ELSE IF Layer(t, i) = "array" /\ Layer(t, i + 1) = "own" THEN 2 ELSE 0

LEMMA AtCapEnds ==
    ASSUME NEW t, t.layers \in Seq(Layers), NEW i \in 1..(Len(t.layers) + 1)
    PROVE  /\ AtCap(t, i) \in Seq(Words(t)) /\ AtCap(t, i) # <<>>
           /\ i + Opened(t, i) \in 1..(Len(t.layers) + 1)
           /\ EndOf(AtCap(t, i)) = EndOf(Text(t, i + Opened(t, i)))
<1>1. Len(t.layers) \in Nat /\ \A j \in Nat \ {0} : Layer(t, j) # "leaf" => j \in 1..Len(t.layers)
    BY DEF Layer
<1>2. CASE Layer(t, i) = "own"
    <2> DEFINE head == <<"fields", "named">>
    <2>1. AtCap(t, i) = head \o Text(t, i + 1) /\ Opened(t, i) = 1
        BY <1>2 DEF AtCap, Opened
    <2>2. i + 1 \in 1..(Len(t.layers) + 1) /\ head \in Seq(Words(t))
        BY <1>1, <1>2 DEF Words
    <2> HIDE DEF head
    <2>3. Text(t, i + 1) \in Seq(Words(t)) /\ Text(t, i + 1) # <<>>
        BY <2>2, TextEnds
    <2>4. QED
        BY <2>1, <2>2, <2>3, EndOfConcat
<1>3. CASE Layer(t, i) = "array" /\ Layer(t, i + 1) = "own"
    <2> DEFINE head == <<"array", "fields", "named">>
    <2>1. AtCap(t, i) = head \o Text(t, i + 2) /\ Opened(t, i) = 2
        BY <1>3 DEF AtCap, Opened
    <2>2. i + 2 \in 1..(Len(t.layers) + 1) /\ head \in Seq(Words(t))
        BY <1>1, <1>3 DEF Words, Layers
    <2> HIDE DEF head
    <2>3. Text(t, i + 2) \in Seq(Words(t)) /\ Text(t, i + 2) # <<>>
        BY <2>2, TextEnds
    <2>4. QED
        BY <2>1, <2>2, <2>3, EndOfConcat
<1>4. CASE Layer(t, i) # "own" /\ ~(Layer(t, i) = "array" /\ Layer(t, i + 1) = "own")
    <2>1. AtCap(t, i) = Text(t, i) /\ Opened(t, i) = 0
        BY <1>4 DEF AtCap, Opened
    <2>2. QED
        BY <2>1, TextEnds
<1>5. QED
    BY <1>2, <1>3, <1>4

\* Where the description of a type stops expanding.
StopOf(t, start) == Min({Cap(start), Len(t.layers) + 1})

LEMMA StopsAt ==
    ASSUME NEW t, t.layers \in Seq(Layers), NEW start \in {0, 1}
    PROVE  /\ StopOf(t, start) \in 1..(Len(t.layers) + 1)
           /\ StopOf(t, start) = Cap(start) \/ (StopOf(t, start) = Len(t.layers) + 1 /\ StopOf(t, start) < Cap(start))
<1> DEFINE S == {Cap(start), Len(t.layers) + 1}
<1>1. Len(t.layers) + 1 \in Nat \ {0} /\ Cap(start) \in Nat \ {0}
    BY DEF Cap, MaxDepth
<1>2. S \subseteq Nat /\ S # {}
    BY <1>1
<1>3. \E x \in S : \A y \in S : x <= y
    BY <1>2, LeastNatural
<1>4. Min(S) \in S /\ \A y \in S : Min(S) <= y
    <2> HIDE DEF S
    <2>1. QED
        BY <1>3 DEF Min
<1>5. QED
    BY <1>1, <1>4 DEF StopOf

LEMMA DescribeEnds ==
    ASSUME NEW t, t.layers \in Seq(Layers), NEW start \in {0, 1}
    PROVE  LET stop == StopOf(t, start)
               unopened == stop + Opened(t, stop)
           IN  /\ Describe(t, start) # <<>>
               /\ unopened \in 1..(Len(t.layers) + 1)
               /\ EndOf(Describe(t, start)) = EndOf(Text(t, unopened))
<1> DEFINE stop == StopOf(t, start)
           before == [i \in 1..(stop - 1) |-> Expanded(t.layers[i])]
<1>1. stop \in 1..(Len(t.layers) + 1) /\ Len(t.layers) \in Nat
    BY StopsAt
<1>2. Describe(t, start) = before \o AtCap(t, stop)
    BY DEF Describe, StopOf
<1>3. before \in Seq(Words(t))
    <2>1. \A i \in 1..(stop - 1) : Expanded(t.layers[i]) \in Words(t)
        BY DEF Expanded, Words, Layers
    <2>2. stop - 1 \in Nat
        BY <1>1
    <2>3. QED
        BY <2>1, <2>2
<1>4. QED
    BY <1>1, <1>2, <1>3, AtCapEnds, EndOfConcat

\* The description of a call ends with the revision of its field, or with a name.
LEMMA ShapeEnds ==
    ASSUME NEW c, c.type.layers \in Seq(Layers)
    PROVE  Shape(c) # <<>> /\ EndOf(Shape(c)) \in Namings \cup {c.type.revision}
<1>1. Start(c) \in {0, 1}
    BY DEF Start
<1>2. QED
    BY <1>1, DescribeEnds, TextEnds DEF Shape

\* In plain sight, with the revision.
LEMMA SeenEnds ==
    ASSUME NEW c, c.type.layers \in Seq(Layers), InPlainSight(c)
    PROVE  EndOf(Shape(c)) = c.type.revision
<1> DEFINE t == c.type
           n == Len(t.layers)
           cap == Cap(Start(c))
           stop == StopOf(t, Start(c))
           unopened == stop + Opened(t, stop)
<1>1. Start(c) \in {0, 1} /\ n \in Nat /\ cap \in Nat /\ DOMAIN t.layers = 1..n
    BY DEF Start, Cap, MaxDepth
<1>2. unopened \in 1..(n + 1) /\ EndOf(Shape(c)) = EndOf(Text(t, unopened))
    BY <1>1, DescribeEnds DEF Shape
<1>3. stop \in 1..(n + 1) /\ (stop = cap \/ stop = n + 1)
    BY <1>1, StopsAt
<1>4. \A j \in 1..n : j >= unopened => t.layers[j] \notin Namings
    <2> SUFFICES ASSUME NEW j \in 1..n, j >= unopened, t.layers[j] \in Namings PROVE FALSE
        OBVIOUS
    <2>1. Opened(t, stop) \in 0..2
        BY DEF Opened
    <2>2. stop = cap /\ j >= cap
        BY <1>1, <1>3, <2>1
    <2>3. Layer(t, j) = t.layers[j]
        BY <1>1 DEF Layer
    <2>4. ~Hides(c, j)
        BY <1>1 DEF InPlainSight
    <2>5. Layer(t, j) = "own" /\ (j = cap \/ (j = cap + 1 /\ Layer(t, cap) = "array"))
        BY <2>2, <2>3, <2>4 DEF Hides
    <2>6. CASE j = cap
        BY <2>2, <2>5, <2>6, <1>1 DEF Opened
    <2>7. CASE j = cap + 1 /\ Layer(t, cap) = "array"
        BY <2>2, <2>5, <2>7, <1>1 DEF Opened
    <2>8. QED
        BY <2>5, <2>6, <2>7
<1>5. unopened \in 1..(Len(t.layers) + 1) /\ \A j \in unopened..Len(t.layers) : t.layers[j] \notin Namings
    BY <1>1, <1>2, <1>4
<1> HIDE DEF unopened
<1>6. QED
    BY <1>2, <1>5, TextEnds

-----------------------------------------------------------------------------
(* What is kept of several calls of one name.                              *)

LEMMA Extremes ==
    ASSUME NEW n \in Nat, NEW S, S \subseteq 1..n, S # {}
    PROVE  Min(S) \in S /\ Max(S) \in S
<1>1. S \subseteq Nat
    OBVIOUS
<1>2. \E x \in S : \A y \in S : x <= y
    BY <1>1, LeastNatural
<1>3. \E x \in S : \A y \in S : x >= y
    <2> DEFINE T == {n - x : x \in S}
    <2>0. \A x \in S : n - x \in Nat
        OBVIOUS
    <2>1. T \subseteq Nat /\ T # {}
        BY <2>0
    <2>2. \A x \in S : n - x \in T
        OBVIOUS
    <2>3. \A m \in T : \E x \in S : m = n - x
        OBVIOUS
    <2> HIDE DEF T
    <2>4. PICK m \in T : \A k \in T : m <= k
        BY <2>1, LeastNatural
    <2>5. PICK x \in S : m = n - x
        BY <2>3
    <2>6. \A y \in S : n - x <= n - y /\ x \in Nat /\ y \in Nat
        BY <1>1, <2>2, <2>4, <2>5
    <2>7. QED
        BY <2>6
<1>4. QED
    BY <1>2, <1>3 DEF Min, Max

\* It is said at one of the places ...
LEMMA KeptIsSaid ==
    ASSUME NEW n \in Nat, NEW said, DOMAIN said \subseteq 1..n, NEW nothing
    PROVE  /\ LastSaid(said, nothing) # nothing => \E p \in DOMAIN said : said[p] = LastSaid(said, nothing)
           /\ KeptParams(said) # Undescribed => \E p \in DOMAIN said : said[p] = KeptParams(said)
           /\ KeptPayload(said) # Undescribed => \E p \in DOMAIN said : said[p] = KeptPayload(said)
<1>1. ASSUME NEW none, LastSaid(said, none) # none
      PROVE  \E p \in DOMAIN said : said[p] = LastSaid(said, none)
    <2> DEFINE places == {p \in DOMAIN said : said[p] # none}
    <2>1. places # {} /\ LastSaid(said, none) = said[Max(places)]
        BY <1>1 DEF LastSaid
    <2>2. Max(places) \in places
        BY <2>1, Extremes
    <2>3. QED
        BY <2>1, <2>2
<1>2. ASSUME WithFields(said) # {} PROVE Min(WithFields(said)) \in DOMAIN said
    <2>1. WithFields(said) \subseteq DOMAIN said
        BY DEF WithFields
    <2>2. QED
        BY <1>2, <2>1, Extremes
<1>3. ASSUME DOMAIN said # {} PROVE Min(DOMAIN said) \in DOMAIN said
    BY <1>3, Extremes
<1>4. QED
    BY <1>1, <1>2, <1>3 DEF KeptParams, KeptPayload

LEMMA NothingIsKept ==
    ASSUME NEW n \in Nat, NEW said, DOMAIN said \subseteq 1..n, NEW nothing, LastSaid(said, nothing) = nothing
    PROVE  \A p \in DOMAIN said : said[p] = nothing
<1> DEFINE places == {p \in DOMAIN said : said[p] # nothing}
<1>1. ASSUME places # {} PROVE FALSE
    <2>1. Max(places) \in places
        BY <1>1, Extremes
    <2>2. QED
        BY <1>1, <2>1 DEF LastSaid
<1>2. QED
    BY <1>1

\* ... and a place that alone says something is heard.
LEMMA AloneIsKept ==
    ASSUME NEW n \in Nat, NEW said, DOMAIN said \subseteq 1..n, NEW p \in DOMAIN said, NEW nothing
    PROVE  /\ (\A q \in DOMAIN said \ {p} : said[q] = nothing) => LastSaid(said, nothing) = said[p]
           /\ (\A q \in DOMAIN said \ {p} : said[q] = Undescribed) => KeptParams(said) = said[p]
           /\ DOMAIN said = {p} => KeptPayload(said) = said[p]
<1>1. ASSUME NEW none, \A q \in DOMAIN said \ {p} : said[q] = none
      PROVE  LastSaid(said, none) = said[p]
    <2> DEFINE places == {q \in DOMAIN said : said[q] # none}
    <2>1. CASE places = {}
        BY <2>1 DEF LastSaid
    <2>2. CASE places # {}
        <3>1. Max(places) \in places
            BY <2>2, Extremes
        <3>2. Max(places) = p
            BY <1>1, <3>1
        <3>3. QED
            BY <2>2, <3>2 DEF LastSaid
    <2>3. QED
        BY <2>1, <2>2
<1>2. ASSUME \A q \in DOMAIN said \ {p} : said[q] = Undescribed
      PROVE  KeptParams(said) = said[p]
    <2>1. CASE WithFields(said) = {}
        BY <1>1, <1>2, <2>1 DEF KeptParams
    <2>2. CASE WithFields(said) # {}
        <3>1. WithFields(said) \subseteq {p}
            BY <1>2 DEF WithFields, HasFields
        <3>2. WithFields(said) \subseteq DOMAIN said
            BY DEF WithFields
        <3>3. Min(WithFields(said)) = p
            BY <2>2, <3>1, <3>2, Extremes
        <3>4. QED
            BY <2>2, <3>3 DEF KeptParams
    <2>3. QED
        BY <2>1, <2>2
<1>3. ASSUME DOMAIN said = {p} PROVE KeptPayload(said) = said[p]
    <2>1. WithFields(said) \subseteq {p}
        BY <1>3 DEF WithFields
    <2>2. WithFields(said) # {} => Min(WithFields(said)) = p
        BY <1>3, <2>1, Extremes
    <2>3. Min(DOMAIN said) = p
        BY <1>3, Extremes
    <2>4. QED
        BY <1>3, <2>2, <2>3 DEF KeptPayload
<1>4. QED
    BY <1>1, <1>2, <1>3

-----------------------------------------------------------------------------
(* The snapshot of the calls.                                              *)

Sources == [DOMAIN Places -> Calls \cup {NoCall}]

LEMMA PlacesAreNumbered == Len(Places) \in Nat /\ DOMAIN Places = 1..Len(Places)
<1>1. Places \in Seq(STRING)
    BY CallAssumption
<1>2. QED
    BY <1>1, LenProperties

LEMMA CallAt ==
    ASSUME NEW calls \in Sources, NEW p \in DOMAIN Places, calls[p].name # ""
    PROVE  /\ calls[p] \in Calls
           /\ calls[p].kind \in {"message", "listener", "push", "request", "stream"}
           /\ (calls[p].method # "") = (calls[p].kind \in {"request", "stream"})
           /\ calls[p].poll # "" => calls[p].kind = "push"
           /\ calls[p].type.layers \in Seq(Layers)
           /\ calls[p].type.revision \notin Layers \cup {"fields", "named"}
<1>1. calls[p] \in Calls \cup {NoCall}
    BY DEF Sources
<1>2. NoCall.name = ""
    BY DEF NoCall
<1>3. calls[p] \in Calls
    BY <1>1, <1>2
<1>4. QED
    BY <1>3, CallAssumption

LEMMA CallIsNamed ==
    ASSUME NEW calls \in Sources, NEW p \in DOMAIN Places, calls[p] # NoCall
    PROVE  calls[p].name # "" /\ calls[p].name \in WireNames
<1>1. calls[p] \in Calls
    BY DEF Sources
<1>2. QED
    BY <1>1, CallAssumption DEF WireNames

\* What the snapshot holds of a name some call said.
SaidIn(calls, n, held) ==
    /\ held.value # Undescribed => \E q \in DOMAIN Places :
           calls[q].name = n /\ calls[q].kind = "push" /\ Shape(calls[q]) = held.value
    /\ \A m \in Methods : held.methods[m] # Undescribed => \E q \in DOMAIN Places :
           calls[q].name = n /\ calls[q].method = m /\ Shape(calls[q]) = held.methods[m]
    /\ held.payload \notin {Undescribed, NoFields} => \E q \in DOMAIN Places :
           calls[q].name = n /\ calls[q].kind \in {"message", "listener"} /\ Shape(calls[q]) = held.payload
    /\ held.poll # "" => \E q \in DOMAIN Places : calls[q].name = n /\ calls[q].poll = held.poll
    /\ held.poll = "" => \A q \in DOMAIN Places : calls[q].name = n => calls[q].poll = ""

LEMMA SnapshotIsSaid ==
    ASSUME NEW calls \in Sources, NEW n, n # "", NEW held, held = Extract(calls, n)
    PROVE  SaidIn(calls, n, held)
<1> DEFINE at == MintedAt(calls, n)
           values == [p \in at |-> ValueSaid(calls[p], n)]
           params(m) == [p \in at |-> ParamsSaid(calls[p], n, m)]
           payloads == [p \in at |-> PayloadSaid(calls[p], n)]
           polls == [p \in at |-> IF calls[p].name = n THEN calls[p].poll ELSE ""]
<1>1. at \subseteq 1..Len(Places) /\ at \subseteq DOMAIN Places /\ Len(Places) \in Nat
    BY PlacesAreNumbered DEF MintedAt
<1>2. held.value # Undescribed => \E q \in DOMAIN Places :
          calls[q].name = n /\ calls[q].kind = "push" /\ Shape(calls[q]) = held.value
    <2>1. held.value = LastSaid(values, Undescribed) /\ DOMAIN values = at
        BY DEF Extract
    <2>2. held.value # Undescribed => \E q \in at : values[q] = held.value
        BY <1>1, <2>1, KeptIsSaid
    <2>3. QED
        BY <1>1, <2>2 DEF ValueSaid
<1>3. ASSUME NEW m \in Methods, held.methods[m] # Undescribed
      PROVE  \E q \in DOMAIN Places : calls[q].name = n /\ calls[q].method = m /\ Shape(calls[q]) = held.methods[m]
    <2>1. held.methods[m] = KeptParams(params(m)) /\ DOMAIN params(m) = at
        BY DEF Extract
    <2>2. \E q \in at : params(m)[q] = held.methods[m]
        BY <1>1, <1>3, <2>1, KeptIsSaid
    <2>3. QED
        BY <1>1, <1>3, <2>2 DEF ParamsSaid
<1>4. ASSUME held.payload \notin {Undescribed, NoFields}
      PROVE  \E q \in DOMAIN Places :
                calls[q].name = n /\ calls[q].kind \in {"message", "listener"} /\ Shape(calls[q]) = held.payload
    <2>1. held.payload = KeptPayload(payloads) /\ DOMAIN payloads = at
        BY <1>4 DEF Extract
    <2>2. \E q \in at : payloads[q] = held.payload
        BY <1>1, <1>4, <2>1, KeptIsSaid
    <2>3. QED
        BY <1>1, <1>4, <2>2 DEF PayloadSaid
<1>5. held.poll = LastSaid(polls, "") /\ DOMAIN polls = at
    BY DEF Extract
<1>6. held.poll # "" => \E q \in DOMAIN Places : calls[q].name = n /\ calls[q].poll = held.poll
    <2>1. held.poll # "" => \E q \in at : polls[q] = held.poll
        BY <1>1, <1>5, KeptIsSaid
    <2>2. QED
        BY <1>1, <2>1
<1>7. ASSUME held.poll = "", NEW q \in DOMAIN Places, calls[q].name = n
      PROVE  calls[q].poll = ""
    <2>1. q \in at
        BY <1>7 DEF MintedAt
    <2>2. polls[q] = ""
        BY <1>1, <1>5, <1>7, <2>1, NothingIsKept
    <2>3. QED
        BY <1>7, <2>1, <2>2
<1>8. QED
    BY <1>2, <1>3, <1>4, <1>6, <1>7 DEF SaidIn

\* What a call that is alone says is what the snapshot holds.
LEMMA AloneIsHeld ==
    ASSUME NEW calls \in Sources, NEW p \in DOMAIN Places, calls[p] # NoCall, Alone(calls, p)
    PROVE  LET c == calls[p]
               held == Extract(calls, c.name)
           IN  /\ c.kind = "push" => held.value = Shape(c)
               /\ c.method # "" => c.method \in Methods /\ held.methods[c.method] = Shape(c)
               /\ c.kind \in {"message", "listener"} => held.payload = Shape(c)
               /\ held.poll = c.poll
<1> DEFINE c == calls[p]
           n == c.name
           at == MintedAt(calls, n)
           values == [q \in at |-> ValueSaid(calls[q], n)]
           params(m) == [q \in at |-> ParamsSaid(calls[q], n, m)]
           payloads == [q \in at |-> PayloadSaid(calls[q], n)]
           polls == [q \in at |-> IF calls[q].name = n THEN calls[q].poll ELSE ""]
           held == Extract(calls, n)
<1>1. n # "" /\ c \in Calls
    BY CallIsNamed, CallAt
<1>2. at \subseteq 1..Len(Places) /\ at \subseteq DOMAIN Places /\ Len(Places) \in Nat /\ p \in at
    BY PlacesAreNumbered DEF MintedAt
<1>3. \A q \in at \ {p} : calls[q].name = n => "" \notin {calls[q].method, c.method} /\ calls[q].method # c.method
    BY <1>2 DEF Alone
<1>4. c.method = "" => at = {p}
    BY <1>2, <1>3 DEF Alone, MintedAt
<1>5. c.kind = "push" => held.value = Shape(c)
    <2>1. held.value = LastSaid(values, Undescribed) /\ DOMAIN values = at
        BY DEF Extract
    <2>2. c.kind = "push" => c.method = ""
        BY <1>1, CallAt
    <2> HIDE DEF values
    <2>3. c.kind = "push" => held.value = values[p]
        <3>1. c.kind = "push" => DOMAIN values = {p}
            BY <1>4, <2>1, <2>2
        <3>2. c.kind = "push" => \A q \in DOMAIN values \ {p} : values[q] = Undescribed
            BY <3>1
        <3>3. p \in DOMAIN values /\ DOMAIN values \subseteq 1..Len(Places)
            BY <1>2, <2>1
        <3>4. c.kind = "push" => LastSaid(values, Undescribed) = values[p]
            BY <1>2, <3>2, <3>3, AloneIsKept
        <3>5. QED
            BY <2>1, <3>4
    <2> USE DEF values
    <2>4. QED
        BY <1>2, <2>3 DEF ValueSaid
<1>6. ASSUME c.method # "" PROVE c.method \in Methods /\ held.methods[c.method] = Shape(c)
    <2> DEFINE m == c.method
    <2>1. m \in Methods
        BY <1>1, <1>6 DEF Methods
    <2>2. held.methods[m] = KeptParams(params(m)) /\ DOMAIN params(m) = at
        BY <2>1 DEF Extract
    <2>3. \A q \in at \ {p} : params(m)[q] = Undescribed
        BY <1>3 DEF ParamsSaid
    <2>4. held.methods[m] = params(m)[p]
        BY <1>2, <2>2, <2>3, AloneIsKept
    <2>5. QED
        BY <1>2, <2>1, <2>4 DEF ParamsSaid
<1>7. ASSUME c.kind \in {"message", "listener"} PROVE held.payload = Shape(c)
    <2>1. c.method = "" /\ c.poll # n
        BY <1>1, <1>7, CallAt
    <2>2. at = {p}
        BY <1>4, <2>1
    <2>3. ASSUME NEW m \in Methods PROVE held.methods[m] = Undescribed
        <3>1. held.methods[m] = KeptParams(params(m)) /\ DOMAIN params(m) = at
            BY <2>3 DEF Extract
        <3>2. held.methods[m] = params(m)[p]
            BY <1>2, <2>2, <3>1, AloneIsKept
        <3>3. m # ""
            BY <2>3 DEF Methods
        <3>4. QED
            BY <1>2, <2>1, <3>2, <3>3 DEF ParamsSaid
    <2>4. held.payload = KeptPayload(payloads) /\ DOMAIN payloads = at
        <3>1. held.payload = IF \E m \in Methods : held.methods[m] # Undescribed THEN Undescribed ELSE KeptPayload(payloads)
            BY DEF Extract
        <3>2. QED
            BY <2>3, <3>1
    <2>5. held.payload = payloads[p]
        BY <1>2, <2>2, <2>4, AloneIsKept
    <2>6. QED
        BY <1>2, <1>7, <2>1, <2>5 DEF PayloadSaid
<1>8. held.poll = c.poll
    <2>1. held.poll = LastSaid(polls, "") /\ DOMAIN polls = at
        BY DEF Extract
    <2>2. \A q \in at \ {p} : calls[q].name = n => calls[q].poll = ""
        BY <1>1, <1>2, <1>3, CallAt
    <2>3. \A q \in at \ {p} : polls[q] = ""
        BY <2>2
    <2> HIDE DEF polls
    <2>4. held.poll = polls[p]
        <3>1. \A q \in DOMAIN polls \ {p} : polls[q] = ""
            BY <2>1, <2>3
        <3>2. p \in DOMAIN polls /\ DOMAIN polls \subseteq 1..Len(Places)
            BY <1>2, <2>1
        <3>3. LastSaid(polls, "") = polls[p]
            BY <1>2, <3>1, <3>2, AloneIsKept
        <3>4. QED
            BY <2>1, <3>3
    <2> USE DEF polls
    <2>5. QED
        BY <1>2, <2>4
<1>9. QED
    BY <1>5, <1>6, <1>7, <1>8

\* Two calls with the same description agree on a field in plain sight.
LEMMA SameShape ==
    ASSUME NEW c, NEW d, c.type.layers \in Seq(Layers), d.type.layers \in Seq(Layers),
           c.type.revision \notin Layers, Shape(c) = Shape(d)
    PROVE  InPlainSight(c) => c.type.revision = d.type.revision
<1>1. EndOf(Shape(d)) \in Namings \cup {d.type.revision}
    BY ShapeEnds
<1>2. InPlainSight(c) => EndOf(Shape(c)) = c.type.revision
    BY SeenEnds
<1>3. QED
    BY <1>1, <1>2 DEF Namings, Layers

LEMMA SameSnapshotCovers ==
    ASSUME NEW these \in Sources, NEW those \in Sources,
           \A n \in WireNames : Extract(these, n) = Extract(those, n)
    PROVE  Covered(these, those)
<1> SUFFICES ASSUME NEW p \in DOMAIN Places, these[p] # NoCall, Alone(these, p)
             PROVE  /\ \E q \in DOMAIN Places : SameOnWire(these[p], those[q])
                    /\ \E q \in DOMAIN Places : those[q].name = these[p].name /\ those[q].poll = these[p].poll
    BY DEF Covered
<1> DEFINE c == these[p]
           held == Extract(those, c.name)
<1>1. c.name # "" /\ held = Extract(these, c.name)
    BY CallIsNamed
<1>2. /\ c.kind \in {"message", "listener", "push", "request", "stream"}
      /\ (c.method # "") = (c.kind \in {"request", "stream"})
      /\ c.type.layers \in Seq(Layers)
      /\ c.type.revision \notin Layers \cup {"fields", "named"}
    BY <1>1, CallAt
<1>3. Shape(c) # Undescribed /\ Shape(c) # NoFields
    <2>1. Shape(c) # <<>> /\ EndOf(Shape(c)) \in Namings \cup {c.type.revision}
        BY <1>2, ShapeEnds
    <2>2. EndOf(NoFields) = "fields"
        BY DEF EndOf, NoFields
    <2>3. QED
        BY <1>2, <2>1, <2>2 DEF Namings, Undescribed
<1>4. ASSUME NEW q \in DOMAIN Places, those[q].name = c.name, those[q].method = c.method,
             Start(those[q]) = Start(c), Shape(those[q]) = Shape(c)
      PROVE  SameOnWire(c, those[q])
    <2>1. those[q].type.layers \in Seq(Layers)
        BY <1>1, <1>4, CallAt
    <2>2. InPlainSight(c) => c.type.revision = those[q].type.revision
        BY <1>2, <1>4, <2>1, SameShape
    <2>3. QED
        BY <1>4, <2>2 DEF SameOnWire
<1>5. /\ c.kind = "push" => held.value = Shape(c)
      /\ c.method # "" => c.method \in Methods /\ held.methods[c.method] = Shape(c)
      /\ c.kind \in {"message", "listener"} => held.payload = Shape(c)
      /\ held.poll = c.poll
    BY <1>1, AloneIsHeld
<1> HIDE DEF held
<1>6. SaidIn(those, c.name, held)
    BY <1>1, SnapshotIsSaid DEF held
<1> DEFINE At == DOMAIN Places
           PushAt(x) == \E q \in At : those[q].name = c.name /\ those[q].kind = "push" /\ Shape(those[q]) = x
           MethodAt(m, x) == \E q \in At : those[q].name = c.name /\ those[q].method = m /\ Shape(those[q]) = x
           PayloadAt(x) == \E q \in At :
               those[q].name = c.name /\ those[q].kind \in {"message", "listener"} /\ Shape(those[q]) = x
           PollAt(x) == \E q \in At : those[q].name = c.name /\ those[q].poll = x
           NoPoll == \A q \in At : those[q].name = c.name => those[q].poll = ""
<1>7. /\ held.poll # "" => PollAt(held.poll)
      /\ held.poll = "" => NoPoll
      /\ held.value # Undescribed => PushAt(held.value)
      /\ \A m \in Methods : held.methods[m] # Undescribed => MethodAt(m, held.methods[m])
      /\ held.payload \notin {Undescribed, NoFields} => PayloadAt(held.payload)
    BY <1>6 DEF SaidIn
<1> HIDE DEF PushAt, MethodAt, PayloadAt, PollAt, NoPoll
<1>8. \E q \in DOMAIN Places : those[q].name = c.name /\ SameOnWire(c, those[q])
    <2>1. CASE c.kind = "push"
        <3>1. PICK q \in DOMAIN Places :
                 those[q].name = c.name /\ those[q].kind = "push" /\ Shape(those[q]) = Shape(c)
            <4>1. PushAt(Shape(c))
                BY <1>3, <1>5, <1>7, <2>1
            <4>2. QED
                BY <4>1 DEF PushAt
        <3>2. those[q].method = c.method /\ Start(those[q]) = Start(c)
            BY <1>1, <1>2, <2>1, <3>1, CallAt DEF Start
        <3>3. QED
            BY <1>4, <3>1, <3>2
    <2>2. CASE c.kind \in {"request", "stream"}
        <3>1. PICK q \in DOMAIN Places :
                 those[q].name = c.name /\ those[q].method = c.method /\ Shape(those[q]) = Shape(c)
            <4>1. c.method \in Methods /\ held.methods[c.method] = Shape(c)
                BY <1>2, <1>5, <2>2
            <4>2. MethodAt(c.method, held.methods[c.method])
                BY <1>3, <1>7, <4>1
            <4>3. QED
                BY <4>1, <4>2 DEF MethodAt
        <3>2. Start(those[q]) = Start(c)
            BY <1>1, <1>2, <2>2, <3>1, CallAt DEF Start
        <3>3. QED
            BY <1>4, <3>1, <3>2
    <2>3. CASE c.kind \in {"message", "listener"}
        <3>1. PICK q \in DOMAIN Places :
                 those[q].name = c.name /\ those[q].kind \in {"message", "listener"} /\ Shape(those[q]) = Shape(c)
            <4>1. held.payload \notin {Undescribed, NoFields} /\ held.payload = Shape(c)
                BY <1>3, <1>5, <2>3
            <4>2. PayloadAt(held.payload)
                BY <1>7, <4>1
            <4>3. QED
                BY <4>1, <4>2 DEF PayloadAt
        <3>2. those[q].method = c.method /\ Start(those[q]) = Start(c)
            BY <1>1, <1>2, <2>3, <3>1, CallAt DEF Start
        <3>3. QED
            BY <1>4, <3>1, <3>2
    <2>4. QED
        BY <1>2, <2>1, <2>2, <2>3
<1>9. \E q \in DOMAIN Places : those[q].name = c.name /\ those[q].poll = c.poll
    <2>1. CASE c.poll = ""
        <3>1. NoPoll
            BY <1>5, <1>7, <2>1
        <3>2. QED
            BY <1>8, <2>1, <3>1 DEF NoPoll
    <2>2. CASE c.poll # ""
        <3>1. PollAt(c.poll)
            BY <1>5, <1>7, <2>2
        <3>2. QED
            BY <3>1 DEF PollAt
    <2>3. QED
        BY <2>1, <2>2
<1>10. QED
    BY <1>8, <1>9

-----------------------------------------------------------------------------
(* The wire gate.                                                          *)

\* The contract is the snapshot of the sources it was published for.
WireInv == source \in Sources /\ blessed \in Sources /\ contract = Snapshot(blessed)

LEMMA WireStart == WireInit => WireInv
BY DEF WireInit, WireInv, Sources

LEMMA WireStep == WireInv /\ [WireNext]_wireVars => WireInv'
<1> SUFFICES ASSUME WireInv, [WireNext]_wireVars PROVE WireInv'
    OBVIOUS
<1>1. CASE UNCHANGED wireVars
    BY <1>1 DEF wireVars, WireInv, Snapshot, Sources
<1>2. ASSUME NEW p \in DOMAIN Places, EditCall(p) PROVE WireInv'
    BY <1>2 DEF EditCall, WireInv, Sources
<1>3. CASE EditModule
    BY <1>3 DEF EditModule, WireInv
<1>4. CASE BumpPin
    BY <1>4 DEF BumpPin, WireInv
<1>5. QED
    BY <1>1, <1>2, <1>3, <1>4 DEF WireNext

LEMMA FitsContract == WireInv => PassMeansContract
<1> SUFFICES ASSUME WireInv, WirePasses PROVE Covered(source, blessed) /\ Covered(blessed, source)
    BY DEF PassMeansContract
<1> DEFINE now == Snapshot(source)
<1>1. \A n \in WireNames : now[n] = contract[n]
    BY DEF WirePasses, Removed, Added, Changed
<1>2. \A n \in WireNames : Extract(source, n) = Extract(blessed, n)
    BY <1>1 DEF WireInv, Snapshot
<1>3. QED
    BY <1>2, SameSnapshotCovers DEF WireInv


-----------------------------------------------------------------------------
(* The walk of the surface.                                                *)

WalkShapes == {None, Unknown} \cup {Declaration(f, n) : f \in Files, n \in Names}

\* What an edge brings, by the surfaces that are known.
StarBrings(e, n) == IF e.target \in DOMAIN cache THEN cache[e.target][n] ELSE None
NamedBrings(e) ==
    IF e.target \in DOMAIN cache /\ cache[e.target][e.local] # None THEN cache[e.target][e.local] ELSE Unknown

\* The shape of a name is from one of the first k edges of the file: of its named re-exports
\* if one is among them, else of its stars; and None if they bring nothing.
Brought(f, k, n, shape) ==
    LET stars == {j \in 1..k : Edges(f)[j].kind = "star"}
        named == {j \in 1..k : Edges(f)[j].kind = "named" /\ Edges(f)[j].exported = n}
    IN  IF named # {} THEN \E j \in named : shape = NamedBrings(Edges(f)[j])
        ELSE \/ \E j \in stars : shape = StarBrings(Edges(f)[j], n) /\ shape # None
             \/ shape = None /\ \A j \in stars : StarBrings(Edges(f)[j], n) = None

\* The targets of the first k edges are known.
Known(f, k) == \A j \in 1..k : Edges(f)[j].target \in Files => Edges(f)[j].target \in DOMAIN cache

OnStack == {stack[i].file : i \in DOMAIN stack}

WalkTypeOK ==
    /\ parsed \in [Files -> UNION {Contents[f] : f \in Files}] /\ \A f \in Files : parsed[f] \in Contents[f]
    /\ left \subseteq Files /\ seen \subseteq Files
    /\ DOMAIN cache \subseteq Files /\ \A f \in DOMAIN cache : cache[f] \in [Names -> WalkShapes]
    /\ stack \in Seq([file : Files, next : Nat \ {0}, out : [Names -> WalkShapes]])

\* An activation has followed the edges before `next`; all but the innermost wait for the
\* activation below them.
Frame(f, next, out) ==
    /\ f \notin DOMAIN cache
    /\ next <= Len(Edges(f)) + 1
    /\ Known(f, next - 1)
    /\ \A n \in Names : Brought(f, next - 1, n, out[n])
Waits(f, next, t) == next <= Len(Edges(f)) /\ Edges(f)[next].target = t
StackInv == \A i \in DOMAIN stack :
    /\ Frame(stack[i].file, stack[i].next, stack[i].out)
    /\ i > 1 => Waits(stack[i].file, stack[i].next, stack[i - 1].file)

CacheInv == \A f \in DOMAIN cache :
    /\ Known(f, Len(Edges(f)))
    /\ \A n \in Names : IF n \in parsed[f].locals THEN cache[f][n] = Declaration(f, n)
                        ELSE Brought(f, Len(Edges(f)), n, cache[f][n])

WalkInv ==
    /\ WalkTypeOK
    /\ Acyclic => /\ StackInv /\ CacheInv
                  /\ seen \subseteq DOMAIN cache \cup OnStack
                  /\ Files \ left \subseteq DOMAIN cache \cup OnStack

StarCount(f) == Len(parsed[f].stars)

\* The edges of a file are its stars and then its named re-exports.
LEMMA EdgesOf ==
    ASSUME WalkTypeOK, NEW f \in Files
    PROVE  /\ StarCount(f) \in Nat /\ Len(Edges(f)) \in Nat /\ StarCount(f) <= Len(Edges(f))
           /\ \A j \in 1..Len(Edges(f)) : Edges(f)[j].target \in Files \cup {Nowhere}
           /\ \A j \in 1..Len(Edges(f)) : Edges(f)[j] \in Range(Edges(f))
           /\ \A j \in 1..StarCount(f) : Edges(f)[j].kind = "star" /\ Edges(f)[j] \in Range(parsed[f].stars)
           /\ \A j \in (StarCount(f) + 1)..Len(Edges(f)) :
                 /\ Edges(f)[j].kind = "named" /\ Edges(f)[j].exported \in Names /\ Edges(f)[j].local \in Names
                 /\ Edges(f)[j] \in Range(parsed[f].named)
           /\ \A e \in Range(parsed[f].stars) : \E j \in 1..StarCount(f) : e = Edges(f)[j]
           /\ \A e \in Range(parsed[f].named) : \E j \in (StarCount(f) + 1)..Len(Edges(f)) : e = Edges(f)[j]
<1> DEFINE stars == parsed[f].stars
           named == parsed[f].named
           n == StarCount(f)
           S == StarEdges
           N == NamedEdges
<1>1. parsed[f] \in Contents[f]
    BY DEF WalkTypeOK
<1>2. stars \in Seq(S) /\ named \in Seq(N)
    BY <1>1, ContentsAssumption
<1>3. /\ \A e \in S : e.kind = "star" /\ e.target \in Files \cup {Nowhere}
      /\ \A e \in N : /\ e.kind = "named" /\ e.target \in Files \cup {Nowhere}
                      /\ e.exported \in Names /\ e.local \in Names
    BY DEF Star, Named, StarEdges, NamedEdges
<1> HIDE DEF S, N
<1>4. stars \in Seq(S \cup N) /\ named \in Seq(S \cup N)
    BY <1>2
<1>5. Edges(f) = stars \o named
    BY DEF Edges
<1>6. n = Len(stars)
    BY DEF StarCount
<1> HIDE DEF stars, named, n
<1>7. /\ n \in Nat /\ Len(named) \in Nat /\ DOMAIN stars = 1..n /\ DOMAIN named = 1..Len(named)
      /\ Len(Edges(f)) = n + Len(named) /\ DOMAIN Edges(f) = 1..Len(Edges(f))
      /\ \A j \in 1..n : Edges(f)[j] = stars[j]
      /\ \A j \in (n + 1)..Len(Edges(f)) : Edges(f)[j] = named[j - n] /\ j - n \in 1..Len(named)
    BY <1>6, <1>4, <1>5
<1>8. /\ \A j \in 1..n : stars[j] \in S /\ stars[j] \in Range(stars)
      /\ \A j \in 1..Len(named) : named[j] \in N /\ named[j] \in Range(named)
    <2>1. (\A j \in 1..n : stars[j] \in S) /\ (\A j \in 1..Len(named) : named[j] \in N)
        BY <1>2, <1>6, ElementOfSeq
    <2>2. (\A j \in 1..n : stars[j] \in Range(stars)) /\ (\A j \in 1..Len(named) : named[j] \in Range(named))
        BY <1>7 DEF Range
    <2>3. QED
        BY <2>1, <2>2
<1>9. /\ \A e \in Range(stars) : \E j \in 1..n : e = Edges(f)[j]
      /\ \A e \in Range(named) : \E j \in (n + 1)..Len(Edges(f)) : e = Edges(f)[j]
    <2>1. \A j \in 1..Len(named) : named[j] = Edges(f)[n + j] /\ n + j \in (n + 1)..Len(Edges(f))
        BY <1>7
    <2>2. \A e \in Range(stars) : \E j \in 1..n : e = stars[j]
        BY <1>7 DEF Range
    <2>3. \A e \in Range(named) : \E j \in 1..Len(named) : e = named[j]
        BY <1>7 DEF Range
    <2>4. ASSUME NEW e \in Range(named) PROVE \E j \in (n + 1)..Len(Edges(f)) : e = Edges(f)[j]
        <3>1. PICK j \in 1..Len(named) : e = named[j]
            BY <2>3
        <3>2. QED
            BY <2>1, <3>1
    <2>5. QED
        BY <1>7, <2>2, <2>4
<1>10. \A j \in 1..Len(Edges(f)) : j \in 1..n \/ j \in (n + 1)..Len(Edges(f))
    BY <1>7
<1>11. QED
    <2>1. \A j \in 1..Len(Edges(f)) : Edges(f)[j].target \in Files \cup {Nowhere}
        <3>1. \A j \in 1..n : Edges(f)[j] \in S
            BY <1>7, <1>8
        <3>2. \A j \in (n + 1)..Len(Edges(f)) : Edges(f)[j] \in N
            BY <1>7, <1>8
        <3>3. QED
            BY <1>3, <1>10, <3>1, <3>2
    <2>2. \A j \in 1..Len(Edges(f)) : Edges(f)[j] \in Range(Edges(f))
        BY <1>7 DEF Range
    <2>3. \A j \in 1..n : Edges(f)[j].kind = "star" /\ Edges(f)[j] \in Range(stars)
        BY <1>3, <1>7, <1>8
    <2>4. \A j \in (n + 1)..Len(Edges(f)) :
             /\ Edges(f)[j].kind = "named" /\ Edges(f)[j].exported \in Names /\ Edges(f)[j].local \in Names
             /\ Edges(f)[j] \in Range(named)
        BY <1>3, <1>7, <1>8
    <2>5. QED
        BY <1>7, <1>9, <2>1, <2>2, <2>3, <2>4 DEF stars, named, n

\* What an activation has after one more edge.
LEMMA FollowBrings ==
    ASSUME WalkTypeOK, NEW f \in Files, NEW k \in Nat, k < Len(Edges(f)), NEW out \in [Names -> WalkShapes],
           \A n \in Names : Brought(f, k, n, out[n])
    PROVE  LET edge == Edges(f)[k + 1]
               more == Follow(out, edge, Answer(edge.target))
           IN  more \in [Names -> WalkShapes] /\ \A n \in Names : Brought(f, k + 1, n, more[n])
<1> DEFINE edge == Edges(f)[k + 1]
           surface == Answer(edge.target)
           more == Follow(out, edge, surface)
           s == StarCount(f)
<1>1. /\ s \in Nat /\ Len(Edges(f)) \in Nat /\ s <= Len(Edges(f))
      /\ \A j \in 1..s : Edges(f)[j].kind = "star"
      /\ \A j \in (s + 1)..Len(Edges(f)) :
            Edges(f)[j].kind = "named" /\ Edges(f)[j].exported \in Names /\ Edges(f)[j].local \in Names
    BY EdgesOf
<1>2. k + 1 \in 1..Len(Edges(f)) /\ \A j \in 1..(k + 1) : j \in 1..k \/ j = k + 1
    BY <1>1
<1>3. surface \in [Names -> WalkShapes] /\ \A n \in Names : surface[n] = StarBrings(edge, n)
    BY DEF Answer, Nothing, StarBrings, WalkTypeOK, WalkShapes
<1>4. CASE edge.kind = "star"
    <2>1. more = [n \in Names |-> IF surface[n] # None THEN surface[n] ELSE out[n]]
        BY <1>4 DEF Follow
    <2>2. more \in [Names -> WalkShapes]
        BY <1>3, <2>1
    <2>3. \A j \in 1..(k + 1) : Edges(f)[j].kind = "star"
        BY <1>1, <1>2, <1>4
    <2>4. ASSUME NEW n \in Names PROVE Brought(f, k + 1, n, more[n])
        <3>1. more[n] = IF StarBrings(edge, n) # None THEN StarBrings(edge, n) ELSE out[n]
            BY <1>3, <2>1
        <3>2. \/ \E j \in 1..k : out[n] = StarBrings(Edges(f)[j], n) /\ out[n] # None
              \/ out[n] = None /\ \A j \in 1..k : StarBrings(Edges(f)[j], n) = None
            <4>1. Brought(f, k, n, out[n]) /\ \A j \in 1..k : Edges(f)[j].kind = "star"
                BY <1>2, <2>3
            <4>2. QED
                BY <4>1 DEF Brought
        <3>3. \/ \E j \in 1..(k + 1) : more[n] = StarBrings(Edges(f)[j], n) /\ more[n] # None
              \/ more[n] = None /\ \A j \in 1..(k + 1) : StarBrings(Edges(f)[j], n) = None
            BY <1>2, <3>1, <3>2
        <3>4. QED
            BY <2>3, <3>3 DEF Brought
    <2>5. QED
        BY <2>2, <2>4
<1>5. CASE edge.kind # "star"
    <2>1. edge.kind = "named" /\ edge.exported \in Names /\ edge.local \in Names
        BY <1>1, <1>2, <1>5
    <2>2. more = [out EXCEPT ![edge.exported] = NamedBrings(edge)]
        BY <1>3, <1>5, <2>1 DEF Follow, NamedBrings, StarBrings
    <2>3. NamedBrings(edge) \in WalkShapes
        BY <2>1 DEF NamedBrings, WalkTypeOK, WalkShapes
    <2>4. ASSUME NEW n \in Names PROVE Brought(f, k + 1, n, more[n])
        <3>1. CASE n = edge.exported
            <4>1. more[n] = NamedBrings(edge)
                BY <2>2, <3>1
            <4>2. QED
                BY <1>2, <2>1, <3>1, <4>1 DEF Brought
        <3>2. CASE n # edge.exported
            <4>1. more[n] = out[n]
                BY <2>2, <3>2
            <4>2. /\ {j \in 1..(k + 1) : Edges(f)[j].kind = "star"} = {j \in 1..k : Edges(f)[j].kind = "star"}
                  /\ {j \in 1..(k + 1) : Edges(f)[j].kind = "named" /\ Edges(f)[j].exported = n}
                     = {j \in 1..k : Edges(f)[j].kind = "named" /\ Edges(f)[j].exported = n}
                BY <1>2, <2>1, <3>2
            <4>3. QED
                BY <4>1, <4>2 DEF Brought
        <3>3. QED
            BY <3>1, <3>2
    <2>5. QED
        BY <2>2, <2>3, <2>4
<1>6. QED
    BY <1>4, <1>5

\* A surface that is kept later takes nothing back.
LEMMA BroughtStays ==
    ASSUME WalkTypeOK, NEW f \in Files, NEW k \in Nat, k <= Len(Edges(f)), Known(f, k), parsed' = parsed,
           DOMAIN cache \subseteq DOMAIN cache', DOMAIN cache' \subseteq Files,
           \A g \in DOMAIN cache : cache'[g] = cache[g]
    PROVE  /\ Edges(f)' = Edges(f) /\ Known(f, k)'
           /\ \A n, shape : Brought(f, k, n, shape) => Brought(f, k, n, shape)'
<1>1. Edges(f)' = Edges(f)
    BY DEF Edges
<1>2. \A j \in 1..k : j \in 1..Len(Edges(f)) /\ Edges(f)[j].target \in Files \cup {Nowhere}
    BY EdgesOf
<1>3. \A j \in 1..k : Edges(f)[j].target \in DOMAIN cache' => Edges(f)[j].target \in DOMAIN cache
    BY <1>2, ContentsAssumption DEF Known
<1>4. ASSUME NEW j \in 1..k, NEW n
      PROVE  /\ StarBrings(Edges(f)[j], n)' = StarBrings(Edges(f)[j], n)
             /\ NamedBrings(Edges(f)[j])' = NamedBrings(Edges(f)[j])
    BY <1>1, <1>3 DEF StarBrings, NamedBrings
<1>5. Known(f, k)'
    BY <1>1 DEF Known
<1>6. ASSUME NEW n, NEW shape, Brought(f, k, n, shape)
      PROVE  Brought(f, k, n, shape)'
    BY <1>1, <1>4, <1>6 DEF Brought
<1>7. QED
    BY <1>1, <1>5, <1>6

LEMMA FollowType ==
    ASSUME WalkTypeOK, NEW f \in Files, NEW j \in Nat \ {0}, j <= Len(Edges(f)), NEW out \in [Names -> WalkShapes]
    PROVE  Follow(out, Edges(f)[j], Answer(Edges(f)[j].target)) \in [Names -> WalkShapes]
<1> DEFINE edge == Edges(f)[j]
           surface == Answer(edge.target)
<1>1. surface \in [Names -> WalkShapes]
    BY DEF Answer, Nothing, WalkTypeOK, WalkShapes
<1>2. edge.kind = "star" \/ (edge.kind = "named" /\ edge.exported \in Names /\ edge.local \in Names)
    <2>1. \A i \in 1..Len(Edges(f)) : i \in 1..StarCount(f) \/ i \in (StarCount(f) + 1)..Len(Edges(f))
        BY EdgesOf
    <2>2. j \in 1..Len(Edges(f))
        BY EdgesOf
    <2>3. QED
        BY <2>1, <2>2, EdgesOf
<1>3. Unknown \in WalkShapes
    BY DEF WalkShapes
<1>4. QED
    BY <1>1, <1>2, <1>3 DEF Follow

Activations == [file : Files, next : Nat \ {0}, out : [Names -> WalkShapes]]

\* An element put before a sequence, and the first one taken from it.
LEMMA PutBefore ==
    ASSUME NEW S, NEW s \in Seq(S), NEW x \in S
    PROVE  /\ <<x>> \o s \in Seq(S) /\ Len(<<x>> \o s) = Len(s) + 1 /\ Len(s) \in Nat
           /\ (<<x>> \o s)[1] = x
           /\ \A i \in 2..(Len(s) + 1) : (<<x>> \o s)[i] = s[i - 1]
<1>1. <<x>> \in Seq(S) /\ Len(<<x>>) = 1 /\ <<x>>[1] = x
    OBVIOUS
<1> DEFINE one == <<x>>
<1> HIDE DEF one
<1>2. /\ one \o s \in Seq(S) /\ Len(one \o s) = Len(s) + 1 /\ Len(s) \in Nat
      /\ (one \o s)[1] = x
      /\ \A i \in 2..(Len(s) + 1) : (one \o s)[i] = s[i - 1]
    BY <1>1 DEF one
<1>3. QED
    BY <1>2 DEF one

LEMMA TakenOff ==
    ASSUME NEW S, NEW s \in Seq(S), s # <<>>
    PROVE  /\ Head(s) = s[1] /\ s[1] \in S /\ Tail(s) \in Seq(S)
           /\ Len(s) \in Nat \ {0} /\ Len(Tail(s)) = Len(s) - 1
           /\ \A i \in 1..(Len(s) - 1) : Tail(s)[i] = s[i + 1]
BY HeadTailProperties, EmptySeq, ElementOfSeq

\* Nothing is brought by no edges.
LEMMA NothingYet ==
    ASSUME NEW f, NEW n
    PROVE  Known(f, 0) /\ Brought(f, 0, n, None)
BY DEF Known, Brought

LEMMA NewFrame ==
    ASSUME WalkTypeOK, NEW f \in Files \ DOMAIN cache
    PROVE  Frame(f, 1, Nothing)
<1>1. Len(Edges(f)) \in Nat
    BY EdgesOf
<1>2. \A n \in Names : Nothing[n] = None
    BY DEF Nothing
<1>3. QED
    BY <1>1, <1>2, NothingYet DEF Frame

\* The targets of the activation in progress are not on the stack: what is called waits for
\* a file of a lower rank.
LEMMA StackRanks ==
    ASSUME WalkTypeOK, StackInv, NEW rank \in [Files -> Nat],
           \A f \in Files : \A t \in Targets(f) : rank[t] < rank[f]
    PROVE  \A i \in DOMAIN stack : i > 1 => rank[stack[1].file] < rank[stack[i].file]
<1>1. stack \in Seq(Activations)
    BY DEF WalkTypeOK, Activations
<1>2. /\ Len(stack) \in Nat /\ DOMAIN stack = 1..Len(stack)
      /\ \A i \in 1..Len(stack) : stack[i].file \in Files /\ stack[i].next \in Nat \ {0} /\ rank[stack[i].file] \in Nat
    <2>1. Len(stack) \in Nat /\ DOMAIN stack = 1..Len(stack) /\ \A i \in 1..Len(stack) : stack[i] \in Activations
        BY <1>1, ElementOfSeq, LenProperties
    <2>2. QED
        BY <2>1 DEF Activations
<1>3. \A i \in 1..Len(stack) : i > 1 => rank[stack[i - 1].file] < rank[stack[i].file]
    <2> SUFFICES ASSUME NEW i \in 1..Len(stack), i > 1 PROVE rank[stack[i - 1].file] < rank[stack[i].file]
        OBVIOUS
    <2> DEFINE f == stack[i].file
    <2>1. stack[i].next <= Len(Edges(f)) /\ Edges(f)[stack[i].next].target = stack[i - 1].file
        BY <1>2 DEF StackInv, Waits
    <2>2. Edges(f)[stack[i].next] \in Range(Edges(f)) /\ stack[i - 1].file \in Files
        BY <1>2, <2>1, EdgesOf
    <2>3. stack[i - 1].file \in Targets(f)
        BY <2>1, <2>2 DEF Targets
    <2>4. QED
        BY <1>2, <2>3
<1> DEFINE T == {i \in 2..Len(stack) : ~(rank[stack[1].file] < rank[stack[i].file])}
<1>4. T \subseteq Nat
    BY <1>2
<1>5. ASSUME T # {} PROVE FALSE
    <2> HIDE DEF T
    <2>1. PICK i \in T : \A j \in T : i <= j
        BY <1>4, <1>5, LeastNatural
    <2> USE DEF T
    <2>2. i \in 1..Len(stack) /\ i > 1 /\ i - 1 \in 1..Len(stack)
        BY <1>2, <2>1
    <2>3. i - 1 = 1 \/ rank[stack[1].file] < rank[stack[i - 1].file]
        <3>1. i - 1 \notin T
            BY <1>2, <2>1, <2>2
        <3>2. QED
            BY <1>2, <2>2, <3>1
    <2>4. rank[stack[i - 1].file] < rank[stack[i].file]
        BY <1>3, <2>2
    <2>5. rank[stack[1].file] < rank[stack[i].file]
        BY <1>2, <2>2, <2>3, <2>4
    <2>6. QED
        BY <2>1, <2>5
<1>6. QED
    BY <1>2, <1>5

LEMMA WalkStart == WalkInit => WalkInv
<1> SUFFICES ASSUME WalkInit PROVE WalkInv
    OBVIOUS
<1>1. left = Files /\ cache = <<>> /\ seen = {} /\ stack = <<>> /\ DOMAIN cache = {} /\ DOMAIN stack = {}
    BY DEF WalkInit
<1>2. WalkTypeOK
    BY <1>1 DEF WalkTypeOK, WalkInit
<1>3. StackInv /\ CacheInv
    BY <1>1 DEF StackInv, CacheInv
<1>4. QED
    BY <1>1, <1>2, <1>3 DEF WalkInv

\* A call for a file: its activation goes on the stack.
LEMMA NewActivation ==
    ASSUME NEW f \in Files
    PROVE  /\ Activation(f) \in Activations
           /\ Activation(f).file = f /\ Activation(f).next = 1 /\ Activation(f).out = Nothing
BY DEF Activation, Activations, Nothing, WalkShapes

LEMMA WalkSame ==
    ASSUME UNCHANGED <<parsed, cache>>
    PROVE  /\ \A f : Edges(f)' = Edges(f) /\ \A k : Known(f, k)' = Known(f, k)
           /\ \A f, k, n, shape : Brought(f, k, n, shape)' = Brought(f, k, n, shape)
           /\ \A f, next, out : Frame(f, next, out)' = Frame(f, next, out)
           /\ \A f, next, t : Waits(f, next, t)' = Waits(f, next, t)
           /\ CacheInv' = CacheInv /\ Acyclic' = Acyclic
<1>1. \A f : Edges(f)' = Edges(f)
    BY DEF Edges
<1>2. \A f : Targets(f)' = Targets(f)
    BY <1>1 DEF Targets
<1>3. \A f, k : Known(f, k)' = Known(f, k)
    BY <1>1 DEF Known
<1>4. \A e, n : StarBrings(e, n)' = StarBrings(e, n) /\ NamedBrings(e)' = NamedBrings(e)
    BY DEF StarBrings, NamedBrings
<1>5. \A f, k, n, shape : Brought(f, k, n, shape)' = Brought(f, k, n, shape)
    BY <1>1, <1>4 DEF Brought, StarBrings, NamedBrings
<1>6. CacheInv' = CacheInv
    BY <1>1, <1>3, <1>5 DEF CacheInv
<1>7. Acyclic' = Acyclic
    BY <1>2 DEF Acyclic
<1>8. \A f, next, out : Frame(f, next, out)' = Frame(f, next, out)
    BY <1>1, <1>3, <1>5 DEF Frame
<1>9. \A f, next, t : Waits(f, next, t)' = Waits(f, next, t)
    BY <1>1 DEF Waits
<1>10. QED
    BY <1>1, <1>3, <1>5, <1>6, <1>7, <1>8, <1>9

LEMMA AskStep ==
    ASSUME WalkInv, NEW f \in Files, Ask(f)
    PROVE  WalkInv'
<1>1. stack = <<>> /\ f \in left /\ left' = left \ {f} /\ UNCHANGED <<parsed, cache>> /\ OnStack = {}
    BY DEF Ask, OnStack
<1>2. CASE f \in DOMAIN cache
    <2>1. UNCHANGED <<seen, stack>> /\ OnStack' = OnStack
        BY <1>1, <1>2 DEF Ask, OnStack
    <2>2. WalkTypeOK'
        BY <1>1, <2>1 DEF WalkInv, WalkTypeOK
    <2>3. StackInv'
        BY <1>1, <2>1 DEF StackInv
    <2>4. QED
        BY <1>1, <1>2, <2>1, <2>2, <2>3, WalkSame DEF WalkInv
<1>3. CASE f \notin DOMAIN cache
    <2>1. seen' = {f} /\ stack' = <<Activation(f)>>
        BY <1>3 DEF Ask
    <2>2. stack' \in Seq(Activations) /\ DOMAIN stack' = {1} /\ stack'[1] = Activation(f)
        BY <2>1, NewActivation
    <2>3. WalkTypeOK'
        BY <1>1, <2>1, <2>2 DEF WalkInv, WalkTypeOK, Activations
    <2>4. OnStack' = {f}
        BY <2>2, NewActivation DEF OnStack
    <2>5. StackInv'
        <3>1. Frame(f, 1, Nothing)
            BY <1>3, NewFrame DEF WalkInv
        <3>2. Frame(f, 1, Nothing)'
            BY <1>1, <3>1, WalkSame DEF Nothing
        <3>3. QED
            BY <2>2, <3>2, NewActivation DEF StackInv
    <2>6. QED
        BY <1>1, <2>1, <2>3, <2>4, <2>5, WalkSame DEF WalkInv
<1>4. QED
    BY <1>2, <1>3

\* The frames of the stack, as the steps find them.
LEMMA StackIs ==
    ASSUME WalkTypeOK, stack # <<>>
    PROVE  /\ stack \in Seq(Activations) /\ Len(stack) \in Nat \ {0} /\ DOMAIN stack = 1..Len(stack)
           /\ \A i \in 1..Len(stack) : /\ stack[i] \in Activations /\ stack[i].file \in Files
                                       /\ stack[i].next \in Nat \ {0} /\ stack[i].out \in [Names -> WalkShapes]
           /\ Head(stack) = stack[1] /\ Tail(stack) \in Seq(Activations) /\ Len(Tail(stack)) = Len(stack) - 1
           /\ \A i \in 1..(Len(stack) - 1) : Tail(stack)[i] = stack[i + 1]
<1>1. stack \in Seq(Activations)
    BY DEF WalkTypeOK, Activations
<1>2. Len(stack) \in Nat /\ DOMAIN stack = 1..Len(stack) /\ \A i \in 1..Len(stack) : stack[i] \in Activations
    BY <1>1, ElementOfSeq, LenProperties
<1>3. \A a \in Activations : a.file \in Files /\ a.next \in Nat \ {0} /\ a.out \in [Names -> WalkShapes]
    BY DEF Activations
<1>4. QED
    BY <1>1, <1>2, <1>3, TakenOff

LEMMA CallStep ==
    ASSUME WalkInv, FollowEdge, seen' # seen
    PROVE  WalkInv'
<1> DEFINE top == Head(stack)
<1>1. PICK t \in Files \ (DOMAIN cache \cup seen) :
         /\ stack # <<>> /\ top.next <= Len(Edges(top.file)) /\ UNCHANGED <<parsed, left, cache>>
         /\ t = Edges(top.file)[top.next].target
         /\ seen' = seen \cup {t} /\ stack' = <<Activation(t)>> \o stack
    BY DEF FollowEdge
<1>2. WalkTypeOK
    BY DEF WalkInv
<1> DEFINE new == Activation(t)
<1>3. new \in Activations /\ new.file = t /\ new.next = 1 /\ new.out = Nothing
    BY NewActivation
<1>4. stack' = <<new>> \o stack
    BY <1>1
<1> HIDE DEF new
<1>5. /\ stack \in Seq(Activations) /\ Len(stack) \in Nat \ {0} /\ DOMAIN stack = 1..Len(stack) /\ top = stack[1]
    BY <1>1, <1>2, StackIs
<1>6. /\ stack' \in Seq(Activations) /\ Len(stack') = Len(stack) + 1
      /\ stack'[1] = new
      /\ \A i \in 2..(Len(stack) + 1) : stack'[i] = stack[i - 1]
    BY <1>5, <1>3, <1>4, PutBefore
<1>7. DOMAIN stack' = 1..(Len(stack) + 1)
    BY <1>5, <1>6, LenProperties
<1>8. WalkTypeOK'
    <2>1. seen' \subseteq Files
        BY <1>1, <1>2 DEF WalkTypeOK
    <2>2. QED
        BY <1>1, <1>2, <1>6, <2>1 DEF WalkTypeOK, Activations
<1>9. /\ \A f, next, out : Frame(f, next, out)' = Frame(f, next, out)
      /\ \A f, next, u : Waits(f, next, u)' = Waits(f, next, u)
      /\ CacheInv' = CacheInv /\ Acyclic' = Acyclic
    BY <1>1, WalkSame
<1>10. ASSUME Acyclic PROVE StackInv'
    <2>1. StackInv
        BY <1>10 DEF WalkInv
    <2>2. Frame(t, 1, Nothing)'
        <3>1. Frame(t, 1, Nothing)
            BY <1>1, <1>2, NewFrame
        <3>2. QED
            BY <1>9, <3>1 DEF Nothing
    <2>3. ASSUME NEW i \in 1..Len(stack)
          PROVE  /\ Frame(stack[i].file, stack[i].next, stack[i].out)
                 /\ i > 1 => Waits(stack[i].file, stack[i].next, stack[i - 1].file)
        BY <1>5, <2>1 DEF StackInv
    <2>4. Waits(stack[1].file, stack[1].next, t)
        BY <1>1, <1>5 DEF Waits
    <2>5. ASSUME NEW i \in 1..(Len(stack) + 1)
          PROVE  /\ Frame(stack[i].file, stack[i].next, stack[i].out)'
                 /\ i > 1 => Waits(stack[i].file, stack[i].next, stack[i - 1].file)'
        <3>1. CASE i = 1
            BY <1>6, <1>3, <2>2, <3>1
        <3>2. CASE i = 2
            <4>1. stack'[2] = stack[1] /\ stack'[1].file = t /\ 1 \in 1..Len(stack)
                BY <1>5, <1>6, <1>3
            <4>2. Frame(stack[1].file, stack[1].next, stack[1].out) /\ Waits(stack[1].file, stack[1].next, t)
                BY <2>3, <2>4, <4>1
            <4>3. QED
                BY <1>9, <3>2, <4>1, <4>2
        <3>3. CASE i > 2
            <4>1. stack'[i] = stack[i - 1] /\ stack'[i - 1] = stack[i - 2] /\ i - 1 \in 1..Len(stack) /\ i - 1 > 1 /\ i - 1 - 1 = i - 2
                BY <1>5, <1>6, <3>3
            <4>2. /\ Frame(stack[i - 1].file, stack[i - 1].next, stack[i - 1].out)
                  /\ Waits(stack[i - 1].file, stack[i - 1].next, stack[i - 2].file)
                BY <2>3, <4>1
            <4>3. QED
                BY <1>9, <4>1, <4>2
        <3>4. QED
            BY <1>5, <3>1, <3>2, <3>3
    <2>6. QED
        BY <1>7, <2>5 DEF StackInv
<1>11. OnStack \subseteq OnStack' /\ t \in OnStack'
    <2>1. ASSUME NEW i \in 1..Len(stack) PROVE stack[i].file \in OnStack'
        <3>1. i + 1 \in DOMAIN stack' /\ stack'[i + 1] = stack[i]
            BY <1>5, <1>6, <1>7
        <3>2. QED
            BY <3>1 DEF OnStack
    <2>2. 1 \in DOMAIN stack' /\ stack'[1].file = t
        BY <1>5, <1>6, <1>7, <1>3
    <2>3. OnStack = {stack[i].file : i \in 1..Len(stack)}
        BY <1>5 DEF OnStack
    <2>4. t \in OnStack'
        BY <2>2 DEF OnStack
    <2>5. QED
        BY <2>1, <2>3, <2>4
<1>12. QED
    BY <1>1, <1>8, <1>10, <1>11, <1>9 DEF WalkInv

LEMMA ReturnedStep ==
    ASSUME WalkInv, FollowEdge, seen' = seen
    PROVE  WalkInv'
<1> DEFINE top == Head(stack)
           f == top.file
           edge == Edges(f)[top.next]
           out == Follow(top.out, edge, Answer(edge.target))
           new == [top EXCEPT !.next = top.next + 1, !.out = out]
<1>1. /\ stack # <<>> /\ top.next <= Len(Edges(f)) /\ UNCHANGED <<parsed, left, cache, seen>>
      /\ edge.target \notin Files \ (DOMAIN cache \cup seen)
      /\ stack' = <<new>> \o Tail(stack)
    <2>1. stack # <<>> /\ top.next <= Len(Edges(f)) /\ UNCHANGED <<parsed, left, cache, seen>>
        BY DEF FollowEdge
    <2>2. edge.target \notin Files \ (DOMAIN cache \cup seen)
        BY DEF FollowEdge
    <2>3. QED
        BY <2>1, <2>2 DEF FollowEdge
<1>2. WalkTypeOK
    BY DEF WalkInv
<1>3. /\ stack \in Seq(Activations) /\ Len(stack) \in Nat \ {0} /\ DOMAIN stack = 1..Len(stack) /\ top = stack[1]
      /\ Tail(stack) \in Seq(Activations) /\ Len(Tail(stack)) = Len(stack) - 1
      /\ \A i \in 1..(Len(stack) - 1) : Tail(stack)[i] = stack[i + 1]
      /\ top \in Activations /\ f \in Files /\ top.next \in Nat \ {0} /\ top.out \in [Names -> WalkShapes]
    BY <1>1, <1>2, StackIs
<1> HIDE DEF top
<1>4. f \in Files /\ Edges(f)[top.next] \in Range(Edges(f)) /\ edge.target \in Files \cup {Nowhere}
    BY <1>1, <1>2, <1>3, EdgesOf
<1>5. ASSUME NEW k \in Nat, k = top.next - 1, \A n \in Names : Brought(f, k, n, top.out[n])
      PROVE  out \in [Names -> WalkShapes] /\ \A n \in Names : Brought(f, top.next, n, out[n])
    <2>1. k < Len(Edges(f)) /\ k + 1 = top.next
        BY <1>1, <1>2, <1>3, <1>5, EdgesOf
    <2>2. Edges(f)[k + 1] = edge /\ Follow(top.out, edge, Answer(edge.target)) = out
        BY <2>1
    <2>3. f \in Files /\ top.out \in [Names -> WalkShapes]
        BY <1>3
    <2> HIDE DEF f, edge, out
    <2>4. out \in [Names -> WalkShapes] /\ \A n \in Names : Brought(f, k + 1, n, out[n])
        BY <1>2, <1>5, <2>1, <2>2, <2>3, FollowBrings
    <2>5. QED
        BY <2>1, <2>4
<1>6. out \in [Names -> WalkShapes]
    BY <1>1, <1>2, <1>3, FollowType
<1> HIDE DEF out
<1>7. new \in Activations /\ new.file = f /\ new.next = top.next + 1 /\ new.out = out
    <2>1. top.next + 1 \in Nat \ {0}
        BY <1>3
    <2>2. PICK next \in Nat \ {0} : next = top.next + 1
        BY <2>1
    <2>3. new = [top EXCEPT !.next = next, !.out = out]
        BY <2>2
    <2> HIDE DEF new
    <2>4. new \in Activations /\ new.file = f /\ new.next = next /\ new.out = out
        BY <1>3, <1>6, <2>3 DEF Activations
    <2>5. QED
        BY <2>2, <2>4
<1> HIDE DEF new
<1>8. /\ stack' \in Seq(Activations) /\ Len(stack') = Len(stack)
      /\ stack'[1] = new
      /\ \A i \in 2..Len(stack) : stack'[i] = stack[i]
    <2>1. /\ stack' \in Seq(Activations) /\ Len(stack') = Len(Tail(stack)) + 1 /\ stack'[1] = new
          /\ \A i \in 2..(Len(Tail(stack)) + 1) : stack'[i] = Tail(stack)[i - 1]
        BY <1>1, <1>3, <1>7, PutBefore
    <2>2. \A i \in 2..Len(stack) : i - 1 \in 1..(Len(stack) - 1) /\ (i - 1) + 1 = i
        BY <1>3
    <2>3. QED
        BY <1>3, <2>1, <2>2
<1>9. DOMAIN stack' = 1..Len(stack)
    BY <1>3, <1>8, LenProperties
<1>10. WalkTypeOK'
    BY <1>1, <1>2, <1>8 DEF WalkTypeOK, Activations, WalkShapes
<1>11. OnStack' = OnStack
    <2>1. \A i \in 1..Len(stack) : stack'[i].file = stack[i].file
        BY <1>3, <1>7, <1>8
    <2>2. QED
        BY <1>3, <1>9, <2>1 DEF OnStack
<1>12. ASSUME Acyclic PROVE StackInv'
    <2>1. StackInv /\ seen \subseteq DOMAIN cache \cup OnStack
        BY <1>12 DEF WalkInv
    <2>2. edge.target \in Files => edge.target \in DOMAIN cache
        <3>1. PICK rank \in [Files -> 1..Cardinality(Files)] : \A g \in Files : \A t \in Targets(g) : rank[t] < rank[g]
            BY <1>12 DEF Acyclic
        <3>2. rank \in [Files -> Nat]
            BY <3>1, FS_CardinalityType, ContentsAssumption
        <3>3. \A i \in DOMAIN stack : i > 1 => rank[stack[1].file] < rank[stack[i].file]
            BY <1>2, <2>1, <3>1, <3>2, StackRanks
        <3>4. ASSUME edge.target \in Files PROVE edge.target \notin OnStack
            <4>1. edge.target \in Targets(f) /\ rank[edge.target] < rank[f]
                BY <1>4, <3>1, <3>4 DEF Targets
            <4>2. \A i \in 1..Len(stack) : /\ rank[stack[i].file] \in Nat
                                           /\ (i = 1 \/ rank[f] < rank[stack[i].file])
                <5> SUFFICES ASSUME NEW i \in 1..Len(stack)
                             PROVE  rank[stack[i].file] \in Nat /\ (i = 1 \/ rank[f] < rank[stack[i].file])
                    OBVIOUS
                <5>1. stack[i].file \in Files /\ i \in DOMAIN stack /\ f = stack[1].file
                    BY <1>1, <1>2, <1>3, StackIs
                <5>2. i = 1 \/ i > 1
                    BY <1>3
                <5>3. QED
                    BY <3>2, <3>3, <5>1, <5>2
            <4>3. \A i \in 1..Len(stack) : stack[i].file # edge.target
                BY <1>3, <1>4, <3>2, <3>4, <4>1, <4>2
            <4>4. QED
                BY <1>3, <4>3 DEF OnStack
        <3>5. QED
            BY <1>1, <2>1, <3>4
    <2>3. ASSUME NEW i \in 1..Len(stack)
          PROVE  /\ Frame(stack[i].file, stack[i].next, stack[i].out)
                 /\ i > 1 => Waits(stack[i].file, stack[i].next, stack[i - 1].file)
        BY <1>3, <2>1 DEF StackInv
    <2>4. Frame(f, top.next + 1, out)
        <3>1. Frame(f, top.next, top.out)
            BY <1>3, <2>3
        <3>2. top.next + 1 <= Len(Edges(f)) + 1
            BY <1>1, <1>2, <1>3, EdgesOf
        <3>3. Known(f, top.next)
            BY <1>3, <2>2, <3>1 DEF Known, Frame
        <3>4. top.next - 1 \in Nat /\ \A n \in Names : Brought(f, top.next - 1, n, top.out[n])
            BY <1>3, <3>1 DEF Frame
        <3>5. \A n \in Names : Brought(f, top.next, n, out[n])
            BY <1>5, <3>4
        <3>6. (top.next + 1) - 1 = top.next
            BY <1>3
        <3>7. QED
            BY <3>1, <3>2, <3>3, <3>5, <3>6 DEF Frame
    <2>5. ASSUME NEW i \in 1..Len(stack)
          PROVE  /\ Frame(stack[i].file, stack[i].next, stack[i].out)'
                 /\ i > 1 => Waits(stack[i].file, stack[i].next, stack[i - 1].file)'
        <3>1. CASE i = 1
            BY <1>1, <1>7, <1>8, <2>4, <3>1, WalkSame
        <3>2. CASE i > 1
            <4>1. stack'[i] = stack[i] /\ stack'[i - 1].file = stack[i - 1].file
                BY <1>3, <1>7, <1>8, <3>2
            <4>2. QED
                BY <1>1, <2>3, <3>2, <4>1, WalkSame
        <3>3. QED
            BY <1>3, <3>1, <3>2
    <2>6. QED
        BY <1>9, <2>5 DEF StackInv
<1>13. QED
    BY <1>1, <1>10, <1>11, <1>12, WalkSame DEF WalkInv

\* What is kept when the activation returns.
LEMMA ReturnIs ==
    ASSUME WalkTypeOK, Return
    PROVE  LET f == stack[1].file
               surface == Exported(f, stack[1].out)
           IN  /\ stack # <<>> /\ f \in Files /\ stack[1].next > Len(Edges(f)) /\ UNCHANGED <<parsed, left, seen>>
               /\ DOMAIN cache' = DOMAIN cache \cup {f} /\ cache'[f] = surface
               /\ surface \in [Names -> WalkShapes]
               /\ \A n \in Names : surface[n] = IF n \in parsed[f].locals THEN Declaration(f, n) ELSE stack[1].out[n]
               /\ \A g \in DOMAIN cache : g # f => cache'[g] = cache[g]
               /\ stack' = Tail(stack)
<1> DEFINE f == stack[1].file
           surface == Exported(f, stack[1].out)
<1>1. stack # <<>>
    BY DEF Return
<1>2. Head(stack) = stack[1] /\ f \in Files /\ stack[1].out \in [Names -> WalkShapes]
    <2>1. 1 \in 1..Len(stack)
        BY <1>1, StackIs
    <2>2. QED
        BY <1>1, <2>1, StackIs
<1>3. /\ stack[1].next > Len(Edges(f)) /\ UNCHANGED <<parsed, left, seen>> /\ stack' = Tail(stack)
      /\ cache' = [g \in DOMAIN cache \cup {f} |-> IF g = f THEN surface ELSE cache[g]]
    BY <1>2 DEF Return
<1>4. /\ surface \in [Names -> WalkShapes]
      /\ \A n \in Names : surface[n] = IF n \in parsed[f].locals THEN Declaration(f, n) ELSE stack[1].out[n]
    BY <1>2 DEF Exported, WalkShapes
<1> HIDE DEF surface
<1>5. /\ DOMAIN cache' = DOMAIN cache \cup {f} /\ cache'[f] = surface
      /\ \A g \in DOMAIN cache : g # f => cache'[g] = cache[g]
    BY <1>3
<1>6. QED
    BY <1>1, <1>2, <1>3, <1>4, <1>5 DEF surface

LEMMA ReturnStep ==
    ASSUME WalkInv, Return
    PROVE  WalkInv'
<1>1. WalkTypeOK
    BY DEF WalkInv
<1>2. PICK f, surface :
         /\ f = stack[1].file
         /\ stack # <<>> /\ f \in Files /\ stack[1].next > Len(Edges(f)) /\ UNCHANGED <<parsed, left, seen>>
         /\ DOMAIN cache' = DOMAIN cache \cup {f} /\ cache'[f] = surface
         /\ surface \in [Names -> WalkShapes]
         /\ \A n \in Names : surface[n] = IF n \in parsed[f].locals THEN Declaration(f, n) ELSE stack[1].out[n]
         /\ \A g \in DOMAIN cache : g # f => cache'[g] = cache[g]
         /\ stack' = Tail(stack)
    BY <1>1, ReturnIs
<1>3. /\ Len(stack) \in Nat \ {0} /\ DOMAIN stack = 1..Len(stack)
      /\ Tail(stack) \in Seq(Activations) /\ Len(Tail(stack)) = Len(stack) - 1
      /\ \A i \in 1..(Len(stack) - 1) : Tail(stack)[i] = stack[i + 1]
      /\ \A i \in 1..Len(stack) : stack[i].file \in Files /\ stack[i].next \in Nat \ {0}
    BY <1>1, <1>2, StackIs
<1>4. /\ stack' \in Seq(Activations) /\ DOMAIN stack' = 1..(Len(stack) - 1)
      /\ \A i \in 1..(Len(stack) - 1) : stack'[i] = stack[i + 1]
    BY <1>2, <1>3, LenProperties
<1>5. WalkTypeOK'
    <2>1. /\ parsed' \in [Files -> UNION {Contents[g] : g \in Files}] /\ \A g \in Files : parsed'[g] \in Contents[g]
          /\ left' \subseteq Files /\ seen' \subseteq Files /\ DOMAIN cache' \subseteq Files
        BY <1>1, <1>2 DEF WalkTypeOK
    <2>2. \A g \in DOMAIN cache' : cache'[g] \in [Names -> WalkShapes]
        BY <1>1, <1>2 DEF WalkTypeOK
    <2>3. stack' \in Seq([file : Files, next : Nat \ {0}, out : [Names -> WalkShapes]])
        BY <1>4 DEF Activations
    <2>4. QED
        BY <2>1, <2>2, <2>3 DEF WalkTypeOK, WalkShapes
<1>6. OnStack \subseteq OnStack' \cup {f}
    <2>1. ASSUME NEW i \in 1..Len(stack) PROVE stack[i].file \in OnStack' \cup {f}
        <3>1. CASE i = 1
            BY <1>2, <3>1
        <3>2. CASE i # 1
            <4>1. i - 1 \in DOMAIN stack' /\ stack'[i - 1] = stack[i]
                BY <1>3, <1>4, <3>2
            <4>2. QED
                BY <4>1 DEF OnStack
        <3>3. QED
            BY <3>1, <3>2
    <2>2. QED
        BY <1>3, <2>1 DEF OnStack
<1>7. Acyclic' = Acyclic
    <2>1. \A g : Targets(g)' = Targets(g)
        BY <1>2 DEF Targets, Edges
    <2>2. QED
        BY <2>1 DEF Acyclic
<1>8. ASSUME Acyclic PROVE StackInv' /\ CacheInv'
    <2>1. StackInv /\ CacheInv
        BY <1>8 DEF WalkInv
    <2>2. ASSUME NEW i \in 1..Len(stack)
          PROVE  /\ Frame(stack[i].file, stack[i].next, stack[i].out)
                 /\ i > 1 => Waits(stack[i].file, stack[i].next, stack[i - 1].file)
        BY <1>3, <2>1 DEF StackInv
    <2>3. f \notin DOMAIN cache /\ stack[1].next - 1 = Len(Edges(f))
        <3>1. Frame(stack[1].file, stack[1].next, stack[1].out) /\ stack[1].next \in Nat
            BY <1>3, <2>2
        <3>2. Len(Edges(f)) \in Nat
            BY <1>1, <1>2, EdgesOf
        <3>3. QED
            BY <1>2, <3>1, <3>2 DEF Frame
    <2>4. \A g \in DOMAIN cache : cache'[g] = cache[g]
        BY <1>2, <2>3
    <2>5. DOMAIN cache \subseteq DOMAIN cache' /\ DOMAIN cache' \subseteq Files /\ parsed' = parsed
        BY <1>1, <1>2 DEF WalkTypeOK
    <2>6. ASSUME NEW g \in Files, NEW k \in Nat, k <= Len(Edges(g)), Known(g, k)
          PROVE  /\ Edges(g)' = Edges(g) /\ Known(g, k)'
                 /\ \A n, shape : Brought(g, k, n, shape) => Brought(g, k, n, shape)'
        BY <1>1, <2>4, <2>5, <2>6, BroughtStays
    <2>7. CacheInv'
        <3>1. ASSUME NEW g \in DOMAIN cache'
              PROVE  /\ Known(g, Len(Edges(g)))'
                     /\ \A n \in Names : IF n \in parsed'[g].locals THEN cache'[g][n] = Declaration(g, n)
                                         ELSE Brought(g, Len(Edges(g)), n, cache[g][n])'
            <4>1. g \in Files /\ Len(Edges(g)) \in Nat /\ Edges(g)' = Edges(g)
                <5>1. g \in Files /\ Len(Edges(g)) \in Nat
                    BY <1>1, <2>5, EdgesOf
                <5>2. QED
                    BY <2>5, <5>1 DEF Edges
            <4>2. /\ Known(g, Len(Edges(g)))
                  /\ \A n \in Names : IF n \in parsed[g].locals THEN cache'[g][n] = Declaration(g, n)
                                      ELSE Brought(g, Len(Edges(g)), n, cache'[g][n])
                <5>1. CASE g = f
                    <6>1. Frame(stack[1].file, stack[1].next, stack[1].out)
                        BY <1>3, <2>2
                    <6>2. Known(f, Len(Edges(f))) /\ \A n \in Names : Brought(f, Len(Edges(f)), n, stack[1].out[n])
                        BY <1>2, <2>3, <6>1 DEF Frame
                    <6>3. QED
                        BY <1>2, <5>1, <6>2
                <5>2. CASE g # f
                    <6>1. g \in DOMAIN cache /\ cache'[g] = cache[g]
                        BY <1>2, <5>2
                    <6>2. QED
                        BY <2>1, <6>1 DEF CacheInv
                <5>3. QED
                    BY <5>1, <5>2
            <4>3. /\ Known(g, Len(Edges(g)))'
                  /\ \A n, shape : Brought(g, Len(Edges(g)), n, shape) => Brought(g, Len(Edges(g)), n, shape)'
                <5>1. PICK k \in Nat : k = Len(Edges(g)) /\ k <= Len(Edges(g)) /\ Known(g, k)
                    BY <4>1, <4>2
                <5>2. Known(g, k)' /\ \A n, shape : Brought(g, k, n, shape) => Brought(g, k, n, shape)'
                    BY <2>6, <4>1, <5>1
                <5>3. Len(Edges(g))' = k
                    BY <4>1, <5>1
                <5>4. Known(g, Len(Edges(g)))' = Known(g, k)'
                    BY <5>3 DEF Known
                <5>5. \A n, shape : Brought(g, Len(Edges(g)), n, shape)' = Brought(g, k, n, shape)'
                    BY <5>3 DEF Brought
                <5>6. \A n, shape : Brought(g, Len(Edges(g)), n, shape) = Brought(g, k, n, shape)
                    BY <5>1
                <5>7. QED
                    BY <5>2, <5>4, <5>5, <5>6
            <4>4. QED
                BY <2>5, <4>2, <4>3
        <3>2. QED
            BY <3>1 DEF CacheInv
    <2>8. ASSUME NEW i \in 1..(Len(stack) - 1)
          PROVE  /\ Frame(stack[i].file, stack[i].next, stack[i].out)'
                 /\ i > 1 => Waits(stack[i].file, stack[i].next, stack[i - 1].file)'
        <3>1. /\ i + 1 \in 1..Len(stack) /\ i + 1 > 1 /\ (i + 1) - 1 = i
              /\ stack'[i] = stack[i + 1] /\ (i > 1 => stack'[i - 1] = stack[i])
            BY <1>3, <1>4
        <3>2. PICK frame : frame = stack[i + 1] /\ frame = stack'[i]
            BY <3>1
        <3>3. /\ Frame(frame.file, frame.next, frame.out) /\ Waits(frame.file, frame.next, stack[i].file)
              /\ frame.file \in Files /\ frame.next \in Nat \ {0}
            BY <1>3, <2>2, <3>1, <3>2
        <3>4. Edges(frame.file)' = Edges(frame.file) /\ Len(Edges(frame.file)) \in Nat
            BY <1>1, <2>5, <3>3, EdgesOf DEF Edges
        <3>5. PICK k \in Nat : k = frame.next - 1 /\ k <= Len(Edges(frame.file)) /\ Known(frame.file, k)
            BY <3>3, <3>4 DEF Frame
        <3>6. Known(frame.file, k)' /\ \A n, shape : Brought(frame.file, k, n, shape) => Brought(frame.file, k, n, shape)'
            BY <2>6, <3>3, <3>5
        <3>7. frame.file \notin DOMAIN cache'
            <4>1. frame.file \notin DOMAIN cache
                BY <3>3 DEF Frame
            <4>2. PICK rank \in [Files -> 1..Cardinality(Files)] : \A g \in Files : \A t \in Targets(g) : rank[t] < rank[g]
                BY <1>8 DEF Acyclic
            <4>3. rank \in [Files -> Nat]
                BY <4>2, FS_CardinalityType, ContentsAssumption
            <4>4. rank[f] < rank[stack[i + 1].file]
                <5>1. i + 1 \in DOMAIN stack
                    BY <1>3, <3>1
                <5>2. QED
                    BY <1>1, <1>2, <2>1, <3>1, <4>2, <4>3, <5>1, StackRanks
            <4>5. frame.file # f
                BY <1>2, <3>2, <4>3, <4>4
            <4>6. QED
                BY <1>2, <4>1, <4>5
        <3>8. Frame(frame.file, frame.next, frame.out)' /\ Waits(frame.file, frame.next, stack[i].file)
            <4>1. \A n \in Names : Brought(frame.file, k, n, frame.out[n])'
                BY <3>3, <3>5, <3>6 DEF Frame
            <4>2. QED
                BY <3>3, <3>4, <3>5, <3>6, <3>7, <4>1 DEF Frame
        <3>9. QED
            BY <3>1, <3>2, <3>4, <3>8 DEF Waits
    <2>9. StackInv'
        BY <1>4, <2>8 DEF StackInv
    <2>10. QED
        BY <2>7, <2>9
<1>9. QED
    BY <1>2, <1>5, <1>6, <1>7, <1>8 DEF WalkInv

LEMMA WalkStep == WalkInv /\ [WalkNext]_walkVars => WalkInv'
<1> SUFFICES ASSUME WalkInv, [WalkNext]_walkVars PROVE WalkInv'
    OBVIOUS
<1>1. CASE UNCHANGED walkVars
    <2>1. UNCHANGED <<parsed, left, cache, seen, stack>>
        BY <1>1 DEF walkVars
    <2>2. WalkTypeOK' /\ OnStack' = OnStack
        BY <2>1 DEF WalkInv, WalkTypeOK, OnStack, WalkShapes
    <2>3. StackInv' = StackInv
        BY <2>1, WalkSame DEF StackInv
    <2>4. QED
        BY <2>1, <2>2, <2>3, WalkSame DEF WalkInv
<1>2. CASE WalkNext
    BY <1>2, AskStep, CallStep, ReturnedStep, ReturnStep DEF WalkNext
<1>3. QED
    BY <1>1, <1>2

-----------------------------------------------------------------------------
(* What the language says a file exports.                                  *)

NoneLead == [f \in Files |-> [n \in Names |-> {}]]
IsLadder(h, m) == h = [i \in 0..m |-> IF i = 0 THEN NoneLead ELSE OneEdgeMore(h[i - 1])]

\* The recursion is well defined.
LEMMA Ladder ==
    ASSUME NEW m \in Nat
    PROVE  \E h : IsLadder(h, m)
<1> DEFINE T == {i \in Nat : ~\E h : IsLadder(h, i)}
<1>1. ASSUME T # {} PROVE FALSE
    <2>1. T \subseteq Nat
        OBVIOUS
    <2> HIDE DEF T
    <2>2. PICK i \in T : \A j \in T : i <= j
        BY <1>1, <2>1, LeastNatural
    <2> USE DEF T
    <2>3. CASE i = 0
        <3> DEFINE h == [j \in 0..0 |-> NoneLead]
        <3>1. IsLadder(h, 0)
            BY DEF IsLadder
        <3>2. QED
            BY <2>2, <2>3, <3>1
    <2>4. CASE i # 0
        <3>1. i - 1 \in Nat /\ i - 1 \notin T
            BY <2>2, <2>4
        <3>2. PICK g : IsLadder(g, i - 1)
            BY <3>1
        <3> DEFINE h == [j \in 0..i |-> IF j = 0 THEN NoneLead ELSE OneEdgeMore(g[j - 1])]
        <3>3. \A j \in 0..(i - 1) : g[j] = IF j = 0 THEN NoneLead ELSE OneEdgeMore(g[j - 1])
            BY <3>2 DEF IsLadder
        <3>4. \A j \in 0..i : j # 0 => h[j - 1] = g[j - 1]
            BY <3>1, <3>3
        <3>5. \A j \in 0..i : (IF j = 0 THEN NoneLead ELSE OneEdgeMore(g[j - 1]))
                              = IF j = 0 THEN NoneLead ELSE OneEdgeMore(h[j - 1])
            BY <3>4
        <3>6. IsLadder(h, i)
            BY <3>5 DEF IsLadder
        <3> HIDE DEF h
        <3>7. QED
            BY <2>2, <3>6
    <2>5. QED
        BY <2>3, <2>4
<1>2. QED
    BY <1>1

LEMMA LeadsRecursion ==
    \A i \in 0..Cardinality(Files) :
        LeadsWithin[i] = IF i = 0 THEN NoneLead ELSE OneEdgeMore(LeadsWithin[i - 1])
<1> DEFINE N == Cardinality(Files)
<1>1. N \in Nat
    BY FS_CardinalityType, ContentsAssumption
<1>2. LeadsWithin = CHOOSE h : IsLadder(h, N)
    BY DEF LeadsWithin, IsLadder, NoneLead
<1>3. IsLadder(LeadsWithin, N)
    BY <1>1, <1>2, Ladder
<1>4. QED
    BY <1>3 DEF IsLadder

\* A shape is one of those a name may lead to, and None when there are none.
Right(leads, shape) == None \notin leads /\ IF leads = {} THEN shape = None ELSE shape \in leads

\* A file whose targets are right is right one edge further.
LEMMA OneEdgeRight ==
    ASSUME WalkTypeOK, CacheInv, NEW f \in DOMAIN cache, NEW n \in Names, NEW known,
           \A t \in Targets(f), m \in Names : Right(known[t][m], cache[t][m])
    PROVE  Right(OneEdgeMore(known)[f][n], cache[f][n])
<1> DEFINE s == StarCount(f)
           len == Len(Edges(f))
           leads == OneEdgeMore(known)[f][n]
           shape == cache[f][n]
           through(e, m) == IF e.target \in Files THEN known[e.target][m] ELSE {}
           said == {e \in Range(parsed[f].named) : e.exported = n}
           sayers == {j \in 1..len : Edges(f)[j].kind = "named" /\ Edges(f)[j].exported = n}
           stars == {j \in 1..len : Edges(f)[j].kind = "star"}
<1>1. f \in Files /\ DOMAIN cache \subseteq Files
    BY DEF WalkTypeOK
<1>2. leads = IF n \in parsed[f].locals THEN {Declaration(f, n)}
              ELSE IF said # {} THEN UNION {IF through(e, e.local) # {} THEN through(e, e.local) ELSE {Unknown} : e \in said}
              ELSE UNION {through(e, n) : e \in Range(parsed[f].stars)}
    BY <1>1 DEF OneEdgeMore
<1>3. /\ None # Unknown /\ None # Declaration(f, n)
    BY DEF None, Unknown, Declaration
<1>4. /\ s \in Nat /\ len \in Nat /\ s <= len
      /\ \A j \in 1..len : Edges(f)[j].target \in Files \cup {Nowhere} /\ Edges(f)[j] \in Range(Edges(f))
      /\ \A j \in 1..s : Edges(f)[j].kind = "star" /\ Edges(f)[j] \in Range(parsed[f].stars)
      /\ \A j \in (s + 1)..len :
            /\ Edges(f)[j].kind = "named" /\ Edges(f)[j].exported \in Names /\ Edges(f)[j].local \in Names
            /\ Edges(f)[j] \in Range(parsed[f].named)
      /\ \A e \in Range(parsed[f].stars) : \E j \in 1..s : e = Edges(f)[j]
      /\ \A e \in Range(parsed[f].named) : \E j \in (s + 1)..len : e = Edges(f)[j]
    BY <1>1, EdgesOf
<1>5. \A j \in 1..len : j \in 1..s \/ j \in (s + 1)..len
    BY <1>4
<1>6. /\ \A j \in 1..len : Edges(f)[j].target \in Files => Edges(f)[j].target \in DOMAIN cache \cap Targets(f)
      /\ IF n \in parsed[f].locals THEN shape = Declaration(f, n) ELSE Brought(f, len, n, shape)
    <2>1. Known(f, len)
        BY DEF CacheInv
    <2>2. QED
        BY <1>4, <2>1 DEF CacheInv, Known, Targets
<1>7. \A j \in 1..len, m \in Names : Right(through(Edges(f)[j], m), StarBrings(Edges(f)[j], m))
    <2> SUFFICES ASSUME NEW j \in 1..len, NEW m \in Names
                 PROVE  Right(through(Edges(f)[j], m), StarBrings(Edges(f)[j], m))
        OBVIOUS
    <2>1. CASE Edges(f)[j].target \in Files
        <3>1. Edges(f)[j].target \in DOMAIN cache \cap Targets(f)
            BY <1>6, <2>1
        <3>2. QED
            BY <2>1, <3>1 DEF StarBrings
    <2>2. CASE Edges(f)[j].target \notin Files
        <3>1. Edges(f)[j].target \notin DOMAIN cache
            BY <1>1, <2>2
        <3>2. QED
            BY <2>2, <3>1 DEF StarBrings, Right
    <2>3. QED
        BY <2>1, <2>2
<1>8. CASE n \in parsed[f].locals
    BY <1>2, <1>3, <1>6, <1>8 DEF Right
<1>9. CASE n \notin parsed[f].locals
    <2>1. Brought(f, len, n, shape)
        BY <1>6, <1>9
    <2>2. /\ \A j \in sayers : Edges(f)[j] \in said /\ Edges(f)[j].local \in Names
          /\ \A e \in said : \E j \in sayers : e = Edges(f)[j]
        <3>1. \A j \in sayers : j \in (s + 1)..len
            BY <1>4, <1>5
        <3>2. \A j \in (s + 1)..len : j \in 1..len
            BY <1>4
        <3>3. QED
            BY <1>4, <3>1, <3>2
    <2>3. /\ \A j \in stars : Edges(f)[j] \in Range(parsed[f].stars)
          /\ \A e \in Range(parsed[f].stars) : \E j \in stars : e = Edges(f)[j]
        <3>1. \A j \in stars : j \in 1..s
            BY <1>4, <1>5
        <3>2. \A j \in 1..s : j \in 1..len
            BY <1>4
        <3>3. QED
            BY <1>4, <3>1, <3>2
    <2>4. CASE said # {}
        <3> DEFINE led(e) == IF through(e, e.local) # {} THEN through(e, e.local) ELSE {Unknown}
        <3>1. leads = UNION {led(e) : e \in said}
            BY <1>2, <1>9, <2>4
        <3>2. sayers # {} /\ \E j \in sayers : shape = NamedBrings(Edges(f)[j])
            <4>1. sayers # {}
                BY <2>2, <2>4
            <4>2. QED
                BY <2>1, <4>1 DEF Brought
        <3>3. \A j \in sayers : NamedBrings(Edges(f)[j]) \in led(Edges(f)[j]) /\ None \notin led(Edges(f)[j])
            <4> SUFFICES ASSUME NEW j \in sayers
                         PROVE  NamedBrings(Edges(f)[j]) \in led(Edges(f)[j]) /\ None \notin led(Edges(f)[j])
                OBVIOUS
            <4> DEFINE e == Edges(f)[j]
            <4>1. e.local \in Names /\ j \in 1..len
                BY <2>2
            <4>2. Right(through(e, e.local), StarBrings(e, e.local))
                BY <1>7, <4>1
            <4>3. NamedBrings(e) = IF StarBrings(e, e.local) # None THEN StarBrings(e, e.local) ELSE Unknown
                BY DEF NamedBrings, StarBrings
            <4> HIDE DEF e, through
            <4>4. QED
                BY <1>3, <4>2, <4>3 DEF Right, e
        <3> HIDE DEF led, said, sayers, leads, shape
        <3>4. None \notin leads
            BY <2>2, <3>1, <3>3
        <3>5. shape \in leads
            BY <2>2, <3>1, <3>2, <3>3
        <3>6. QED
            BY <3>4, <3>5 DEF Right, leads, shape
    <2>5. CASE said = {}
        <3>1. leads = UNION {through(e, n) : e \in Range(parsed[f].stars)}
            BY <1>2, <1>9, <2>5
        <3>2. \/ \E j \in stars : shape = StarBrings(Edges(f)[j], n) /\ shape # None
              \/ shape = None /\ \A j \in stars : StarBrings(Edges(f)[j], n) = None
            <4>1. sayers = {}
                BY <2>2, <2>5
            <4>2. QED
                BY <2>1, <4>1 DEF Brought
        <3>3. \A j \in stars : Right(through(Edges(f)[j], n), StarBrings(Edges(f)[j], n))
            BY <1>7
        <3> HIDE DEF said, sayers, leads, shape, stars, through
        <3>4. None \notin leads
            BY <2>3, <3>1, <3>3 DEF Right
        <3>5. CASE \E j \in stars : shape = StarBrings(Edges(f)[j], n) /\ shape # None
            <4>1. PICK j \in stars : shape = StarBrings(Edges(f)[j], n) /\ shape # None
                BY <3>5
            <4>2. shape \in through(Edges(f)[j], n)
                BY <3>3, <4>1 DEF Right
            <4>3. shape \in leads
                BY <2>3, <3>1, <4>2
            <4>4. QED
                BY <3>4, <4>3 DEF Right, leads, shape
        <3>6. CASE shape = None /\ \A j \in stars : StarBrings(Edges(f)[j], n) = None
            <4>1. \A j \in stars : through(Edges(f)[j], n) = {}
                BY <3>3, <3>6 DEF Right
            <4>2. leads = {}
                BY <2>3, <3>1, <4>1
            <4>3. QED
                BY <3>6, <4>2 DEF Right, leads, shape
        <3>7. QED
            BY <3>2, <3>5, <3>6
    <2>6. QED
        BY <2>4, <2>5
<1>10. QED
    BY <1>8, <1>9

\* When every file was asked for and no activation is left, the surfaces are what the
\* language says: right for the files of a rank, by the ranks below it.
LEMMA WalkIsRight == WalkInv => SurfaceIsExports
<1> SUFFICES ASSUME WalkInv, left = {}, stack = <<>>, Acyclic PROVE IsExports(cache)
    BY DEF SurfaceIsExports
<1> DEFINE N == Cardinality(Files)
<1>1. WalkTypeOK /\ CacheInv /\ DOMAIN cache = Files
    <2>1. OnStack = {}
        BY DEF OnStack
    <2>2. QED
        BY <2>1 DEF WalkInv, WalkTypeOK
<1>2. N \in Nat
    BY FS_CardinalityType, ContentsAssumption
<1>3. PICK rank \in [Files -> 1..N] : \A f \in Files : \A t \in Targets(f) : rank[t] < rank[f]
    BY DEF Acyclic
<1> DEFINE RightUpTo(i) == \A f \in Files, n \in Names : rank[f] <= i => Right(LeadsWithin[i][f][n], cache[f][n])
           T == {i \in 0..N : ~RightUpTo(i)}
<1>4. ASSUME T # {} PROVE FALSE
    <2>1. T \subseteq Nat
        BY <1>2
    <2> HIDE DEF T
    <2>2. PICK i \in T : \A j \in T : i <= j
        BY <1>4, <2>1, LeastNatural
    <2> USE DEF T
    <2>3. i \in 0..N /\ i \in Nat
        BY <1>2, <2>2
    <2>4. RightUpTo(i)
        <3> SUFFICES ASSUME NEW f \in Files, NEW n \in Names, rank[f] <= i
                     PROVE  Right(LeadsWithin[i][f][n], cache[f][n])
            OBVIOUS
        <3>1. rank[f] \in 1..N /\ i # 0 /\ i - 1 \in 0..N
            BY <1>2, <1>3, <2>3
        <3>2. RightUpTo(i - 1)
            BY <2>2, <2>3, <3>1
        <3>3. \A t \in Targets(f) : t \in Files /\ rank[t] <= i - 1
            <4>1. \A t \in Targets(f) : t \in Files /\ rank[t] < rank[f] /\ rank[t] \in 1..N
                BY <1>3 DEF Targets
            <4>2. QED
                BY <1>2, <2>3, <3>1, <4>1
        <3>4. \A t \in Targets(f), m \in Names : Right(LeadsWithin[i - 1][t][m], cache[t][m])
            BY <3>2, <3>3
        <3>5. Right(OneEdgeMore(LeadsWithin[i - 1])[f][n], cache[f][n])
            BY <1>1, <3>4, OneEdgeRight
        <3>6. LeadsWithin[i] = OneEdgeMore(LeadsWithin[i - 1])
            BY <2>3, <3>1, LeadsRecursion
        <3>7. QED
            BY <3>5, <3>6
    <2>5. QED
        BY <2>2, <2>4
<1>5. RightUpTo(N)
    BY <1>2, <1>4
<1>6. \A f \in Files, n \in Names : Right(LeadsWithin[N][f][n], cache[f][n])
    BY <1>2, <1>3, <1>5
<1>7. QED
    BY <1>6 DEF IsExports, Right

-----------------------------------------------------------------------------
(* The gates.                                                              *)

GatesInv ==
    /\ LossInv
    /\ WireInv
    /\ descriptor \in Descriptors
    /\ PinsInv
    /\ WalkInv

LEMMA GatesStart == Init => GatesInv
<1> SUFFICES ASSUME Init PROVE GatesInv
    OBVIOUS
<1>1. ApiInit /\ WireInit /\ LockInit /\ PinsInit /\ WalkInit
    BY DEF Init
<1>2. QED
    BY <1>1, LossStart, WireStart, PinsStart, WalkStart DEF GatesInv, LockInit

LEMMA GatesStep == GatesInv /\ [Next]_gateVars => GatesInv'
<1> SUFFICES ASSUME GatesInv, [Next]_gateVars PROVE GatesInv'
    OBVIOUS
<1>1. [ApiNext]_apiVars /\ [WireNext]_wireVars /\ [LockNext]_lockVars /\ [PinsNext]_pinVars /\ [WalkNext]_walkVars
    BY DEF Next, gateVars
<1>2. LossInv' /\ WireInv' /\ PinsInv' /\ WalkInv'
    BY <1>1, LossStep, WireStep, PinsStep, WalkStep DEF GatesInv
<1>3. descriptor' \in Descriptors
    BY <1>1 DEF GatesInv, LockNext, lockVars, EditSdk, EditHost
<1>4. QED
    BY <1>2, <1>3 DEF GatesInv

LEMMA GatesAlways == Spec => []GatesInv
BY GatesStart, GatesStep, PTL DEF Spec

\* Every use that a merged surface ever offered is offered still or has its entry
\* in the ledger, whatever the branches did.
THEOREM LossCorrect == Spec => []NoSilentLoss
<1>1. GatesInv => NoSilentLoss
    BY DEF GatesInv, LossInv
<1>2. QED
    BY <1>1, GatesAlways, PTL

\* A pass of the wire gate, of the lockstep gate or of the pins means what it says,
\* whichever way the calls, the contract, the two sides of a method, package.json and
\* the lockfile were edited.
THEOREM FitCorrect == Spec => []PassMeansFit
<1>1. GatesInv => PassMeansFit
    BY FitsContract, FitsInLockstep DEF GatesInv, PinsInv, PassMeansFit
<1>2. QED
    BY <1>1, GatesAlways, PTL

\* Without a cycle of re-exports the surface of a file is what the language says it
\* exports, for any files and in whatever order the directory is read.
THEOREM SurfaceCorrect == Spec => []SurfaceIsExports
<1>1. GatesInv => SurfaceIsExports
    BY WalkIsRight DEF GatesInv
<1>2. QED
    BY <1>1, GatesAlways, PTL
=============================================================================
