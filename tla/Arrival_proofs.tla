--------------------------- MODULE Arrival_proofs ---------------------------
(***************************************************************************)
(* What arrivals keep for every set of locations, every size of page and   *)
(* every deadline.                                                         *)
(*                                                                         *)
(* OneScroller does not carry itself over an arrival that leaves an effect *)
(* alone: that the other effect stays quiet follows from where the app is. *)
(* A restoration runs only where there is no fragment, and a search for a  *)
(* target only where there is one.                                         *)
(***************************************************************************)
EXTENDS Arrival, TLAPS

\* Which of the two scrollers a location may have.
ScrollerFits ==
  /\ restore.on => ~HasFragment(location)
  /\ landing.on => HasFragment(location)

\* A restoration that the reader has scrolled during knows it.
ReaderHeard == reader /\ restore.on => restore.userScrolled

IInv == TypeOK /\ OneScroller /\ ScrollerFits /\ ReaderHeard

Pages == [height : Offsets, anchor : Offsets \union {NoTarget},
          top : Offsets, event : BOOLEAN]

\* A page whose reader and whose target are within it.
PageOK(p) == p \in Pages /\ p.top <= p.height /\ p.anchor <= p.height

-----------------------------------------------------------------------------
(* The scroller.                                                           *)

\* Every scroll by the program ends within the page.
LEMMA ScrolledToOK ==
  ASSUME NEW p, p \in Pages, p.anchor <= p.height, NEW offset \in Offsets
  PROVE  PageOK(ScrolledTo(p, offset))
<1>1. Reach \in Nat
  BY ArrivalAssumption
<1>2. Least(offset, p.height) \in Offsets /\ Least(offset, p.height) <= p.height
  BY <1>1 DEF Least, Offsets, Pages
<1> DEFINE top == Least(offset, p.height)
<1>3. ScrolledTo(p, offset) = [p EXCEPT !.top = top, !.event = p.event \/ top # p.top]
  BY DEF ScrolledTo
<1> HIDE DEF top
<1>4. top \in Offsets /\ top <= p.height
  BY <1>2 DEF top
<1>5. (p.event \/ top # p.top) \in BOOLEAN
  BY DEF Pages
<1>6. QED
  BY <1>3, <1>4, <1>5 DEF PageOK, Pages

\* So does a scroll to the target of a fragment that is there.
LEMMA ScrolledToIdOK ==
  ASSUME NEW p, PageOK(p), p.anchor # NoTarget
  PROVE  PageOK(ScrolledToId(p))
BY ScrolledToOK DEF PageOK, Pages, ScrolledToId

\* The page of another location keeps the scroller within it.
LEMMA NewPagesOK ==
  ASSUME PageOK(page), NEW p \in NewPages
  PROVE  PageOK(p)
<1>1. PICK e \in Extents :
        p = ScrolledTo([page EXCEPT !.height = e.height, !.anchor = e.anchor], page.top)
  BY DEF NewPages
<1> DEFINE fresh == [page EXCEPT !.height = e.height, !.anchor = e.anchor]
<1>2. fresh \in Pages /\ fresh.anchor <= fresh.height
  BY DEF PageOK, Pages, Extents
<1>3. page.top \in Offsets
  BY DEF PageOK, Pages
<1> HIDE DEF fresh
<1>4. QED
  BY <1>1, <1>2, <1>3, ScrolledToOK DEF fresh

-----------------------------------------------------------------------------
(* The invariant is inductive.                                             *)

\* What TypeOK says, with the page's part named.
LEMMA TypeParts ==
  TypeOK <=>
    /\ location \in Locations /\ arrived \in ArrivedNavigation
    /\ arrivals \in 0..MaxArrivals
    /\ PageOK(page)
    /\ restore \in [on : BOOLEAN, target : Offsets, elapsed : 0..Deadline,
                    userScrolled : BOOLEAN]
    /\ landing \in [on : BOOLEAN, elapsed : 0..Deadline]
    /\ reader \in BOOLEAN
BY DEF TypeOK, PageOK, Pages

LEMMA InitIInv == Init => IInv
<1> SUFFICES ASSUME Init PROVE IInv
  OBVIOUS
<1>1. Reach \in Nat /\ Deadline \in Nat /\ MaxArrivals \in Nat
  BY ArrivalAssumption
<1>2. PageOK(page)
  BY <1>1 DEF Init, PageOK, Pages, Offsets, NoTarget
<1>3. landing = [NotLanding EXCEPT !.on = HasFragment(location)]
      /\ HasFragment(location) \in BOOLEAN
  BY DEF Init, HasFragment
<1>4. /\ restore \in [on : BOOLEAN, target : Offsets, elapsed : 0..Deadline,
                      userScrolled : BOOLEAN]
      /\ ~restore.on
  BY <1>1 DEF Init, Idle, Offsets
<1>5. landing \in [on : BOOLEAN, elapsed : 0..Deadline]
      /\ landing.on = HasFragment(location)
  BY <1>1, <1>3 DEF NotLanding
<1>6. arrived \in ArrivedNavigation /\ arrivals \in 0..MaxArrivals
      /\ location \in Locations /\ reader = FALSE
  BY <1>1 DEF Init, ArrivedNavigation, Offsets, NavigationDirection
<1>7. TypeOK
  BY <1>2, <1>4, <1>5, <1>6, TypeParts
<1>8. QED
  BY <1>4, <1>5, <1>7 DEF IInv, OneScroller, ScrollerFits, ReaderHeard

\* An arrival, with or without running either effect.
LEMMA ArriveStep == IInv /\ Arrive => IInv'
<1> SUFFICES ASSUME IInv, Arrive PROVE IInv'
  OBVIOUS
<1>1. Reach \in Nat /\ Deadline \in Nat /\ MaxArrivals \in Nat
  BY ArrivalAssumption
<1>2. PICK l \in Locations, n \in ArrivedNavigation :
        /\ arrived' = n
        /\ location' = l
        /\ restore' = Restarted(l, n)
        /\ \E p \in IF l = location THEN {page} ELSE NewPages :
             /\ page' = ScrolledOnArrival(l, p)
             /\ landing' = Relanded(l, p)
  BY DEF Arrive
<1>3. PICK p \in IF l = location THEN {page} ELSE NewPages :
        /\ page' = ScrolledOnArrival(l, p)
        /\ landing' = Relanded(l, p)
  BY <1>2
<1>4. PageOK(page) /\ TypeOK /\ OneScroller /\ ScrollerFits
  BY TypeParts DEF IInv
<1>5. PageOK(p)
  BY <1>3, <1>4, NewPagesOK
<1>6. PageOK(page')
  <2>1. CASE l # location /\ HasFragment(l) /\ p.anchor # NoTarget
    BY <1>3, <1>5, <2>1, ScrolledToIdOK DEF ScrolledOnArrival
  <2>2. CASE ~(l # location /\ HasFragment(l) /\ p.anchor # NoTarget)
    BY <1>3, <1>5, <2>2 DEF ScrolledOnArrival
  <2>3. QED
    BY <2>1, <2>2
<1>7. /\ landing' \in [on : BOOLEAN, elapsed : 0..Deadline]
      /\ landing'.on => HasFragment(l)
  <2>1. CASE l = location
    BY <1>3, <1>4, <2>1, TypeParts DEF Relanded, ScrollerFits
  <2>2. CASE l # location
    <3>1. landing' = [NotLanding EXCEPT !.on = HasFragment(l) /\ p.anchor = NoTarget]
      BY <1>3, <2>2 DEF Relanded
    <3> DEFINE on == HasFragment(l) /\ p.anchor = NoTarget
    <3>2. on \in BOOLEAN /\ (on => HasFragment(l))
      BY DEF HasFragment
    <3> HIDE DEF on
    <3>3. landing' = [NotLanding EXCEPT !.on = on]
      BY <3>1 DEF on
    <3>4. QED
      BY <1>1, <3>2, <3>3 DEF NotLanding
  <2>3. QED
    BY <2>1, <2>2
<1>8. n.scroll \in Offsets
  BY DEF ArrivedNavigation
<1>9. /\ restore' \in [on : BOOLEAN, target : Offsets, elapsed : 0..Deadline,
                       userScrolled : BOOLEAN]
      /\ restore'.on => ~HasFragment(l) /\ n.direction # "push"
                        /\ restore'.target = n.scroll
  <2>1. CASE RestoreKey(l, n) = RestoreKey(location, arrived)
    <3>1. /\ n.scroll = arrived.scroll /\ n.direction = arrived.direction
          /\ HasFragment(l) = HasFragment(location)
      BY <2>1 DEF RestoreKey
    <3>2. restore' = restore
      BY <1>2, <2>1 DEF Restarted
    <3>3. QED
      BY <1>4, <3>1, <3>2, TypeParts DEF OneScroller, ScrollerFits
  <2>2. CASE /\ RestoreKey(l, n) # RestoreKey(location, arrived)
             /\ n.direction # "push" /\ ~HasFragment(l) /\ n.scroll # 0
    <3>1. restore' = [Idle EXCEPT !.on = TRUE, !.target = n.scroll]
      BY <1>2, <2>2 DEF Restarted
    <3>2. Idle \in [on : BOOLEAN, target : Offsets, elapsed : 0..Deadline,
                     userScrolled : BOOLEAN]
      BY <1>1 DEF Idle, Offsets
    <3>3. QED
      BY <1>8, <2>2, <3>1, <3>2
  <2>3. CASE /\ RestoreKey(l, n) # RestoreKey(location, arrived)
             /\ ~(n.direction # "push" /\ ~HasFragment(l) /\ n.scroll # 0)
    <3>1. restore' = Idle
      BY <1>2, <2>3 DEF Restarted
    <3>2. QED
      BY <1>1, <3>1 DEF Idle, Offsets
  <2>4. QED
    BY <2>1, <2>2, <2>3
<1>10. arrivals' \in 0..MaxArrivals /\ reader' = FALSE
  BY <1>1, <1>4 DEF Arrive, TypeOK
<1>11. TypeOK'
  BY <1>2, <1>6, <1>7, <1>9, <1>10 DEF TypeOK, PageOK, Pages
<1>12. QED
  BY <1>2, <1>7, <1>9, <1>10, <1>11 DEF IInv, OneScroller, ScrollerFits, ReaderHeard

\* A step of the page or of an attempt leaves the arrival alone; it starts no
\* scroller and keeps the target of the one that runs.
LEMMA ScrollStep ==
  ASSUME IInv, UNCHANGED arrivalVars,
         PageOK(page'), reader' \in BOOLEAN,
         restore' \in [on : BOOLEAN, target : Offsets, elapsed : 0..Deadline,
                       userScrolled : BOOLEAN],
         landing' \in [on : BOOLEAN, elapsed : 0..Deadline],
         restore'.on => restore.on /\ restore'.target = restore.target,
         landing'.on => landing.on,
         ReaderHeard'
  PROVE  IInv'
BY DEF IInv, TypeOK, PageOK, Pages, OneScroller, ScrollerFits, arrivalVars

LEMMA StepIInv == IInv /\ [Next]_vars => IInv'
<1> SUFFICES ASSUME IInv, [Next]_vars PROVE IInv'
  OBVIOUS
<1>1. Reach \in Nat /\ Deadline \in Nat
  BY ArrivalAssumption
<1>2. /\ PageOK(page) /\ reader \in BOOLEAN /\ ReaderHeard
      /\ restore \in [on : BOOLEAN, target : Offsets, elapsed : 0..Deadline,
                      userScrolled : BOOLEAN]
      /\ landing \in [on : BOOLEAN, elapsed : 0..Deadline]
  BY TypeParts DEF IInv
<1>3. page \in Pages /\ page.anchor <= page.height /\ 0 \in Offsets
      /\ restore.target \in Offsets
  BY <1>1, <1>2 DEF PageOK, Offsets
<1>4. CASE Arrive
  BY <1>4, ArriveStep
<1>5. CASE Attempt
  <2>1. PageOK(page')
    BY <1>2, <1>3, <1>5, ScrolledToOK DEF Attempt
  <2>2. restore' = Idle /\ UNCHANGED <<arrivalVars, landing, reader>>
    BY <1>5 DEF Attempt
  <2>3. QED
    BY <1>1, <1>2, <2>1, <2>2, ScrollStep DEF Idle, Offsets, ReaderHeard
<1>6. CASE TryScroll
  <2>1. PageOK(page')
    BY <1>2, <1>6, ScrolledToIdOK DEF TryScroll
  <2>2. landing' = NotLanding /\ UNCHANGED <<arrivalVars, restore, reader>>
    BY <1>6 DEF TryScroll
  <2>3. QED
    BY <1>1, <1>2, <2>1, <2>2, ScrollStep DEF NotLanding, ReaderHeard
<1>7. CASE StrandNobody
  <2>1. PageOK(page')
    BY <1>3, <1>7, ScrolledToOK DEF StrandNobody
  <2>2. landing' = NotLanding /\ UNCHANGED <<arrivalVars, restore, reader>>
    BY <1>7 DEF StrandNobody
  <2>3. QED
    BY <1>1, <1>2, <2>1, <2>2, ScrollStep DEF NotLanding, ReaderHeard
<1>8. CASE TimePasses
  <2>1. restore' = Aged(restore) /\ landing' = Aged(landing)
        /\ UNCHANGED <<arrivalVars, page, reader>>
    BY <1>8 DEF TimePasses
  <2>2. /\ Aged(restore) \in [on : BOOLEAN, target : Offsets, elapsed : 0..Deadline,
                              userScrolled : BOOLEAN]
        /\ Aged(restore).on = restore.on /\ Aged(restore).target = restore.target
        /\ Aged(restore).userScrolled = restore.userScrolled
    <3>1. Least(restore.elapsed + 1, Deadline) \in 0..Deadline
      BY <1>1, <1>2 DEF Least
    <3>2. QED
      BY <1>2, <3>1 DEF Aged
  <2>3. /\ Aged(landing) \in [on : BOOLEAN, elapsed : 0..Deadline]
        /\ Aged(landing).on = landing.on
    <3>1. Least(landing.elapsed + 1, Deadline) \in 0..Deadline
      BY <1>1, <1>2 DEF Least
    <3>2. QED
      BY <1>2, <3>1 DEF Aged
  <2>4. QED
    BY <1>2, <2>1, <2>2, <2>3, ScrollStep DEF PageOK, ReaderHeard
<1>9. /\ Heard \in [on : BOOLEAN, target : Offsets, elapsed : 0..Deadline,
                    userScrolled : BOOLEAN]
      /\ Heard.on = restore.on /\ Heard.target = restore.target
  BY <1>2 DEF Heard
<1>10. Heard.on => Heard.userScrolled
  BY <1>2 DEF Heard
<1>11. CASE ScrollEvent
  <2>1. page' = [page EXCEPT !.event = FALSE] /\ restore' = Heard
        /\ UNCHANGED <<arrivalVars, landing, reader>>
    BY <1>11 DEF ScrollEvent
  <2>2. PageOK(page')
    BY <1>2, <2>1 DEF PageOK, Pages
  <2>3. QED
    BY <1>2, <1>9, <1>10, <2>1, <2>2, ScrollStep DEF ReaderHeard
<1>12. CASE ReaderScrolls
  <2>1. PICK top \in 0..page.height \ {page.top} :
          page' = [page EXCEPT !.top = top, !.event = FALSE]
    BY <1>12 DEF ReaderScrolls
  <2>2. restore' = Heard /\ reader' = TRUE /\ UNCHANGED <<arrivalVars, landing>>
    BY <1>12 DEF ReaderScrolls
  <2>3. top \in Offsets /\ top <= page.height
    BY <1>1, <1>2, <2>1 DEF PageOK, Pages, Offsets
  <2>4. PageOK(page')
    BY <1>2, <2>1, <2>3 DEF PageOK, Pages
  <2>5. QED
    BY <1>2, <1>9, <1>10, <2>2, <2>4, ScrollStep DEF ReaderHeard
<1>13. CASE PageGrows
  <2>1. PICK h \in page.height..Reach, a \in Offsets \union {NoTarget} :
          a <= h /\ page' = [page EXCEPT !.height = h, !.anchor = a]
    BY <1>13 DEF PageGrows
  <2>2. UNCHANGED <<arrivalVars, restore, landing, reader>>
    BY <1>13 DEF PageGrows
  <2>3. h \in Offsets /\ page.top <= h
    BY <1>1, <1>2, <2>1 DEF PageOK, Pages, Offsets
  <2>4. PageOK(page')
    BY <1>2, <2>1, <2>3 DEF PageOK, Pages
  <2>5. QED
    BY <1>2, <2>2, <2>4, ScrollStep DEF ReaderHeard
<1>14. CASE UNCHANGED vars
  <2>1. UNCHANGED <<arrivalVars, page, restore, landing, reader>>
    BY <1>14 DEF vars, scrollVars
  <2>2. QED
    BY <1>2, <2>1, ScrollStep DEF PageOK, ReaderHeard
<1>15. QED
  BY <1>4, <1>5, <1>6, <1>7, <1>8, <1>11, <1>12, <1>13, <1>14 DEF Next

LEMMA Invariance == Spec => []IInv
BY InitIInv, StepIInv, PTL DEF Spec

-----------------------------------------------------------------------------
(* The end of a restoration.                                               *)

\* An attempt ends by its own sample and by nothing else but an arrival.
LEMMA OnlyAttemptEnds ==
  ASSUME IInv, Next, Ends
  PROVE  Attempt
<1>1. restore.on /\ ~restore'.on /\ arrivals' = arrivals
  BY DEF Ends
<1>2. /\ arrivals \in Nat
      /\ restore \in [on : BOOLEAN, target : Offsets, elapsed : 0..Deadline,
                      userScrolled : BOOLEAN]
  BY ArrivalAssumption DEF IInv, TypeOK
<1>3. ~Arrive
  BY <1>1, <1>2 DEF Arrive
<1>4. ~TryScroll /\ ~StrandNobody /\ ~PageGrows
  BY <1>1 DEF TryScroll, StrandNobody, PageGrows
<1>5. Aged(restore).on /\ Heard.on
  BY <1>1, <1>2 DEF Aged, Heard
<1>6. ~TimePasses /\ ~ScrollEvent /\ ~ReaderScrolls
  BY <1>1, <1>5 DEF TimePasses, ScrollEvent, ReaderScrolls
<1>7. QED
  BY <1>3, <1>4, <1>6 DEF Next

\* An attempt that moves the page moves it to its target, and only if the
\* reader has not scrolled.
LEMMA AttemptMoves ==
  ASSUME IInv, Attempt, page'.top # page.top
  PROVE  page'.top = restore.target /\ ~reader
<1>1. /\ page \in Pages /\ ReaderHeard /\ restore.on
      /\ restore.target \in Offsets
  BY TypeParts DEF IInv, PageOK, Attempt
<1>2. RestoreAction(restore, page) = "apply"
      /\ page' = ScrolledTo(page, restore.target)
  BY DEF Attempt
<1>3. ~restore.userScrolled /\ (page.top = restore.target \/ page.height >= restore.target)
  BY <1>2 DEF RestoreAction
<1>4. page'.top = Least(restore.target, page.height)
  BY <1>1, <1>2 DEF ScrolledTo, Pages
<1>5. page.height >= restore.target
  BY <1>1, <1>3 DEF IInv, TypeOK, Pages, Offsets
<1>6. page'.top = restore.target
  BY <1>1, <1>4, <1>5, ArrivalAssumption DEF Least, Pages, Offsets
<1>7. QED
  BY <1>1, <1>3, <1>6 DEF ReaderHeard

-----------------------------------------------------------------------------
(* The theorems.                                                           *)

\* The state keeps its types, and neither the reader's place nor a fragment's
\* target is ever beyond the page, for every size of page (documentScroller).
THEOREM ArrivalTypeCorrect == Spec => []TypeOK
BY Invariance, PTL DEF IInv

\* A restoration belongs to the arrival the app is at and never runs beside
\* the search for a fragment, whatever the reader and the page do
\* (ScrollRestoration, useScrollAfterNavigation).
THEOREM ScrollerCorrect == Spec => []OneScroller
BY Invariance, PTL DEF IInv

\* The program never takes the page from a reader who has scrolled since the
\* arrival, in whatever order content, samples and scroll events come
\* (nextRestoreAction, onScroll).
THEOREM ReaderCorrect == Spec => ReaderWins
<1>1. IInv /\ [Next]_vars => [Ends /\ reader => page'.top = page.top]_vars
  BY OnlyAttemptEnds, AttemptMoves
<1>2. QED
  BY <1>1, Invariance, PTL DEF Spec, ReaderWins

\* A restoration that moves the page lands on the remembered offset, whatever
\* height the page had before (nextRestoreAction).
THEOREM LandingCorrect == Spec => LandsExactly
<1>1. IInv /\ [Next]_vars =>
        [Ends /\ page'.top # page.top => page'.top = restore.target]_vars
  BY OnlyAttemptEnds, AttemptMoves
<1>2. QED
  BY <1>1, Invariance, PTL DEF Spec, LandsExactly
=============================================================================
