------------------------------ MODULE Arrival ------------------------------
(***************************************************************************)
(* Arriving at a location inside an app: the urlchange the host sends      *)
(* (boot.tsx), and the two components that scroll the page then,           *)
(* ScrollRestoration.tsx for a remembered offset and                       *)
(* ScrollAfterNavigation.tsx for a fragment.  What an app leaves on an     *)
(* entry is EntryState's.                                                  *)
(*                                                                         *)
(* The host and the browser's page are external: any arrival may come at   *)
(* any time, by a push or a traversal, with any offset.  An arrival, the   *)
(* render it causes and the effects of that render are one step: a change  *)
(* of the store of entryState.ts is rendered synchronously.  Offsets are   *)
(* in units larger than RESTORE_EPSILON_PX, so that "within epsilon" is    *)
(* equality; time is in units of the samples of an attempt.  Any mutation  *)
(* of the page may sample too, so a sample is possible at any time and     *)
(* certain only at the deadline.                                           *)
(***************************************************************************)
EXTENDS Integers

CONSTANTS
  Locations,   \* where an app can be: a path and a fragment
  Fragments,   \* those that carry a #fragment
  Reach,       \* the largest offset of a page
  Deadline,    \* RESTORE_DEADLINE_MS, also the window of a fragment
  MaxArrivals  \* how many arrivals there are after the first

ASSUME ArrivalAssumption ==
  /\ Locations # {} /\ Fragments \subseteq Locations
  /\ Reach \in Nat \ {0} /\ Deadline \in Nat \ {0}
  /\ MaxArrivals \in Nat

VARIABLES
  location,      \* where the app is: outerHref
  arrived,       \* the last arrival, as entryState.ts keeps it
  arrivals,      \* how many there were
  page,          \* the page: reachable height, offset of the fragment's
                 \* target, own offset, scroll event not yet dispatched
  restore,       \* the attempt to restore an offset
  landing,       \* the attempt to reach a fragment
  reader         \* history: the reader scrolled since the last arrival

arrivalVars == <<location, arrived, arrivals>>
scrollVars == <<page, restore, landing, reader>>
vars == <<arrivalVars, scrollVars>>

Offsets == 0..Reach
NoTarget == -1

NavigationDirection == {"push", "back", "forward"}
ArrivedNavigation == [scroll : Offsets, direction : NavigationDirection]

HasFragment(l) == l \in Fragments
Idle == [on |-> FALSE, target |-> 0, elapsed |-> 0, userScrolled |-> FALSE]
NotLanding == [on |-> FALSE, elapsed |-> 0]
Least(a, b) == IF a < b THEN a ELSE b

-----------------------------------------------------------------------------
(* The scroller.  A scroll by the program, or one the browser makes because  *)
(* the page got shorter, leaves an event to be dispatched.                   *)

ScrolledTo(p, offset) ==
  LET top == Least(offset, p.height)
  IN [p EXCEPT !.top = top, !.event = p.event \/ top # p.top]

\* scrollToId
ScrolledToId(p) == ScrolledTo(p, p.anchor)

\* How far a page reaches, and where in it the fragment's target is.
Extents ==
  {e \in [height : Offsets, anchor : Offsets \union {NoTarget}] :
     e.anchor <= e.height}

\* The page of another location replaces the one that was there.
NewPages ==
  {ScrolledTo([page EXCEPT !.height = e.height, !.anchor = e.anchor], page.top) :
     e \in Extents}

-----------------------------------------------------------------------------
(* The decision of scrollRestore.ts and the two effects.                     *)

\* Mutants of RestoreAction: it scrolls over the reader, it scrolls a page that
\* is still too short, it has no deadline.
RestoreOverReader(attempt, p) ==
  IF attempt.target = 0 THEN "abandon"
  ELSE IF p.top = attempt.target THEN "apply"
  ELSE IF attempt.elapsed >= Deadline THEN "abandon"
  ELSE IF p.height >= attempt.target THEN "apply"
  ELSE "wait"
RestoreAtOnce(attempt, p) ==
  IF attempt.target = 0 \/ attempt.userScrolled THEN "abandon" ELSE "apply"
RestoreForEver(attempt, p) ==
  IF attempt.target = 0 \/ attempt.userScrolled THEN "abandon"
  ELSE IF p.height >= attempt.target THEN "apply"
  ELSE "wait"

RestoreAction(attempt, p) ==
  IF attempt.target = 0 \/ attempt.userScrolled THEN "abandon"
  ELSE IF p.top = attempt.target THEN "apply"
  ELSE IF attempt.elapsed >= Deadline THEN "abandon"
  ELSE IF p.height >= attempt.target THEN "apply"
  ELSE "wait"

\* The dependencies of the effect: it runs again when one of them changed.
RestoreKey(l, arrival) == <<arrival.scroll, arrival.direction, HasFragment(l)>>

\* Mutant of Restarted: a fragment does not outrank the offset.
RestartedOverFragment(l, n) ==
  IF RestoreKey(l, n) = RestoreKey(location, arrived) THEN restore
  ELSE IF n.direction # "push" /\ n.scroll # 0
  THEN [Idle EXCEPT !.on = TRUE, !.target = n.scroll]
  ELSE Idle

\* The restoration after the arrival n at l.
Restarted(l, n) ==
  IF RestoreKey(l, n) = RestoreKey(location, arrived) THEN restore
  ELSE IF n.direction # "push" /\ ~HasFragment(l) /\ n.scroll # 0
  THEN [Idle EXCEPT !.on = TRUE, !.target = n.scroll]
  ELSE Idle

\* The landing after an arrival at l, whose page is p, and that page: a target
\* that is there is scrolled to at once.
Relanded(l, p) ==
  IF l = location THEN landing
  ELSE [NotLanding EXCEPT !.on = HasFragment(l) /\ p.anchor = NoTarget]
ScrolledOnArrival(l, p) ==
  IF l # location /\ HasFragment(l) /\ p.anchor # NoTarget
  THEN ScrolledToId(p) ELSE p

\* The urlchange listener: receiveNavigation, updateContext, the render, and the
\* effects of those components whose dependencies changed.
Arrive ==
  /\ arrivals < MaxArrivals
  /\ arrivals' = arrivals + 1
  /\ \E l \in Locations, n \in ArrivedNavigation :
       /\ n.direction = "push" => n.scroll = 0
       /\ arrived' = n
       /\ location' = l
       /\ restore' = Restarted(l, n)
       /\ \E p \in IF l = location THEN {page} ELSE NewPages :
            /\ page' = ScrolledOnArrival(l, p)
            /\ landing' = Relanded(l, p)
  /\ reader' = FALSE

-----------------------------------------------------------------------------
(* The attempts and what they observe.                                       *)

\* attempt: it ends unless the content is still too short.
Attempt ==
  /\ restore.on
  /\ RestoreAction(restore, page) # "wait"
  /\ restore' = Idle
  /\ page' = IF RestoreAction(restore, page) = "apply"
             THEN ScrolledTo(page, restore.target) ELSE page
  /\ UNCHANGED <<arrivalVars, landing, reader>>

\* tryScroll
TryScroll ==
  /\ landing.on
  /\ page.anchor # NoTarget
  /\ landing' = NotLanding
  /\ page' = ScrolledToId(page)
  /\ UNCHANGED <<arrivalVars, restore, reader>>

\* finalTimer
StrandNobody ==
  /\ landing.on
  /\ landing.elapsed >= Deadline
  /\ landing' = NotLanding
  /\ page' = ScrolledTo(page, 0)
  /\ UNCHANGED <<arrivalVars, restore, reader>>

Aged(attempt) ==
  IF attempt.on
  THEN [attempt EXCEPT !.elapsed = Least(attempt.elapsed + 1, Deadline)]
  ELSE attempt

TimePasses ==
  /\ restore' = Aged(restore)
  /\ landing' = Aged(landing)
  /\ <<restore, landing>>' # <<restore, landing>>
  /\ UNCHANGED <<arrivalVars, page, reader>>

\* The listener of an attempt.
Heard == [restore EXCEPT !.userScrolled = restore.on]

ScrollEvent ==
  /\ page.event
  /\ page' = [page EXCEPT !.event = FALSE]
  /\ restore' = Heard
  /\ UNCHANGED <<arrivalVars, landing, reader>>

\* The reader scrolls; the event is dispatched in the same frame.
ReaderScrolls ==
  /\ \E top \in 0..page.height \ {page.top} :
       page' = [page EXCEPT !.top = top, !.event = FALSE]
  /\ restore' = Heard
  /\ reader' = TRUE
  /\ UNCHANGED <<arrivalVars, landing>>

\* Content comes in.
PageGrows ==
  /\ \E h \in page.height..Reach, a \in Offsets \union {NoTarget} :
       /\ a = page.anchor \/ page.anchor = NoTarget
       /\ a <= h
       /\ page' = [page EXCEPT !.height = h, !.anchor = a]
  /\ page' # page
  /\ UNCHANGED <<arrivalVars, restore, landing, reader>>

-----------------------------------------------------------------------------
Init ==
  /\ location \in Locations
  /\ arrived = [scroll |-> 0, direction |-> "push"] /\ arrivals = 0
  /\ page = [height |-> 0, anchor |-> NoTarget, top |-> 0, event |-> FALSE]
  /\ restore = Idle
  /\ landing = [NotLanding EXCEPT !.on = HasFragment(location)]
  /\ reader = FALSE

Next ==
  \/ Arrive
  \/ Attempt \/ TryScroll \/ StrandNobody
  \/ TimePasses \/ ScrollEvent \/ ReaderScrolls \/ PageGrows

Spec == Init /\ [][Next]_vars

\* Timers fire and time passes while there is one.
FairSpec == Spec /\ WF_vars(Attempt) /\ WF_vars(StrandNobody)
                 /\ WF_vars(TimePasses)

-----------------------------------------------------------------------------
TypeOK ==
  /\ location \in Locations /\ arrived \in ArrivedNavigation
  /\ arrivals \in 0..MaxArrivals
  /\ page \in [height : Offsets, anchor : Offsets \union {NoTarget},
               top : Offsets, event : BOOLEAN]
  /\ page.top <= page.height /\ page.anchor <= page.height
  /\ restore \in [on : BOOLEAN, target : Offsets, elapsed : 0..Deadline,
                  userScrolled : BOOLEAN]
  /\ landing \in [on : BOOLEAN, elapsed : 0..Deadline]
  /\ reader \in BOOLEAN

\* A restoration belongs to the arrival the app is at, and never runs beside
\* the search for a fragment: one arrival, one scroller.
OneScroller ==
  restore.on => /\ arrived.direction # "push"
                /\ restore.target = arrived.scroll
                /\ ~landing.on

\* A restoration ends in this step, and not because of another arrival.
Ends == restore.on /\ ~restore'.on /\ arrivals' = arrivals

\* The program never takes the page from a reader who has scrolled since the
\* arrival.
ReaderWins == [][Ends /\ reader => page'.top = page.top]_vars

\* A restoration that moves the page moves it to the remembered offset, never
\* to where a page that is still too short would clamp it.
LandsExactly ==
  [][Ends /\ page'.top # page.top => page'.top = restore.target]_vars

\* Every attempt ends, by its last timer if by nothing else, and with it its
\* listener, its observer and its timers.
AttemptsEnd == (restore.on ~> ~restore.on) /\ (landing.on ~> ~landing.on)

\* An arrival that has a place to scroll to goes there or starts to: the target
\* of a fragment (ScrollAfterNavigation.tsx:23), a remembered offset.  The
\* effects run only when what they depend on differs from the last arrival's.
EveryArrivalScrolls ==
  [][arrivals' # arrivals =>
       /\ HasFragment(location') /\ page'.anchor # NoTarget
            => landing'.on \/ page'.top = Least(page'.anchor, page'.height)
       /\ arrived'.direction # "push" /\ arrived'.scroll # 0
            /\ ~HasFragment(location')
            => restore'.on]_vars
=============================================================================
