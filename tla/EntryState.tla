----------------------------- MODULE EntryState -----------------------------
(***************************************************************************)
(* What an app leaves on the history entry it departs from (entryState.ts, *)
(* useEntryState.ts): values saved by hand, and collectors asked at the    *)
(* moment of a navigation, all under one key.  navigate (routing.tsx)      *)
(* takes them; the host, which is external, stamps them on the entry it    *)
(* holds to be current, and moves the app whenever the reader presses Back *)
(* or Forward.  The realm outlives a move: boot.tsx handles urlchange in   *)
(* place.                                                                  *)
(***************************************************************************)
EXTENDS Naturals, Sequences

CONSTANTS
  Owners,      \* those that register a collector
  MaxSaves,    \* how often a value is saved
  MaxArrivals  \* how often the host moves the app

ASSUME EntryStateAssumption ==
  /\ "none" \notin Owners
  /\ MaxSaves \in Nat /\ MaxArrivals \in Nat

VARIABLES
  queued,   \* the saved value that waits for a navigation, or 0
  owner,    \* the collector registered under the key, or "none"
  alive,    \* the owners that have not called their remover
  saves,    \* how many values were saved: value n is the n-th
  entry,    \* history: the visit the app is on, a number of its own
  savedOn,  \* history: the visit on which the queued value was saved
  left      \* history: the saved values that went out with navigations

entryVars == <<queued, owner, alive, saves, entry, savedOn, left>>

\* A saved value, the visit it was saved on and the one it was sent from.
Left == [saved : 1..MaxSaves, from : 0..MaxArrivals, at : 0..MaxArrivals]

EntryInit ==
  /\ queued = 0 /\ saves = 0 /\ savedOn = 0
  /\ owner = "none" /\ alive = {}
  /\ entry = 0
  /\ left = <<>>

\* The last call before a navigation wins.
SaveEntryState ==
  /\ saves < MaxSaves
  /\ saves' = saves + 1
  /\ queued' = saves + 1
  /\ savedOn' = entry
  /\ UNCHANGED <<owner, alive, entry, left>>

\* One owner per key: a second registration replaces the first.  Each owner
\* registers a function of its own.
RegisterEntryStateCollector(o) ==
  /\ o \notin alive
  /\ alive' = alive \union {o}
  /\ owner' = o
  /\ UNCHANGED <<queued, saves, entry, savedOn, left>>

\* Mutant of OwnerWithout: a remover clears the key whoever owns it.
OwnerCleared(o) == "none"

OwnerWithout(o) == IF owner = o THEN "none" ELSE owner

\* The remover that a registration returned.
Unregister(o) ==
  /\ o \in alive
  /\ alive' = alive \ {o}
  /\ owner' = OwnerWithout(o)
  /\ UNCHANGED <<queued, saves, entry, savedOn, left>>

\* What a navigation sends of the queue.  A scratch over the cap or one JSON
\* cannot write is dropped whole; a collector that says something goes over the
\* saved value (one that says nothing, or throws, does not).
Sent ==
  \/ left' = Append(left, [saved |-> queued, from |-> savedOn, at |-> entry])
  \/ UNCHANGED left

\* takeQueuedEntryState within navigate: the queue is empty afterwards, also
\* when nothing is sent because the scratch cannot be cloned and navigate
\* throws.  With nothing queued a navigation changes nothing here.
Navigate ==
  /\ queued # 0
  /\ Sent
  /\ queued' = 0
  /\ UNCHANGED <<owner, alive, saves, entry, savedOn>>

\* receiveNavigation: the answer to a navigation, or Back or Forward.
ReceiveNavigation ==
  /\ entry < MaxArrivals
  /\ entry' = entry + 1
  /\ UNCHANGED <<queued, owner, alive, saves, savedOn, left>>

EntryNext ==
  \/ SaveEntryState \/ Navigate \/ ReceiveNavigation
  \/ \E o \in Owners : RegisterEntryStateCollector(o) \/ Unregister(o)

\* An owner that has not called its remover is not unregistered by a remover
\* of an earlier registration.
OwnerKept == [][(owner \in alive') => (owner' # "none")]_entryVars
=============================================================================
