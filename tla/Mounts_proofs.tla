---------------------------- MODULE Mounts_proofs ----------------------------
(***************************************************************************)
(* The mirror of the host's mounts converges for any set of keys and any   *)
(* number of changes, whenever the service starts, and a wait sees it.     *)
(*                                                                         *)
(* The argument is by key: the last message on its way about a key says    *)
(* what the host has of it, and of a key no message is about the mirror    *)
(* has nothing the host has not - nor less, once the replay has been sent. *)
(***************************************************************************)
EXTENDS Mounts, FiniteSetTheorems, TLAPS

About(msg, key) ==
  \/ msg.kind = "add" /\ msg.mount.key = key
  \/ msg.kind = "remove" /\ msg.key = key

\* No message from the place `from` on is about the key.
SilentFrom(from, key) == \A i \in 1..Len(toApp) : i >= from => ~About(toApp[i], key)

\* What the message says of its key is how the host has it.
Says(msg) ==
  /\ msg.kind = "add" => msg.mount \in hostMounts
  /\ msg.kind = "remove" => \A m \in hostMounts : m.key # msg.key

LastSays ==
  \A key \in Keys : \A i \in 1..Len(toApp) :
    About(toApp[i], key) /\ SilentFrom(i + 1, key) => Says(toApp[i])

NothingMore ==
  \A m \in mirror : SilentFrom(1, m.key) => m \in hostMounts

NothingLess ==
  polled /\ ~asked => \A m \in hostMounts : SilentFrom(1, m.key) => m \in mirror

\* Before the service listens it knows nothing.
NotUp == ~up => mirror = {} /\ ~polled /\ ~asked

\* A wait that has a key waits for one of the host's.
WaitHasKey == call.pc = "waiting" => call.key \in Keys

IInv ==
  /\ TypeOK
  /\ LastSays /\ NothingMore /\ NothingLess /\ NotUp
  /\ WaitSeesMount /\ WaitHasKey

LEMMA Kinds ==
  ASSUME NEW msg \in Messages
  PROVE  /\ msg.kind \in {"add", "remove", "reply", "refusal"}
         /\ msg.kind = "add" => msg.mount \in SandboxMount /\ msg.mount.key \in Keys
         /\ msg.kind = "remove" => msg.key \in Keys
         /\ msg.kind = "reply" => msg.key \in Keys
BY DEF Messages, Answers, SandboxMount

LEMMA InitIInv == Init => IInv
<1> SUFFICES ASSUME Init PROVE IInv
  OBVIOUS
<1>1. TypeOK
  <2>1. /\ asked \in BOOLEAN /\ working \in BOOLEAN /\ up \in BOOLEAN /\ polled \in BOOLEAN
        /\ watching \in BOOLEAN /\ subscribed \in BOOLEAN
    BY Zenon DEF Init
  <2>2. 0 \in 0..MaxChanges /\ <<>> \in Seq(Messages)
    BY MountAssumption
  <2>3. call \in [pc : {"idle", "asked", "waiting", "got", "timeout", "refused"},
                  key : Keys \union {NoKey}, bounded : BOOLEAN]
    BY DEF Init
  <2>4. QED
    BY <2>1, <2>2, <2>3 DEF Init, TypeOK
<1>2. LastSays /\ NothingMore /\ NothingLess /\ NotUp
  BY DEF Init, LastSays, NothingMore, NothingLess, NotUp
<1>3. WaitSeesMount /\ WaitHasKey
  BY DEF Init, WaitSeesMount, WaitHasKey
<1>4. QED
  BY <1>1, <1>2, <1>3 DEF IInv

-----------------------------------------------------------------------------
(* Steps that send or receive nothing about a mount.                       *)

LEMMA SameMessages ==
  ASSUME IInv, UNCHANGED <<hostMounts, toApp, mirror>>,
         polled' /\ ~asked' => polled /\ ~asked,
         up => up', ~up' => ~polled' /\ ~asked'
  PROVE  LastSays' /\ NothingMore' /\ NothingLess' /\ NotUp'
<1>1. LastSays' /\ NothingMore'
  BY DEF IInv, LastSays, NothingMore, SilentFrom, Says, About
<1>2. NothingLess'
  BY DEF IInv, NothingLess, SilentFrom, About
<1>3. NotUp'
  BY DEF IInv, NotUp
<1>4. QED
  BY <1>1, <1>2, <1>3

\* The first use of the service leaves the replay to come, if it could be asked for.
LEMMA UseStarts ==
  ASSUME IInv, UseService
  PROVE  /\ asked' \in BOOLEAN /\ up' \in BOOLEAN /\ polled' \in BOOLEAN
         /\ up'
         /\ polled' /\ ~asked' => polled /\ ~asked
BY DEF IInv, TypeOK, NotUp, UseService, AskReplay, serviceVars

\* A wait that is told of mounts.
LEMMA WaitTold ==
  ASSUME IInv, NEW ms, NEW key \in Keys, NEW inReplay, WaitSees(ms, key, inReplay), mirror' = ms
  PROVE  /\ call' \in [pc : {"idle", "asked", "waiting", "got", "timeout", "refused"},
                       key : Keys \union {NoKey}, bounded : BOOLEAN]
         /\ subscribed' \in BOOLEAN
         /\ WaitSeesMount'
<1>1. call \in [pc : {"idle", "asked", "waiting", "got", "timeout", "refused"},
                key : Keys \union {NoKey}, bounded : BOOLEAN]
  BY DEF IInv, TypeOK
<1>2. CASE \E m \in ms : Matches(m, key)
  BY <1>1, <1>2 DEF WaitSees, WaitSeesMount, Unsubscribed
<1>3. CASE ~\E m \in ms : Matches(m, key)
  <2>1. call' = [call EXCEPT !.pc = "waiting", !.key = key] /\ subscribed' = TRUE
    BY <1>3 DEF WaitSees
  <2>2. call'.pc = "waiting" /\ call'.key = key
    BY <1>1, <2>1
  <2>3. key \in WithId => key \notin KeysOf(ms)
    BY <1>3 DEF Matches, KeysOf
  <2>4. WaitSeesMount'
    BY <2>1, <2>2, <2>3 DEF WaitSeesMount, KeysOf
  <2>5. QED
    BY <1>1, <2>1, <2>4
<1>4. QED
  BY <1>2, <1>3

LEMMA WatchStep == IInv /\ (Watch \/ Unwatch) => IInv'
<1> SUFFICES ASSUME IInv, Watch \/ Unwatch PROVE IInv'
  OBVIOUS
<1>1. TypeOK
  BY DEF IInv
<1>2. /\ UNCHANGED <<toApp, mirror, call, subscribed, hostMounts, changes, working>>
      /\ asked' \in BOOLEAN /\ up' \in BOOLEAN /\ polled' \in BOOLEAN
      /\ polled' /\ ~asked' => polled /\ ~asked
      /\ up => up'
      /\ ~up' => ~polled' /\ ~asked'
  <2>1. CASE Watch
    BY <2>1, UseStarts DEF Watch, hostVars
  <2>2. CASE Unwatch
    BY <1>1, <2>2 DEF Unwatch, hostVars, serviceVars, IInv, NotUp, TypeOK
  <2>3. QED
    BY <2>1, <2>2
<1>3. watching' \in BOOLEAN
  BY Zenon DEF Watch, Unwatch
<1>4. shown' \subseteq SandboxMount /\ told' \subseteq [key : Keys, reason : MountRemoveReason]
  BY <1>1 DEF Watch, Unwatch, FirstShown, TypeOK
<1>5. TypeOK'
  BY <1>1, <1>2, <1>3, <1>4 DEF TypeOK
<1>6. WaitSeesMount' /\ WaitHasKey'
  BY <1>2 DEF IInv, WaitSeesMount, WaitHasKey, KeysOf
<1>7. QED
  BY <1>2, <1>5, <1>6, SameMessages DEF IInv

LEMMA CallStep == IInv /\ (Request \/ TimeOut) => IInv'
<1> SUFFICES ASSUME IInv, Request \/ TimeOut PROVE IInv'
  OBVIOUS
<1>1. TypeOK
  BY DEF IInv
<1>2. UNCHANGED <<hostMounts, changes, toApp, mirror, asked, up, polled, watching, shown, told>>
  BY DEF Request, TimeOut, hostVars, serviceVars, watchVars
<1>3. call' \in [pc : {"idle", "asked", "waiting", "got", "timeout", "refused"},
                 key : Keys \union {NoKey}, bounded : BOOLEAN]
  BY <1>1 DEF TypeOK, Request, TimeOut
<1>4. working' \in BOOLEAN /\ subscribed' \in BOOLEAN
  BY <1>1 DEF TypeOK, Request, TimeOut, hostVars, Unsubscribed
<1>5. TypeOK'
  BY <1>1, <1>2, <1>3, <1>4 DEF TypeOK
<1>6. call'.pc \in {"asked", "timeout"} /\ (call'.pc = "timeout" => ~subscribed')
  BY <1>1 DEF TypeOK, Request, TimeOut, Unsubscribed
<1>7. WaitSeesMount' /\ WaitHasKey'
  BY <1>6 DEF WaitSeesMount, WaitHasKey
<1>8. QED
  BY <1>2, <1>5, <1>7, SameMessages DEF IInv, NotUp

-----------------------------------------------------------------------------
(* Messages to the app.                                                    *)

\* What is left once the first message has been handled.
LEMMA TailFacts ==
  ASSUME TypeOK, toApp # <<>>, toApp' = Tail(toApp)
  PROVE  /\ Head(toApp) = toApp[1] /\ toApp[1] \in Messages
         /\ Len(toApp) \in Nat /\ Len(toApp) > 0 /\ Len(toApp') = Len(toApp) - 1
         /\ toApp' \in Seq(Messages)
         /\ \A i \in 1..Len(toApp') : toApp'[i] = toApp[i + 1]
BY DEF TypeOK

LEMMA TailSilent ==
  ASSUME TypeOK, toApp # <<>>, toApp' = Tail(toApp), NEW key, NEW from \in Nat \ {0}, SilentFrom(from, key)'
  PROVE  SilentFrom(from + 1, key)
<1>1. SUFFICES ASSUME NEW i \in 1..Len(toApp), i >= from + 1
               PROVE  ~About(toApp[i], key)
  BY DEF SilentFrom
<1>2. i - 1 \in 1..Len(toApp') /\ i - 1 >= from /\ toApp'[i - 1] = toApp[i]
  BY <1>1, TailFacts
<1>3. QED
  BY <1>2 DEF SilentFrom, About

\* The last messages stay the last when the first is handled.
LEMMA TailLast ==
  ASSUME IInv, toApp # <<>>, toApp' = Tail(toApp), hostMounts' = hostMounts
  PROVE  LastSays'
<1>1. SUFFICES ASSUME NEW key \in Keys, NEW i \in 1..Len(toApp'),
                      About(toApp[i], key)', SilentFrom(i + 1, key)'
               PROVE  Says(toApp[i])'
  BY DEF LastSays
<1>2. TypeOK
  BY DEF IInv
<1>3. i + 1 \in 1..Len(toApp) /\ i + 1 \in Nat \ {0} /\ toApp'[i] = toApp[i + 1]
  BY <1>2, TailFacts
<1>4. SilentFrom((i + 1) + 1, key)
  BY <1>1, <1>2, <1>3, TailSilent
<1>5. Says(toApp[i + 1])
  BY <1>1, <1>3, <1>4 DEF IInv, LastSays, About
<1>6. QED
  BY <1>3, <1>5 DEF Says

\* A key that no message is about any more, after the first.
LEMMA TailQuiet ==
  ASSUME IInv, toApp # <<>>, toApp' = Tail(toApp), NEW key \in Keys, SilentFrom(1, key)'
  PROVE  IF About(toApp[1], key) THEN Says(toApp[1]) ELSE SilentFrom(1, key)
<1>1. TypeOK
  BY DEF IInv
<1>2. SilentFrom(1 + 1, key) /\ 1 \in 1..Len(toApp)
  BY <1>1, TailSilent, TailFacts
<1>3. CASE About(toApp[1], key)
  BY <1>2, <1>3 DEF IInv, LastSays
<1>4. CASE ~About(toApp[1], key)
  <2>1. \A i \in 1..Len(toApp) : i = 1 \/ i >= 1 + 1
    BY <1>1 DEF TypeOK
  <2>2. QED
    BY <1>2, <1>4, <2>1 DEF SilentFrom
<1>5. QED
  BY <1>3, <1>4

\* What Fire makes of the mirror keeps the invariants of the messages.
LEMMA FireKeeps ==
  ASSUME IInv, toApp # <<>>, toApp' = Tail(toApp), hostMounts' = hostMounts, up,
         UNCHANGED serviceVars,
         NEW changed \in Keys, About(toApp[1], changed),
         toApp[1].kind = "add" => mirror' = Without(mirror, changed) \union {toApp[1].mount},
         toApp[1].kind = "remove" => mirror' = Without(mirror, changed)
  PROVE  LastSays' /\ NothingMore' /\ NothingLess' /\ NotUp' /\ mirror' \subseteq SandboxMount
<1>1. TypeOK
  BY DEF IInv
<1>2. /\ toApp[1] \in Messages /\ OnePerKey(hostMounts) /\ hostMounts \subseteq SandboxMount
      /\ mirror \subseteq SandboxMount /\ \A m \in SandboxMount : m.key \in Keys
  BY <1>1, TailFacts DEF TypeOK, SandboxMount
<1>3. /\ toApp[1].kind \in {"add", "remove"}
      /\ toApp[1].kind = "add" => toApp[1].mount \in SandboxMount /\ toApp[1].mount.key = changed
      /\ toApp[1].kind = "remove" => toApp[1].key = changed
  BY <1>2, Kinds DEF About
<1>4. \A key : About(toApp[1], key) => key = changed
  BY <1>3 DEF About
<1>5. NothingMore'
  <2> SUFFICES ASSUME NEW m \in mirror', SilentFrom(1, m.key)'
               PROVE  m \in hostMounts
    BY DEF NothingMore
  <2>1. m.key \in Keys
    BY <1>2, <1>3 DEF Without
  <2>2. IF About(toApp[1], m.key) THEN Says(toApp[1]) ELSE SilentFrom(1, m.key)
    BY <2>1, TailQuiet
  <2>3. CASE m.key = changed
    <3>1. toApp[1].kind = "add" /\ m = toApp[1].mount
      BY <1>3, <2>3 DEF Without
    <3>2. QED
      BY <2>2, <2>3, <3>1 DEF Says
  <2>4. CASE m.key # changed
    <3>1. m \in mirror /\ ~About(toApp[1], m.key)
      BY <1>3, <1>4, <2>4 DEF Without
    <3>2. QED
      BY <2>2, <3>1 DEF IInv, NothingMore
  <2>5. QED
    BY <2>3, <2>4
<1>6. NothingLess'
  <2> SUFFICES ASSUME polled, ~asked, NEW m \in hostMounts, SilentFrom(1, m.key)'
               PROVE  m \in mirror'
    BY DEF NothingLess, serviceVars
  <2>1. m.key \in Keys
    BY <1>2
  <2>2. IF About(toApp[1], m.key) THEN Says(toApp[1]) ELSE SilentFrom(1, m.key)
    BY <2>1, TailQuiet
  <2>3. CASE m.key = changed
    <3>1. Says(toApp[1])
      BY <2>2, <2>3
    <3>2. toApp[1].kind = "add" /\ toApp[1].mount \in hostMounts
      BY <1>3, <2>3, <3>1 DEF Says
    <3>3. m = toApp[1].mount
      BY <1>2, <1>3, <2>3, <3>2 DEF OnePerKey
    <3>4. QED
      BY <3>2, <3>3
  <2>4. CASE m.key # changed
    <3>1. m \in mirror
      BY <1>4, <2>2, <2>4 DEF IInv, NothingLess
    <3>2. QED
      BY <1>3, <2>4, <3>1 DEF Without
  <2>5. QED
    BY <2>3, <2>4
<1>7. NotUp' /\ mirror' \subseteq SandboxMount
  BY <1>2, <1>3 DEF NotUp, serviceVars, Without
<1>8. QED
  BY <1>5, <1>6, <1>7, TailLast

\* A message that changes no mirror: one that nobody listens to, a removal of
\* what is not there, or one that is not about a mount.
LEMMA StillKeeps ==
  ASSUME IInv, toApp # <<>>, toApp' = Tail(toApp), UNCHANGED <<hostMounts, mirror>>,
         polled' /\ ~asked' => polled /\ ~asked,
         up => up', ~up' => ~polled' /\ ~asked',
         toApp[1].kind = "add" => ~up,
         toApp[1].kind = "remove" => ~up \/ \A m \in mirror : m.key # toApp[1].key
  PROVE  LastSays' /\ NothingMore' /\ NothingLess' /\ NotUp'
<1>1. TypeOK
  BY DEF IInv
<1>2. /\ toApp[1] \in Messages /\ \A m \in SandboxMount : m.key \in Keys
      /\ hostMounts \subseteq SandboxMount /\ mirror \subseteq SandboxMount
  BY <1>1, TailFacts DEF TypeOK, SandboxMount
<1>3. NothingMore'
  <2> SUFFICES ASSUME NEW m \in mirror, SilentFrom(1, m.key)'
               PROVE  m \in hostMounts
    BY DEF NothingMore
  <2>1. IF About(toApp[1], m.key) THEN Says(toApp[1]) ELSE SilentFrom(1, m.key)
    BY <1>2, TailQuiet
  <2>2. ~About(toApp[1], m.key)
    BY <1>2 DEF About, IInv, NotUp
  <2>3. QED
    BY <2>1, <2>2 DEF IInv, NothingMore
<1>4. NothingLess'
  <2> SUFFICES ASSUME polled, ~asked, NEW m \in hostMounts, SilentFrom(1, m.key)'
               PROVE  m \in mirror
    BY DEF NothingLess
  <2>1. IF About(toApp[1], m.key) THEN Says(toApp[1]) ELSE SilentFrom(1, m.key)
    BY <1>2, TailQuiet
  <2>2. up
    BY DEF IInv, NotUp
  <2>3. CASE About(toApp[1], m.key)
    BY <2>1, <2>2, <2>3 DEF About, Says
  <2>4. CASE ~About(toApp[1], m.key)
    BY <2>1, <2>4 DEF IInv, NothingLess
  <2>5. QED
    BY <2>3, <2>4
<1>5. NotUp'
  BY DEF IInv, NotUp
<1>6. QED
  BY <1>3, <1>4, <1>5, TailLast

\* What a change of the mirror does to its listeners.
LEMMA FireTyped ==
  ASSUME IInv, NEW ms, ms \subseteq SandboxMount, NEW removed,
         removed \subseteq [key : Keys, reason : MountRemoveReason], Fire(ms, removed)
  PROVE  /\ shown' \subseteq SandboxMount /\ told' \subseteq [key : Keys, reason : MountRemoveReason]
         /\ call' \in [pc : {"idle", "asked", "waiting", "got", "timeout", "refused"},
                       key : Keys \union {NoKey}, bounded : BOOLEAN]
         /\ subscribed' \in BOOLEAN
         /\ UNCHANGED <<watching, asked, up, polled>>
<1>1. TypeOK
  BY DEF IInv
<1>2. CASE call.pc = "waiting"
  <2>1. call' \in [pc : {"idle", "asked", "waiting", "got", "timeout", "refused"},
                   key : Keys \union {NoKey}, bounded : BOOLEAN]
    BY <1>1, <1>2 DEF Fire, WaitSees, TypeOK
  <2>2. subscribed' \in BOOLEAN
    BY <1>2 DEF Fire, WaitSees
  <2>3. QED
    BY <1>1, <2>1, <2>2 DEF Fire, serviceVars, TypeOK
<1>3. CASE call.pc # "waiting"
  BY <1>1, <1>3 DEF Fire, serviceVars, TypeOK
<1>4. QED
  BY <1>2, <1>3

LEMMA FireWait ==
  ASSUME IInv, NEW ms, NEW removed, Fire(ms, removed)
  PROVE  WaitSeesMount' /\ WaitHasKey'
<1>1. TypeOK
  BY DEF IInv
<1>2. CASE call.pc = "waiting"
  <2>1. WaitSees(ms, call.key, FALSE) /\ mirror' = ms /\ call.key \in Keys
    BY <1>2 DEF Fire, IInv, WaitHasKey
  <2>2. WaitSeesMount'
    BY <2>1, WaitTold
  <2>3. call' = [call EXCEPT !.pc = call'.pc, !.key = call.key]
    BY <1>1, <2>1 DEF WaitSees, TypeOK
  <2>4. QED
    BY <1>1, <2>1, <2>2, <2>3 DEF WaitHasKey, TypeOK
<1>3. CASE call.pc # "waiting"
  BY <1>3 DEF Fire, IInv, WaitSeesMount, WaitHasKey
<1>4. QED
  BY <1>2, <1>3

LEMMA DeliverStep == IInv /\ Deliver => IInv'
<1> SUFFICES ASSUME IInv, Deliver PROVE IInv'
  OBVIOUS
<1>1. TypeOK /\ toApp # <<>> /\ toApp' = Tail(toApp) /\ UNCHANGED <<hostMounts, changes, working>>
  BY DEF IInv, Deliver, hostVars
<1>2. toApp[1] \in Messages /\ Head(toApp) = toApp[1] /\ toApp' \in Seq(Messages)
  BY <1>1, TailFacts
<1>3. /\ toApp[1].kind \in {"add", "remove", "reply", "refusal"}
      /\ toApp[1].kind = "add" => toApp[1].mount \in SandboxMount /\ toApp[1].mount.key \in Keys
      /\ toApp[1].kind = "remove" => toApp[1].key \in Keys
      /\ toApp[1].kind = "reply" => toApp[1].key \in Keys
  BY <1>2, Kinds
<1>4. CASE toApp[1].kind = "add" /\ up
  <2>1. MountAdd(toApp[1].mount)
    BY <1>2, <1>4 DEF Deliver
  <2> DEFINE ms == Without(mirror, toApp[1].mount.key) \union {toApp[1].mount}
  <2>2. Fire(ms, {}) /\ ms \subseteq SandboxMount
    BY <1>1, <1>3, <1>4, <2>1 DEF MountAdd, Without, TypeOK
  <2>3. mirror' = ms /\ UNCHANGED serviceVars
    BY <2>2 DEF Fire
  <2>4. LastSays' /\ NothingMore' /\ NothingLess' /\ NotUp'
    BY <1>1, <1>3, <1>4, <2>3, FireKeeps DEF About
  <2> HIDE DEF ms
  <2>5. TypeOK'
    BY <1>1, <1>2, <2>2, <2>3, FireTyped DEF TypeOK
  <2>6. QED
    BY <2>2, <2>4, <2>5, FireWait DEF IInv
<1>5. CASE toApp[1].kind = "remove" /\ up /\ IsThere(toApp[1].key)
  <2>1. MountRemove(toApp[1].key, toApp[1].reason)
    BY <1>2, <1>5 DEF Deliver
  <2> DEFINE ms == Without(mirror, toApp[1].key)
             gone == Removed(mirror, toApp[1].key, toApp[1].reason)
  <2>2. Fire(ms, gone) /\ ms \subseteq SandboxMount
    BY <1>1, <2>1 DEF MountRemove, Without, TypeOK
  <2>3. gone \subseteq [key : Keys, reason : MountRemoveReason]
    BY <1>1 DEF Removed, AsMountRemoveReason, MountRemoveReason, TypeOK, SandboxMount
  <2>4. mirror' = ms /\ UNCHANGED serviceVars
    BY <2>2 DEF Fire
  <2>5. LastSays' /\ NothingMore' /\ NothingLess' /\ NotUp'
    BY <1>1, <1>3, <1>5, <2>4, FireKeeps DEF About
  <2> HIDE DEF ms, gone
  <2>6. TypeOK'
    BY <1>1, <1>2, <2>2, <2>3, <2>4, FireTyped DEF TypeOK
  <2>7. QED
    BY <2>2, <2>5, <2>6, FireWait DEF IInv
<1>6. CASE \/ toApp[1].kind = "add" /\ ~up
           \/ toApp[1].kind = "remove" /\ ~(up /\ IsThere(toApp[1].key))
  <2>1. Ignored
    BY <1>2, <1>6 DEF Deliver
  <2>2. UNCHANGED <<mirror, call, subscribed, asked, up, polled, watching, shown, told>>
    BY <2>1 DEF Ignored, serviceVars, watchVars
  <2>3. LastSays' /\ NothingMore' /\ NothingLess' /\ NotUp'
    BY <1>1, <1>6, <2>2, StillKeeps DEF IsThere, IInv, NotUp
  <2>4. TypeOK'
    BY <1>1, <1>2, <2>2 DEF TypeOK
  <2>5. WaitSeesMount' /\ WaitHasKey'
    BY <2>2 DEF IInv, WaitSeesMount, WaitHasKey, KeysOf
  <2>6. QED
    BY <2>3, <2>4, <2>5 DEF IInv
<1>7. CASE toApp[1].kind = "reply"
  <2>1. Answered(toApp[1].key)
    BY <1>2, <1>7 DEF Deliver
  <2>2. /\ UseService /\ WaitSees(mirror, toApp[1].key, TRUE) /\ mirror' = mirror
        /\ UNCHANGED <<watching, shown, told>> /\ toApp[1].key \in Keys
    BY <1>3, <1>7, <2>1 DEF Answered, FirstShown, watchVars
  <2>3. /\ asked' \in BOOLEAN /\ up' \in BOOLEAN /\ polled' \in BOOLEAN /\ up'
        /\ polled' /\ ~asked' => polled /\ ~asked
    BY <2>2, UseStarts
  <2>4. LastSays' /\ NothingMore' /\ NothingLess' /\ NotUp'
    BY <1>1, <1>7, <2>2, <2>3, StillKeeps
  <2>5. /\ call' \in [pc : {"idle", "asked", "waiting", "got", "timeout", "refused"},
                      key : Keys \union {NoKey}, bounded : BOOLEAN]
        /\ subscribed' \in BOOLEAN /\ WaitSeesMount'
    BY <2>2, WaitTold
  <2>6. TypeOK'
    BY <1>1, <1>2, <2>2, <2>3, <2>5 DEF TypeOK
  <2>7. WaitHasKey'
    BY <1>1, <2>2 DEF WaitHasKey, WaitSees, TypeOK
  <2>8. QED
    BY <2>4, <2>5, <2>6, <2>7 DEF IInv
<1>8. CASE toApp[1].kind = "refusal"
  <2>1. Refused
    BY <1>2, <1>8 DEF Deliver
  <2>2. /\ UNCHANGED <<mirror, subscribed, asked, up, polled, watching, shown, told>>
        /\ call' = [call EXCEPT !.pc = "refused"]
    BY <2>1 DEF Refused, serviceVars, watchVars
  <2>3. LastSays' /\ NothingMore' /\ NothingLess' /\ NotUp'
    BY <1>1, <1>8, <2>2, StillKeeps DEF IInv, NotUp
  <2>4. call' \in [pc : {"idle", "asked", "waiting", "got", "timeout", "refused"},
                   key : Keys \union {NoKey}, bounded : BOOLEAN] /\ call'.pc = "refused"
    BY <1>1, <2>2 DEF TypeOK
  <2>5. TypeOK'
    BY <1>1, <1>2, <2>2, <2>4 DEF TypeOK
  <2>6. WaitSeesMount' /\ WaitHasKey'
    BY <2>4 DEF WaitSeesMount, WaitHasKey
  <2>7. QED
    BY <2>3, <2>5, <2>6 DEF IInv
<1>9. QED
  BY <1>3, <1>4, <1>5, <1>6, <1>7, <1>8

-----------------------------------------------------------------------------
(* The host.                                                               *)

LEMMA AppendFacts ==
  ASSUME TypeOK, NEW msg \in Messages, toApp' = Append(toApp, msg)
  PROVE  /\ Len(toApp) \in Nat /\ Len(toApp') = Len(toApp) + 1
         /\ toApp' \in Seq(Messages)
         /\ \A i \in 1..Len(toApp) : toApp'[i] = toApp[i]
         /\ toApp'[Len(toApp) + 1] = msg
BY DEF TypeOK

\* A key that no message is about any more was one before, and the new message
\* is not about it.
LEMMA AppendSilent ==
  ASSUME TypeOK, NEW msg \in Messages, toApp' = Append(toApp, msg),
         NEW key, NEW from \in 1..Len(toApp) + 1, SilentFrom(from, key)'
  PROVE  SilentFrom(from, key) /\ ~About(msg, key)
<1>1. Len(toApp) + 1 \in 1..Len(toApp') /\ Len(toApp) + 1 >= from
  BY AppendFacts
<1>2. ~About(msg, key)
  BY <1>1, AppendFacts DEF SilentFrom, About
<1>3. SilentFrom(from, key)
  BY AppendFacts DEF SilentFrom, About
<1>4. QED
  BY <1>2, <1>3

\* The host changes what it has of one key and says so, or has no news of mounts.
LEMMA NewsKeep ==
  ASSUME IInv, NEW msg \in Messages, toApp' = Append(toApp, msg),
         UNCHANGED <<mirror, asked, up, polled>>,
         Says(msg)',
         \A m \in SandboxMount : ~About(msg, m.key) => (m \in hostMounts' <=> m \in hostMounts),
         hostMounts' \subseteq SandboxMount
  PROVE  LastSays' /\ NothingMore' /\ NothingLess' /\ NotUp'
<1>1. TypeOK /\ hostMounts \subseteq SandboxMount /\ mirror \subseteq SandboxMount
  BY DEF IInv, TypeOK
<1>2. /\ Len(toApp) \in Nat /\ Len(toApp') = Len(toApp) + 1
      /\ \A i \in 1..Len(toApp) : toApp'[i] = toApp[i]
      /\ toApp'[Len(toApp) + 1] = msg
  BY <1>1, AppendFacts
<1>3. LastSays'
  <2> SUFFICES ASSUME NEW key \in Keys, NEW i \in 1..Len(toApp'),
                      About(toApp[i], key)', SilentFrom(i + 1, key)'
               PROVE  Says(toApp[i])'
    BY DEF LastSays
  <2>1. CASE i = Len(toApp) + 1
    BY <1>2, <2>1 DEF Says
  <2>2. CASE i \in 1..Len(toApp)
    <3>1. SilentFrom(i + 1, key) /\ ~About(msg, key)
      <4>1. i + 1 \in 1..Len(toApp) + 1
        BY <1>2, <2>2
      <4>2. QED
        BY <1>1, <4>1, AppendSilent
    <3>2. toApp'[i] = toApp[i] /\ About(toApp[i], key)
      BY <1>2, <2>2 DEF About
    <3>3. Says(toApp[i])
      BY <2>2, <3>1, <3>2 DEF IInv, LastSays
    <3>4. toApp[i] \in Messages
      BY <1>1, <2>2 DEF TypeOK
    <3>5. CASE toApp[i].kind = "add"
      <4>1. toApp[i].mount \in hostMounts /\ toApp[i].mount.key = key
        BY <3>2, <3>3, <3>5 DEF Says, About
      <4>2. toApp[i].mount \in hostMounts'
        BY <1>1, <3>1, <4>1
      <4>3. QED
        BY <3>2, <3>5, <4>2 DEF Says
    <3>6. CASE toApp[i].kind = "remove"
      <4>1. toApp[i].key = key /\ \A m \in hostMounts : m.key # key
        BY <3>2, <3>3, <3>6 DEF Says, About
      <4>2. \A m \in hostMounts' : m.key # key
        BY <3>1, <4>1
      <4>3. QED
        BY <3>2, <3>6, <4>1, <4>2 DEF Says
    <3>7. QED
      BY <3>2, <3>5, <3>6 DEF About
  <2>3. QED
    BY <1>2, <2>1, <2>2
<1>4. NothingMore'
  <2> SUFFICES ASSUME NEW m \in mirror, SilentFrom(1, m.key)'
               PROVE  m \in hostMounts'
    BY DEF NothingMore
  <2>1. SilentFrom(1, m.key) /\ ~About(msg, m.key)
    BY <1>1, <1>2, AppendSilent
  <2>2. QED
    BY <1>1, <2>1 DEF IInv, NothingMore
<1>5. NothingLess'
  <2> SUFFICES ASSUME polled, ~asked, NEW m \in hostMounts', SilentFrom(1, m.key)'
               PROVE  m \in mirror
    BY DEF NothingLess
  <2>1. SilentFrom(1, m.key) /\ ~About(msg, m.key)
    BY <1>1, <1>2, AppendSilent
  <2>2. QED
    BY <1>1, <2>1 DEF IInv, NothingLess
<1>6. NotUp'
  BY DEF IInv, NotUp
<1>7. QED
  BY <1>3, <1>4, <1>5, <1>6

LEMMA HostChangeStep ==
  ASSUME IInv,
         \/ \E mount \in SandboxMount : HostMounts(mount)
         \/ \E mount \in hostMounts, reason \in {"deleted", "absent"} : HostRemoves(mount, reason)
  PROVE  IInv'
<1>1. TypeOK /\ hostMounts \subseteq SandboxMount /\ OnePerKey(hostMounts)
  BY DEF IInv, TypeOK
<1>2. UNCHANGED <<up, polled, mirror, watching, shown, told, call, subscribed, asked, working>>
  BY DEF HostMounts, HostRemoves, AppVars
<1>3. changes' \in 0..MaxChanges
  <2>1. changes < MaxChanges /\ changes' = changes + 1
    BY DEF HostMounts, HostRemoves
  <2>2. QED
    BY <1>1, <2>1, MountAssumption DEF TypeOK
<1>4. WaitSeesMount' /\ WaitHasKey'
  BY <1>2 DEF IInv, WaitSeesMount, WaitHasKey, KeysOf
<1>5. ASSUME NEW mount \in SandboxMount, HostMounts(mount) PROVE IInv'
  <2>1. Add(mount) \in Messages /\ Add(mount).kind = "add" /\ Add(mount).mount = mount
    BY DEF Add, Messages
  <2>2. /\ hostMounts' = {m \in hostMounts : m.key # mount.key} \union {mount}
        /\ toApp' = Append(toApp, Add(mount))
    BY <1>5 DEF HostMounts
  <2>3. hostMounts' \subseteq SandboxMount /\ OnePerKey(hostMounts')
    BY <1>1, <2>2 DEF OnePerKey
  <2>4. Says(Add(mount))'
    BY <2>1, <2>2 DEF Says, Add
  <2>5. LastSays' /\ NothingMore' /\ NothingLess' /\ NotUp'
    BY <1>2, <2>1, <2>2, <2>3, <2>4, NewsKeep DEF About
  <2>6. TypeOK'
    BY <1>1, <1>2, <1>3, <2>1, <2>2, <2>3 DEF TypeOK
  <2>7. QED
    BY <1>4, <2>5, <2>6 DEF IInv
<1>6. ASSUME NEW mount \in hostMounts, NEW reason \in {"deleted", "absent"}, HostRemoves(mount, reason)
      PROVE  IInv'
  <2> DEFINE msg == [kind |-> "remove", key |-> mount.key, reason |-> reason]
  <2>1. msg \in Messages /\ msg.kind = "remove" /\ msg.key = mount.key
    BY <1>1 DEF Messages, SandboxMount
  <2>2. hostMounts' = hostMounts \ {mount} /\ toApp' = Append(toApp, msg)
    BY <1>6 DEF HostRemoves
  <2>3. hostMounts' \subseteq SandboxMount /\ OnePerKey(hostMounts')
    BY <1>1, <2>2 DEF OnePerKey
  <2>4. Says(msg)'
    BY <1>1, <2>1, <2>2 DEF Says, OnePerKey
  <2> HIDE DEF msg
  <2>5. LastSays' /\ NothingMore' /\ NothingLess' /\ NotUp'
    BY <1>2, <2>1, <2>2, <2>3, <2>4, NewsKeep DEF About
  <2>6. TypeOK'
    BY <1>1, <1>2, <1>3, <2>1, <2>2, <2>3 DEF TypeOK
  <2>7. QED
    BY <1>4, <2>5, <2>6 DEF IInv
<1>7. QED
  BY <1>5, <1>6

LEMMA HostAnswersStep == ASSUME IInv, NEW answer \in Answers, HostAnswers(answer) PROVE IInv'
<1>1. TypeOK /\ answer \in Messages /\ answer.kind \in {"reply", "refusal"}
  BY DEF IInv, Answers, Messages
<1>2. /\ toApp' = Append(toApp, answer) /\ working' = FALSE
      /\ UNCHANGED <<hostMounts, changes, asked, up, polled, mirror, watching, shown, told, call, subscribed>>
  BY DEF HostAnswers, AppVars
<1>3. LastSays' /\ NothingMore' /\ NothingLess' /\ NotUp'
  <2>1. Says(answer)' /\ \A key : ~About(answer, key)
    BY <1>1 DEF About, Says
  <2>2. hostMounts' \subseteq SandboxMount
    BY <1>1, <1>2 DEF TypeOK
  <2>3. QED
    BY <1>1, <1>2, <2>1, <2>2, NewsKeep
<1>4. TypeOK'
  <2>1. toApp' \in Seq(Messages) /\ working' \in BOOLEAN
    BY <1>1, <1>2, AppendFacts
  <2>2. QED
    BY <1>1, <1>2, <2>1 DEF TypeOK
<1>5. WaitSeesMount' /\ WaitHasKey'
  BY <1>2 DEF IInv, WaitSeesMount, WaitHasKey, KeysOf
<1>6. QED
  BY <1>3, <1>4, <1>5 DEF IInv

LEMMA HostMountsFinite == ASSUME TypeOK PROVE Cardinality(hostMounts) \in Nat
<1> DEFINE key == [m \in hostMounts |-> m.key]
<1>1. key \in Injection(hostMounts, Keys)
  BY DEF TypeOK, OnePerKey, SandboxMount, Injection, IsInjective
<1>2. IsFiniteSet(hostMounts)
  BY <1>1, FS_Injection, MountAssumption, Zenon
<1>3. QED
  BY <1>2, FS_CardinalityType

LEMMA HostReplaysStep == IInv /\ HostReplays => IInv'
<1> SUFFICES ASSUME IInv, HostReplays PROVE IInv'
  OBVIOUS
<1>1. TypeOK /\ hostMounts \subseteq SandboxMount /\ Cardinality(hostMounts) \in Nat
  BY HostMountsFinite DEF IInv, TypeOK
<1>2. PICK order \in [1..Cardinality(hostMounts) -> hostMounts] :
        /\ \A m \in hostMounts : \E i \in DOMAIN order : order[i] = m
        /\ toApp' = toApp \o [i \in DOMAIN order |-> Add(order[i])]
  BY DEF HostReplays
<1>3. /\ asked /\ asked' = FALSE
      /\ UNCHANGED <<hostMounts, changes, working, up, polled, mirror, watching, shown, told, call, subscribed>>
  BY DEF HostReplays, hostVars, AppVars
<1> DEFINE n == Cardinality(hostMounts)
           replay == [i \in 1..n |-> Add(order[i])]
<1>4. \A m \in SandboxMount : Add(m) \in Messages /\ Add(m).kind = "add" /\ Add(m).mount = m
  BY DEF Add, Messages
<1>5. DOMAIN order = 1..n /\ \A i \in 1..n : order[i] \in hostMounts
  OBVIOUS
<1>6. \A i \in 1..n : replay[i] = Add(order[i]) /\ replay[i] \in Messages
  BY <1>1, <1>4, <1>5
<1>7. replay \in Seq(Messages) /\ Len(replay) = n
  BY <1>1, <1>6
<1>8. toApp' = toApp \o replay
  BY <1>2, <1>5
<1> HIDE DEF replay, n
<1>9. /\ Len(toApp) \in Nat /\ n \in Nat /\ Len(toApp') = Len(toApp) + n
      /\ toApp' \in Seq(Messages)
      /\ \A i \in 1..Len(toApp) : toApp'[i] = toApp[i]
      /\ \A i \in 1..n : toApp'[Len(toApp) + i] = replay[i]
  BY <1>1, <1>7, <1>8 DEF TypeOK, n
<1>10. \A i \in 1..n : toApp'[Len(toApp) + i] = Add(order[i]) /\ Len(toApp) + i \in 1..Len(toApp')
  BY <1>6, <1>9
\* Every mount the host has is announced by the replay.
<1>11. ASSUME NEW from \in 1..Len(toApp) + 1, NEW key, SilentFrom(from, key)'
       PROVE  SilentFrom(from, key) /\ \A m \in hostMounts : m.key # key
  <2>1. SilentFrom(from, key)
    BY <1>9, <1>11 DEF SilentFrom, About
  <2>2. ASSUME NEW m \in hostMounts, m.key = key PROVE FALSE
    <3>1. PICK i \in 1..n : order[i] = m
      BY <1>2, <1>5
    <3>2. PICK j \in 1..Len(toApp') : j = Len(toApp) + i
      BY <1>10
    <3>3. toApp'[j] = Add(m) /\ j >= from
      BY <1>9, <1>10, <3>1, <3>2
    <3>4. About(toApp[j], key)'
      BY <1>1, <1>4, <2>2, <3>3 DEF About
    <3>5. QED
      BY <1>11, <3>3, <3>4 DEF SilentFrom
  <2>3. QED
    BY <2>1, <2>2
<1>12. LastSays'
  <2> SUFFICES ASSUME NEW key \in Keys, NEW i \in 1..Len(toApp'),
                      About(toApp[i], key)', SilentFrom(i + 1, key)'
               PROVE  Says(toApp[i])'
    BY DEF LastSays
  <2>1. CASE i \in 1..Len(toApp)
    <3>1. i + 1 \in 1..Len(toApp) + 1 /\ toApp'[i] = toApp[i]
      BY <1>9, <2>1
    <3>2. SilentFrom(i + 1, key) /\ About(toApp[i], key)
      BY <1>11, <3>1 DEF About
    <3>3. Says(toApp[i])
      BY <2>1, <3>2 DEF IInv, LastSays
    <3>4. QED
      BY <1>3, <3>1, <3>3 DEF Says
  <2>2. CASE i \notin 1..Len(toApp)
    <3>1. i - Len(toApp) \in 1..n /\ Len(toApp) + (i - Len(toApp)) = i
      BY <1>9, <2>2
    <3>2. toApp'[i] = Add(order[i - Len(toApp)]) /\ order[i - Len(toApp)] \in hostMounts
      BY <1>5, <1>10, <3>1
    <3>3. QED
      BY <1>1, <1>3, <1>4, <3>2 DEF Says
  <2>3. QED
    BY <2>1, <2>2
<1>13. NothingMore'
  <2> SUFFICES ASSUME NEW m \in mirror, SilentFrom(1, m.key)'
               PROVE  m \in hostMounts
    BY <1>3 DEF NothingMore
  <2>1. SilentFrom(1, m.key)
    BY <1>9, <1>11
  <2>2. QED
    BY <2>1 DEF IInv, NothingMore
<1>14. NothingLess'
  <2> SUFFICES ASSUME NEW m \in hostMounts, SilentFrom(1, m.key)'
               PROVE  m \in mirror
    BY <1>3 DEF NothingLess
  <2>1. QED
    BY <1>9, <1>11
<1>15. NotUp' /\ WaitSeesMount' /\ WaitHasKey'
  BY <1>3 DEF IInv, NotUp, WaitSeesMount, WaitHasKey, KeysOf
<1>16. TypeOK'
  BY <1>1, <1>3, <1>9 DEF TypeOK
<1>17. QED
  BY <1>12, <1>13, <1>14, <1>15, <1>16 DEF IInv

LEMMA StepIInv == IInv /\ [Next]_vars => IInv'
<1>1. ASSUME IInv, UNCHANGED vars PROVE IInv'
  <2>1. TypeOK'
    BY <1>1 DEF vars, IInv, TypeOK
  <2>2. LastSays' /\ NothingMore' /\ NothingLess' /\ NotUp'
    BY <1>1, SameMessages DEF vars, IInv, NotUp
  <2>3. WaitSeesMount' /\ WaitHasKey'
    BY <1>1 DEF vars, IInv, WaitSeesMount, WaitHasKey, KeysOf
  <2>4. QED
    BY <2>1, <2>2, <2>3 DEF IInv
<1>2. ASSUME IInv, Next PROVE IInv'
  BY <1>2, WatchStep, CallStep, DeliverStep, HostChangeStep, HostReplaysStep, HostAnswersStep DEF Next
<1>3. QED
  BY <1>1, <1>2

-----------------------------------------------------------------------------
(* The theorems.                                                           *)

LEMMA Invariance == Spec => []IInv
BY InitIInv, StepIInv, PTL DEF Spec

\* The mirror, the messages and the call keep their types.
THEOREM MountTypeCorrect == Spec => []TypeOK
<1>1. IInv => TypeOK
  BY DEF IInv
<1>2. QED
  BY <1>1, Invariance, PTL

\* The mirror is the host's mounts once the replay and every announcement have
\* arrived, and a wait sees what is in it.
THEOREM FollowCorrect == Spec => []HostIsFollowed
<1>1. IInv => HostIsFollowed
  <2>1. SUFFICES ASSUME IInv, polled, ~asked, Quiet PROVE mirror = hostMounts
    BY DEF HostIsFollowed, MirrorConverges, IInv
  <2>2. ASSUME NEW key PROVE SilentFrom(1, key)
    BY <2>1 DEF Quiet, SilentFrom, About
  <2>3. QED
    BY <2>1, <2>2 DEF IInv, NothingMore, NothingLess
<1>2. QED
  BY <1>1, Invariance, PTL

\* A listener is shown every change of the mirror, and told exactly what left it.
THEOREM WatcherCorrect == Spec => WatcherFollows
<1>1. ASSUME IInv, [Next]_vars, watching, watching', mirror' # mirror
      PROVE  shown' = mirror' /\ KeysOf(told') = KeysOf(mirror) \ KeysOf(mirror')
  <2>1. Deliver
    BY <1>1 DEF Next, vars, Watch, Unwatch, Request, TimeOut, HostMounts, HostRemoves, HostReplays,
                HostAnswers, AppVars
  <2>2. toApp # <<>> /\ toApp[1] \in Messages /\ Head(toApp) = toApp[1]
    BY <1>1, <2>1 DEF IInv, TypeOK, Deliver
  <2>3. toApp[1].kind \in {"add", "remove", "reply", "refusal"}
    BY <2>2, Kinds
  <2>4. \/ toApp[1].kind = "add" /\ MountAdd(toApp[1].mount)
        \/ toApp[1].kind = "remove" /\ MountRemove(toApp[1].key, toApp[1].reason)
    BY <1>1, <2>1, <2>2, <2>3 DEF Deliver, Ignored, Answered, Refused
  <2>5. CASE MountAdd(toApp[1].mount)
    BY <1>1, <2>5 DEF MountAdd, Fire, Without, KeysOf
  <2>6. CASE MountRemove(toApp[1].key, toApp[1].reason)
    <3>1. /\ mirror' = Without(mirror, toApp[1].key) /\ shown' = mirror'
          /\ told' = Removed(mirror, toApp[1].key, toApp[1].reason)
      BY <1>1, <2>6 DEF MountRemove, Fire
    <3>2. \A k : k \in KeysOf(mirror)' <=> k # toApp[1].key /\ k \in KeysOf(mirror)
      BY <3>1 DEF Without, KeysOf
    <3>3. \A r : r \in told' <=> \E m \in mirror : /\ m.key = toApp[1].key
                                               /\ r = [key |-> m.key, reason |-> AsMountRemoveReason(toApp[1].reason)]
      BY <3>1 DEF Removed
    <3>4. \A k : k \in KeysOf(told)' <=> k = toApp[1].key /\ k \in KeysOf(mirror)
      <4>1. ASSUME NEW r \in told' PROVE r.key = toApp[1].key /\ r.key \in KeysOf(mirror)
        BY <3>3 DEF KeysOf
      <4>2. ASSUME NEW m \in mirror, m.key = toApp[1].key PROVE \E r \in told' : r.key = m.key
        <5> DEFINE r == [key |-> m.key, reason |-> AsMountRemoveReason(toApp[1].reason)]
        <5>1. r \in told' /\ r.key = m.key
          BY <3>3, <4>2
        <5>2. QED
          BY <5>1
      <4>3. QED
        BY <4>1, <4>2 DEF KeysOf
    <3>5. QED
      BY <3>1, <3>2, <3>4
  <2>7. QED
    BY <2>4, <2>5, <2>6
<1>2. IInv /\ [Next]_vars =>
        [watching /\ watching' /\ mirror' # mirror =>
           /\ shown' = mirror'
           /\ KeysOf(told') = KeysOf(mirror) \ KeysOf(mirror')]_vars
  BY <1>1
<1>3. QED
  BY <1>2, Invariance, PTL DEF Spec, WatcherFollows
=============================================================================
