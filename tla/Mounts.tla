------------------------------- MODULE Mounts -------------------------------
(***************************************************************************)
(* The mounts an app sees (transportMountService, mounts.ts): a mirror of  *)
(* the host's mounts built from its messages, a listener on it             *)
(* (onMountsChange), and one call that asks the host for a mount and then  *)
(* waits for it to appear (requestMountInternal, openSettings,             *)
(* awaitMatchingMount).                                                    *)
(*                                                                         *)
(* The bus to the app is FIFO and delays messages; one that arrives before *)
(* the service started finds no listener.  The host announces a mount      *)
(* before it answers the call, after, or never.  The deadline of the       *)
(* request itself is BoundedCall's.  The order of the mirror is left out:   *)
(* keys are unique in it, and a call waits for one key.                    *)
(***************************************************************************)
EXTENDS Naturals, Sequences, FiniteSets

CONSTANTS
  Keys,        \* the keys of mounts: an id, or the path of one without
  WithId,      \* those that are ids
  MaxChanges   \* how often the host mounts, re-announces or removes

VARIABLES
  hostMounts,  \* the mounts of the host
  changes,     \* how often they have changed
  asked,       \* request-mounts is on its way to the host
  working,     \* the host works on the call
  toApp,       \* messages on their way to the app
  up,          \* the service has its listeners
  polled,      \* history: request-mounts could be sent
  mirror,      \* the mounts as the app knows them
  watching,    \* the app listens to them
  shown,       \* the mounts its listener was last called with
  told,        \* the removals it was last called with
  call,        \* the call: where it is, the key it waits for, its bound
  subscribed   \* the wait's own listener is registered

hostVars == <<hostMounts, changes, working>>
serviceVars == <<asked, up, polled>>
watchVars == <<watching, shown, told>>
vars == <<hostMounts, changes, asked, working, toApp, up, polled, mirror,
          watching, shown, told, call, subscribed>>

ASSUME MountAssumption ==
  /\ IsFiniteSet(Keys) /\ "none" \notin Keys
  /\ WithId \subseteq Keys
  /\ MaxChanges \in Nat

SandboxMount == [key : Keys, mode : {"rw", "ro"}]
MountRemoveReason == {"revoked", "deleted"}

\* The key of a call that waits for none yet.
NoKey == "none"

\* One descriptor for each key.
OnePerKey(ms) == \A m, n \in ms : m.key = n.key => m = n

Init ==
  /\ hostMounts \in {ms \in SUBSET SandboxMount : OnePerKey(ms)}
  /\ changes = 0
  /\ asked = FALSE
  /\ working = FALSE
  /\ toApp = <<>>
  /\ up = FALSE
  /\ polled = FALSE
  /\ mirror = {}
  /\ watching = FALSE
  /\ shown = {}
  /\ told = {}
  /\ call \in [pc : {"idle"}, key : {NoKey}, bounded : BOOLEAN]
  /\ subscribed = FALSE

-----------------------------------------------------------------------------
(* The service.                                                            *)

\* Mutant of AskReplay: the service waits for the next announcement.
AskReplayNever(sent) == asked

\* Ask the host to announce every mount again.
AskReplay(sent) == asked \/ sent

\* The first use registers the listeners and asks for a replay, best-effort.
UseService ==
  IF up
    THEN UNCHANGED serviceVars
    ELSE /\ up' = TRUE
         /\ \E sent \in BOOLEAN : polled' = sent /\ asked' = AskReplay(sent)

Without(ms, key) == {m \in ms : m.key # key}

\* An absent or unknown reason reads as the most conservative one.
AsMountRemoveReason(reason) ==
  IF reason \in MountRemoveReason THEN reason ELSE "revoked"

\* Mutant of Removed: looked for when they are gone already.
RemovedTooLate(ms, key, reason) ==
  {[key |-> m.key, reason |-> AsMountRemoveReason(reason)] :
     m \in {n \in Without(ms, key) : n.key = key}}

\* The descriptors that a removal takes away, each with the reason.
Removed(ms, key, reason) ==
  {[key |-> m.key, reason |-> AsMountRemoveReason(reason)] :
     m \in {n \in ms : n.key = key}}

-----------------------------------------------------------------------------
(* The wait for a mount.                                                   *)

\* mountMatches on the query a call waits with, whose `id` is the mount's
\* key: a mount without an id has none that could equal it.
Matches(mount, key) == mount.key = key /\ mount.key \in WithId

\* Unsubscribing is deferred past the replay, and before any other event.
Unsubscribed(inReplay) == TRUE

\* The wait's listener is called with ms.
WaitSees(ms, key, inReplay) ==
  IF \E m \in ms : Matches(m, key)
    THEN /\ call' = [call EXCEPT !.pc = "got", !.key = key]
         /\ subscribed' = ~Unsubscribed(inReplay)
    ELSE /\ call' = [call EXCEPT !.pc = "waiting", !.key = key]
         /\ subscribed' = TRUE

\* Mutant of FirstShown: a new listener waits for the next change.
FirstShownNothing == {}

\* A new listener is called at once with the mounts that are there.
FirstShown == mirror

-----------------------------------------------------------------------------
(* The app.                                                                *)

Watch ==
  /\ ~watching
  /\ UseService
  /\ watching' = TRUE
  /\ shown' = FirstShown
  /\ told' = {}
  /\ UNCHANGED <<toApp, mirror, call, subscribed>>
  /\ UNCHANGED hostVars

Unwatch ==
  /\ watching
  /\ watching' = FALSE
  /\ shown' = {} /\ told' = {}
  /\ UNCHANGED <<toApp, mirror, call, subscribed>>
  /\ UNCHANGED serviceVars /\ UNCHANGED hostVars

\* The request goes out.
Request ==
  /\ call.pc = "idle"
  /\ call' = [call EXCEPT !.pc = "asked"]
  /\ working' = TRUE
  /\ UNCHANGED <<hostMounts, changes, toApp, mirror, subscribed>>
  /\ UNCHANGED serviceVars /\ UNCHANGED watchVars

\* openSettings and openLocalStore bound their wait.
TimeOut ==
  /\ call.pc = "waiting" /\ call.bounded
  /\ call' = [call EXCEPT !.pc = "timeout"]
  /\ subscribed' = ~Unsubscribed(FALSE)
  /\ UNCHANGED <<toApp, mirror>>
  /\ UNCHANGED serviceVars /\ UNCHANGED watchVars /\ UNCHANGED hostVars

-----------------------------------------------------------------------------
(* Messages to the app.                                                    *)

\* The mirror becomes ms, and every listener is called with it and with what
\* was removed.
Fire(ms, removed) ==
  /\ mirror' = ms
  /\ shown' = (IF watching THEN ms ELSE shown)
  /\ told' = (IF watching THEN removed ELSE told)
  /\ IF call.pc = "waiting"
       THEN WaitSees(ms, call.key, FALSE)
       ELSE UNCHANGED <<call, subscribed>>
  /\ UNCHANGED watching
  /\ UNCHANGED serviceVars

MountAdd(mount) == Fire(Without(mirror, mount.key) \union {mount}, {})

MountRemove(key, reason) ==
  Fire(Without(mirror, key), Removed(mirror, key, reason))

\* A message nobody listens to, or a removal of what is not there.
Ignored ==
  /\ UNCHANGED <<mirror, call, subscribed>>
  /\ UNCHANGED serviceVars /\ UNCHANGED watchVars

\* The host's answer: the call waits for the mount it names.
Answered(key) ==
  /\ UseService
  /\ WaitSees(FirstShown, key, TRUE)
  /\ UNCHANGED mirror
  /\ UNCHANGED watchVars

Refused ==
  /\ call' = [call EXCEPT !.pc = "refused"]
  /\ UNCHANGED <<mirror, subscribed>>
  /\ UNCHANGED serviceVars /\ UNCHANGED watchVars

IsThere(key) == \E m \in mirror : m.key = key

Deliver ==
  /\ toApp # <<>>
  /\ toApp' = Tail(toApp)
  /\ LET msg == Head(toApp) IN
       CASE msg.kind = "add" -> IF up THEN MountAdd(msg.mount) ELSE Ignored
         [] msg.kind = "remove" ->
              IF up /\ IsThere(msg.key) THEN MountRemove(msg.key, msg.reason) ELSE Ignored
         [] msg.kind = "reply" -> Answered(msg.key)
         [] msg.kind = "refusal" -> Refused
  /\ UNCHANGED hostVars

-----------------------------------------------------------------------------
(* The host.                                                               *)

AppVars == <<up, polled, mirror, watching, shown, told, call, subscribed>>

Add(mount) == [kind |-> "add", mount |-> mount]

\* The host mounts, or announces a mount again in another mode.
HostMounts(mount) ==
  /\ changes < MaxChanges
  /\ mount \notin hostMounts
  /\ changes' = changes + 1
  /\ hostMounts' = {m \in hostMounts : m.key # mount.key} \union {mount}
  /\ toApp' = Append(toApp, Add(mount))
  /\ UNCHANGED <<asked, working>>
  /\ UNCHANGED AppVars

\* Revoked, unshared, signed out, unmounted or deleted: an older host sends
\* no reason.
HostRemoves(mount, reason) ==
  /\ changes < MaxChanges
  /\ mount \in hostMounts
  /\ changes' = changes + 1
  /\ hostMounts' = hostMounts \ {mount}
  /\ toApp' = Append(toApp, [kind |-> "remove", key |-> mount.key, reason |-> reason])
  /\ UNCHANGED <<asked, working>>
  /\ UNCHANGED AppVars

\* The host answers request-mounts: it announces every mount.
HostReplays ==
  /\ asked
  /\ asked' = FALSE
  /\ \E order \in [1..Cardinality(hostMounts) -> hostMounts] :
       /\ \A m \in hostMounts : \E i \in DOMAIN order : order[i] = m
       /\ toApp' = toApp \o [i \in DOMAIN order |-> Add(order[i])]
  /\ UNCHANGED hostVars
  /\ UNCHANGED AppVars

HostAnswers(answer) ==
  /\ working
  /\ working' = FALSE
  /\ toApp' = Append(toApp, answer)
  /\ UNCHANGED <<hostMounts, changes, asked>>
  /\ UNCHANGED AppVars

-----------------------------------------------------------------------------

Answers == [kind : {"reply"}, key : Keys] \union [kind : {"refusal"}]

Next ==
  \/ Watch \/ Unwatch
  \/ Request \/ TimeOut
  \/ Deliver
  \/ \E mount \in SandboxMount : HostMounts(mount)
  \/ \E mount \in hostMounts, reason \in {"deleted", "absent"} : HostRemoves(mount, reason)
  \/ HostReplays
  \/ \E answer \in Answers : HostAnswers(answer)

Spec == Init /\ [][Next]_vars

\* The bus delivers and the host answers request-mounts; it owes the call
\* neither an answer nor a mount.
FairSpec == Spec /\ WF_vars(Deliver) /\ WF_vars(HostReplays)

-----------------------------------------------------------------------------
(* Properties.                                                             *)

Messages ==
  [kind : {"add"}, mount : SandboxMount]
    \union [kind : {"remove"}, key : Keys, reason : {"deleted", "absent"}]
    \union Answers

TypeOK ==
  /\ hostMounts \subseteq SandboxMount /\ OnePerKey(hostMounts)
  /\ changes \in 0..MaxChanges
  /\ asked \in BOOLEAN /\ working \in BOOLEAN
  /\ toApp \in Seq(Messages)
  /\ up \in BOOLEAN /\ polled \in BOOLEAN
  /\ mirror \subseteq SandboxMount
  /\ watching \in BOOLEAN
  /\ shown \subseteq SandboxMount
  /\ told \subseteq [key : Keys, reason : MountRemoveReason]
  /\ call \in [pc : {"idle", "asked", "waiting", "got", "timeout", "refused"},
               key : Keys \union {NoKey}, bounded : BOOLEAN]
  /\ subscribed \in BOOLEAN

(***************************************************************************)
(* Once the replay has been asked for and every announcement has arrived,  *)
(* the mirror is the host's mounts: neither the messages sent before the   *)
(* service started, nor a replay that repeats others, nor a change of mode *)
(* leaves a mount too many or too few (transportMountService).             *)
(***************************************************************************)
Quiet == \A i \in 1..Len(toApp) : toApp[i].kind \notin {"add", "remove"}

MirrorConverges == polled /\ ~asked /\ Quiet => mirror = hostMounts

(***************************************************************************)
(* A listener is called with each change: what it was last shown is the    *)
(* mirror, and exactly the keys that left it were told as removed.  A      *)
(* change of mode is no removal.                                           *)
(***************************************************************************)
KeysOf(ms) == {m.key : m \in ms}

WatcherFollows ==
  [][ watching /\ watching' /\ mirror' # mirror =>
        /\ shown' = mirror'
        /\ KeysOf(told') = KeysOf(mirror) \ KeysOf(mirror') ]_vars

(***************************************************************************)
(* A call does not wait for a mount that is there, whether it came before  *)
(* the wait or during it, if the mount has an id; and a wait that is over, *)
(* by its mount or by its bound, has no listener left on the service, also *)
(* when it was over within its first replay (awaitMatchingMount).          *)
(***************************************************************************)
WaitSeesMount ==
  /\ call.pc = "waiting" /\ call.key \in WithId => call.key \notin KeysOf(mirror)
  /\ call.pc \in {"got", "timeout"} => ~subscribed

(***************************************************************************)
(* The mirror comes to be the host's mounts, and the wait sees the mirror. *)
(***************************************************************************)
HostIsFollowed == MirrorConverges /\ WaitSeesMount

(***************************************************************************)
(* No call waits for ever for a mount that stays mounted, although it may  *)
(* have been announced before the app first listened.                      *)
(***************************************************************************)
WaitsInVain(key) ==
  polled /\ call.pc = "waiting" /\ call.key = key /\ key \in KeysOf(hostMounts)

NoWaitInVain == \A key \in WithId : ~<>[]WaitsInVain(key)

(***************************************************************************)
(* What the source says and the code does not keep for a mount without an  *)
(* id: "Request a space mount, then wait until the host actually registers *)
(* it", with the key "its `id` (spaceId) when present, else its `path`"    *)
(* (mounts.ts).                                                            *)
(***************************************************************************)
NoMountOverlooked == call.pc = "waiting" => call.key \notin KeysOf(mirror)
=============================================================================
