---------------------------- MODULE BoundedCall -----------------------------
(***************************************************************************)
(* One bounded host call (withDeadline, sandboxUtils.ts, with the          *)
(* suspendable deadline of protocolDeadline.ts) and the host-attention     *)
(* channel that suspends it (hostAttention.ts over pushChannel.ts).        *)
(*                                                                         *)
(* Three timers run: the idle leg, cleared while the host asks a person    *)
(* and restarted in full after; the ceiling, never suspended; and the      *)
(* pending notice.  The bus to the app is FIFO and delays messages; the    *)
(* host answers when it likes or never, and may prompt on behalf of any    *)
(* app.  A timer that is due fires before time goes on; what else happens  *)
(* in that instant may come before it.                                     *)
(*                                                                         *)
(* The channel ignores malformed pushes and the notice swallows what the   *)
(* caller's callback throws: both are left out.                            *)
(***************************************************************************)
EXTENDS Naturals, Sequences

CONSTANTS
  Horizon,    \* ticks that are told apart: beyond every finite bound
  Infinity,   \* no bound; a timer that is not armed
  Notice,     \* PENDING_NOTICE_MS, in ticks
  Calls,      \* the [idle, ceiling, signal, onPending] a call may have
  MaxPushes   \* how often the host's prompt comes or goes

VARIABLES
  call,       \* this call's bounds and options
  pc,         \* where the call is
  timers,     \* ticks until each timer fires, Infinity when not armed
  aborted,    \* signal.aborted
  current,    \* the channel's value: is a person being asked
  started,    \* the channel has its push listener
  attached,   \* the call listens to the channel
  awaiting,   \* attention.awaiting, as the call knows it
  told,       \* what the last notice said of awaiting
  prompting,  \* a host prompt is on screen
  pushes,     \* how often it has come or gone
  polled,     \* a poll of the channel is on its way to the host
  working,    \* the host works on the call
  toApp,      \* messages on their way to the app
  elapsed,    \* history: ticks since the call started
  quiet,      \* history: ticks since then or since the last prompt went away
  outcome     \* how the call settled

channelVars == <<current, started, polled>>
hostVars == <<prompting, pushes, working>>
vars == <<call, pc, timers, aborted, current, started, attached, awaiting,
          told, prompting, pushes, polled, working, toApp, elapsed, quiet,
          outcome>>

Ticks == 0..Horizon \union {Infinity}

ASSUME BoundAssumption ==
  /\ Horizon \in Nat \ {0}
  /\ Infinity \in Nat /\ Infinity > Horizon
  /\ Notice \in 1..Horizon
  /\ MaxPushes \in Nat
  /\ Calls \subseteq [idle : Ticks \ {0}, ceiling : Ticks \ {0},
                      signal : BOOLEAN, onPending : BOOLEAN]
  /\ \A c \in Calls : c.idle <= c.ceiling /\ c.ceiling # Horizon

Unarmed == [idle |-> Infinity, ceiling |-> Infinity, notice |-> Infinity]

Init ==
  /\ call \in Calls
  /\ pc = "called"
  /\ timers = Unarmed
  /\ aborted = FALSE
  /\ started \in BOOLEAN
  /\ prompting \in BOOLEAN
  /\ current = (started /\ prompting)
  /\ attached = FALSE
  /\ awaiting = FALSE
  /\ told = "nothing"
  /\ pushes = 0
  /\ polled = FALSE
  /\ working = FALSE
  /\ toApp = <<>>
  /\ elapsed = 0
  /\ quiet = 0
  /\ outcome = "open"

-----------------------------------------------------------------------------
(* The deadline.                                                           *)

\* hasIdleLeg: an idle bound that is not below the ceiling is not armed.
IdleLeg == IF call.idle < call.ceiling THEN call.idle ELSE Infinity

\* Mutant of Armed: the ceiling is left to the idle leg, where there is one.
ArmedIdleFirst ==
  [ idle |-> IdleLeg,
    ceiling |-> IF IdleLeg = Infinity THEN call.ceiling ELSE Infinity,
    notice |-> IF call.onPending THEN Notice ELSE Infinity ]

Armed ==
  [ idle |-> IdleLeg,
    ceiling |-> call.ceiling,
    notice |-> IF call.onPending THEN Notice ELSE Infinity ]

\* Mutants of Suspended: a prompt leaves the idle leg running; a prompt clears
\* the ceiling too.
SuspendedNever(armed, asked) == armed
SuspendedWhole(armed, asked) ==
  IF asked THEN [armed EXCEPT !.idle = Infinity, !.ceiling = Infinity]
           ELSE [armed EXCEPT !.idle = IF @ = Infinity THEN IdleLeg ELSE @]

\* setAwaiting: disarm the idle leg, or arm it in full unless it is armed.
Suspended(armed, asked) ==
  [armed EXCEPT !.idle = IF asked THEN Infinity
                         ELSE IF @ = Infinity THEN IdleLeg ELSE @]

-----------------------------------------------------------------------------
(* The call.                                                               *)

\* Mutant of Disposed: the notice outlives its call.
DisposedButNotice == [Unarmed EXCEPT !.notice = timers.notice]

Disposed == Unarmed

\* The promise settles and the finally runs: the timers, the subscription
\* and the abort listener are gone.
End(how) ==
  /\ pc' = "ended"
  /\ outcome' = how
  /\ timers' = Disposed
  /\ attached' = FALSE

Refused == call.signal /\ aborted

\* No bound, no abort and no notice wanted: the untouched promise.
Raw == call.ceiling = Infinity /\ ~call.signal /\ ~call.onPending

\* The call begins.  An aborted one sends nothing, and `start` throws when
\* there is no transport; else the deadline is armed and the channel, which
\* starts itself and reports its value at once, is subscribed to.  A fault
\* there leaves the call without the signal.
Begin ==
  /\ pc = "called"
  /\ \/ /\ Refused
        /\ End("cancelled")
        /\ UNCHANGED <<working, awaiting>>
        /\ UNCHANGED channelVars
     \/ /\ ~Refused
        /\ End("unsent")
        /\ UNCHANGED <<working, awaiting>>
        /\ UNCHANGED channelVars
     \/ /\ ~Refused /\ Raw
        /\ pc' = "raw"
        /\ working' = TRUE
        /\ UNCHANGED <<timers, attached, awaiting, outcome>>
        /\ UNCHANGED channelVars
     \/ /\ ~Refused /\ ~Raw
        /\ pc' = "waiting"
        /\ working' = TRUE
        /\ \/ /\ attached' = TRUE
              /\ started' = TRUE
              /\ polled' = (polled \/ ~started)
              /\ awaiting' = current
              /\ timers' = Suspended(Armed, current)
           \/ /\ timers' = Armed
              /\ UNCHANGED <<attached, awaiting, started, polled>>
        /\ UNCHANGED <<current, outcome>>
  /\ UNCHANGED <<call, aborted, told, prompting, pushes, toApp, elapsed, quiet>>

Abort ==
  /\ call.signal /\ ~aborted
  /\ pc \in {"called", "waiting"}
  /\ aborted' = TRUE
  /\ IF pc = "waiting" THEN End("cancelled")
                       ELSE UNCHANGED <<pc, outcome, timers, attached>>
  /\ UNCHANGED <<call, awaiting, told, toApp, elapsed, quiet>>
  /\ UNCHANGED channelVars /\ UNCHANGED hostVars

\* A bound runs out: the idle leg or the ceiling.
Expire ==
  /\ pc = "waiting"
  /\ \/ timers.idle = 0 /\ End("idle")
     \/ timers.ceiling = 0 /\ End("ceiling")
  /\ UNCHANGED <<call, aborted, awaiting, told, toApp, elapsed, quiet>>
  /\ UNCHANGED channelVars /\ UNCHANGED hostVars

Word(asked) == IF asked THEN "asking" ELSE "working"

\* The notice timer fires: the caller is told what the host waits for.
Notify ==
  /\ pc = "waiting"
  /\ timers.notice = 0
  /\ timers' = [timers EXCEPT !.notice = Infinity]
  /\ told' = Word(awaiting)
  /\ UNCHANGED <<call, pc, aborted, attached, awaiting, toApp, elapsed, quiet, outcome>>
  /\ UNCHANGED channelVars /\ UNCHANGED hostVars

-----------------------------------------------------------------------------
(* Messages to the app.                                                    *)

\* Mutant of Retold: the caller is told of a prompt, not of its end.
RetoldPrompts(asked) ==
  IF told # "nothing" /\ asked /\ ~awaiting THEN Word(asked) ELSE told

\* Once the notice has fired, each change is told.
Retold(asked) ==
  IF told # "nothing" /\ asked # awaiting THEN Word(asked) ELSE told

\* The channel caches the value and calls its listeners.
Pushed(asked) ==
  /\ current' = (IF started THEN asked ELSE current)
  /\ IF attached
       THEN /\ awaiting' = asked
            /\ timers' = Suspended(timers, asked)
            /\ told' = Retold(asked)
            /\ quiet' = IF asked THEN 0 ELSE quiet
       ELSE UNCHANGED <<awaiting, timers, told, quiet>>
  /\ UNCHANGED <<pc, attached, outcome>>

\* The host's answer settles a call that still waits; a late one is
\* swallowed.
Answered(how) ==
  /\ IF pc = "ended" THEN UNCHANGED <<pc, outcome, timers, attached>> ELSE End(how)
  /\ UNCHANGED <<current, awaiting, told, quiet>>

Deliver ==
  /\ toApp # <<>>
  /\ toApp' = Tail(toApp)
  /\ CASE Head(toApp) = "prompt" -> Pushed(TRUE)
       [] Head(toApp) = "clear" -> Pushed(FALSE)
       [] OTHER -> Answered(Head(toApp))
  /\ UNCHANGED <<call, aborted, started, polled, elapsed>>
  /\ UNCHANGED hostVars

-----------------------------------------------------------------------------
(* The host and the clock.                                                 *)

Report(asked) == IF asked THEN "prompt" ELSE "clear"

\* A prompt comes on screen or goes away, and the host pushes it.
HostPrompts ==
  /\ pushes < MaxPushes
  /\ pushes' = pushes + 1
  /\ prompting' = ~prompting
  /\ toApp' = Append(toApp, Report(~prompting))
  /\ UNCHANGED <<call, pc, timers, aborted, attached, awaiting, told, working,
                 elapsed, quiet, outcome>>
  /\ UNCHANGED channelVars

\* The host answers the channel's poll with the current value.
HostReports ==
  /\ polled
  /\ polled' = FALSE
  /\ toApp' = Append(toApp, Report(prompting))
  /\ UNCHANGED <<call, pc, timers, aborted, current, started, attached, awaiting,
                 told, elapsed, quiet, outcome>>
  /\ UNCHANGED hostVars

HostAnswers(how) ==
  /\ working
  /\ working' = FALSE
  /\ toApp' = Append(toApp, how)
  /\ UNCHANGED <<call, pc, timers, aborted, attached, awaiting, told, prompting,
                 pushes, elapsed, quiet, outcome>>
  /\ UNCHANGED channelVars

Earlier(ticks) == IF ticks = Infinity THEN Infinity ELSE ticks - 1
Later(ticks) == IF ticks < Horizon THEN ticks + 1 ELSE ticks

\* Time passes while no timer is due.  Waits beyond the horizon are not
\* told apart.
Tick ==
  /\ pc = "waiting"
  /\ timers.idle > 0 /\ timers.ceiling > 0 /\ timers.notice > 0
  /\ timers' = [ idle |-> Earlier(timers.idle),
                 ceiling |-> Earlier(timers.ceiling),
                 notice |-> Earlier(timers.notice) ]
  /\ elapsed' = Later(elapsed)
  /\ quiet' = IF awaiting THEN 0 ELSE Later(quiet)
  /\ UNCHANGED <<call, pc, aborted, attached, awaiting, told, toApp, outcome>>
  /\ UNCHANGED channelVars /\ UNCHANGED hostVars

-----------------------------------------------------------------------------

Answers == {"answered", "failed"}

Next ==
  \/ Begin \/ Abort \/ Expire \/ Notify
  \/ Deliver
  \/ HostPrompts \/ HostReports \/ \E how \in Answers : HostAnswers(how)
  \/ Tick

Spec == Init /\ [][Next]_vars

\* Timers fire and time passes; the host owes nothing, neither an answer nor
\* the end of a prompt.
FairSpec == Spec /\ WF_vars(Tick) /\ WF_vars(Expire) /\ WF_vars(Notify)

-----------------------------------------------------------------------------
(* Properties.                                                             *)

TypeOK ==
  /\ call \in Calls
  /\ pc \in {"called", "raw", "waiting", "ended"}
  /\ timers \in [idle : Ticks, ceiling : Ticks, notice : Ticks]
  /\ aborted \in BOOLEAN
  /\ current \in BOOLEAN /\ started \in BOOLEAN
  /\ attached \in BOOLEAN /\ awaiting \in BOOLEAN
  /\ told \in {"nothing", "asking", "working"}
  /\ prompting \in BOOLEAN /\ pushes \in 0..MaxPushes
  /\ polled \in BOOLEAN /\ working \in BOOLEAN
  /\ toApp \in Seq({"prompt", "clear"} \union Answers)
  /\ elapsed \in 0..Horizon /\ quiet \in 0..Horizon
  /\ outcome \in {"open", "cancelled", "unsent", "idle", "ceiling"} \union Answers

(***************************************************************************)
(* A call never waits past its ceiling, however often and however long the *)
(* host prompts: the attention signal extends a deadline and never removes *)
(* it (createSuspendableDeadline).                                         *)
(***************************************************************************)
CeilingHolds ==
  pc = "waiting" /\ call.ceiling # Infinity => elapsed <= call.ceiling

(***************************************************************************)
(* A call that times out on its idle bound waited the whole bound without  *)
(* a prompt that it knew of: the time before or during a prompt never      *)
(* counts against it (the idle leg restarts in full).                      *)
(***************************************************************************)
IdleMeansFault == outcome = "idle" => ~awaiting /\ quiet >= call.idle

(***************************************************************************)
(* A host that asks nobody and does not answer is reported at the idle     *)
(* bound: prompts that come and go, and repeated reports that nobody is    *)
(* asked, do not put it off.                                               *)
(***************************************************************************)
FaultReported ==
  pc = "waiting" /\ IdleLeg # Infinity /\ ~awaiting => quiet <= call.idle

(***************************************************************************)
(* Both at once: prompts extend a deadline, and nothing removes it.        *)
(***************************************************************************)
WaitIsBounded == CeilingHolds /\ FaultReported

(***************************************************************************)
(* An aborted call does not wait, whether the abort came before the call   *)
(* or during it: no event comes from a signal that is aborted already.     *)
(***************************************************************************)
AbortedNeverWaits == pc = "waiting" => ~aborted

(***************************************************************************)
(* What a waiting caller was last told is what the host is doing: once the *)
(* notice has fired, each prompt and its end are told.                     *)
(***************************************************************************)
CallerToldCurrent ==
  pc = "waiting" /\ told # "nothing" => told = Word(awaiting)

(***************************************************************************)
(* A settled call leaves no timer and no listener behind (the finally).    *)
(***************************************************************************)
LeavesNothing == pc = "ended" => timers = Unarmed /\ ~attached

(***************************************************************************)
(* A call with a finite ceiling settles even if the host neither answers   *)
(* nor ends its prompt.                                                    *)
(***************************************************************************)
Settles == (pc = "waiting" /\ call.ceiling # Infinity) ~> (pc = "ended")

-----------------------------------------------------------------------------
(***************************************************************************)
(* The bounds a scheme gives its calls (protocolDeadline.ts): a call that  *)
(* may wait for a person has long ones, and a short idle bound only where  *)
(* the host announces every prompt.  No entry of the table is for one      *)
(* method, so a method is left out.                                        *)
(***************************************************************************)
CONSTANTS
  UnattendedTimeout,  \* UNATTENDED_TIMEOUT_MS, in ticks
  NetworkTimeout,     \* NETWORK_TIMEOUT_MS
  AttendedTimeout,    \* ATTENDED_TIMEOUT_MS
  Schemes,            \* the schemes of calls
  Named               \* the bounds a caller may name: one or none, Infinity among them

VARIABLES
  scheme,             \* the scheme of the call
  named               \* whether its caller named the bound

NoIdle == 0

\* ATTENDED: the schemes that may ask a person, with the idle bound of those of which
\* the host announces every prompt.
Attended == [
  secrets    |-> UnattendedTimeout,
  spaces     |-> UnattendedTimeout,
  settings   |-> UnattendedTimeout,
  recents    |-> UnattendedTimeout,
  contribute |-> NoIdle,
  task       |-> NoIdle,
  launch     |-> NoIdle,
  dnd        |-> NoIdle,
  llm        |-> NetworkTimeout ]

MayAsk == DOMAIN Attended
Announced == {s \in MayAsk : Attended[s] # NoIdle}

TimeoutFor(s) ==
  IF s \in MayAsk THEN AttendedTimeout ELSE IF s = "fetch" THEN NetworkTimeout ELSE UnattendedTimeout

Least(a, b) == IF a <= b THEN a ELSE b

\* Mutant of BoundsFor: a scheme that names no idle bound gets the short one.
BoundsForAll(s) ==
  [ idle |-> Least(IF s \in Announced THEN Attended[s] ELSE UnattendedTimeout, TimeoutFor(s)), ceiling |-> TimeoutFor(s) ]

\* An idle bound only ever tightens.
BoundsFor(s) ==
  [ idle |-> IF s \in Announced THEN Least(Attended[s], TimeoutFor(s)) ELSE TimeoutFor(s),
    ceiling |-> TimeoutFor(s) ]

\* A bound that the caller names is the whole of it.
Bounds == IF named THEN {[idle |-> t, ceiling |-> t] : t \in Named} ELSE {BoundsFor(scheme)}

SchemeInit ==
  /\ scheme \in Schemes
  /\ named \in BOOLEAN
  /\ Init
  /\ [idle |-> call.idle, ceiling |-> call.ceiling] \in Bounds

SchemeNext == Next /\ UNCHANGED <<scheme, named>>

SchemeSpec ==
  /\ SchemeInit /\ [][SchemeNext]_<<vars, scheme, named>>
  /\ WF_vars(Tick) /\ WF_vars(Expire) /\ WF_vars(Notify)

(***************************************************************************)
(* Nobody is cut off while deciding: a call that may ask a person gives up *)
(* before the attended bound only where the host announces its prompts,    *)
(* and then after a whole idle bound in which it knew of none.  A signal   *)
(* that cannot fire never shortens a deadline (protocolDeadline.ts:50); a  *)
(* call to the network has the network's bound.                            *)
(***************************************************************************)
PeopleHaveTime ==
  outcome \in {"idle", "ceiling"} /\ ~named =>
    \/ elapsed >= AttendedTimeout
    \/ scheme \in Announced /\ ~awaiting /\ quiet >= Attended[scheme]
    \/ scheme \notin MayAsk /\ elapsed >= (IF scheme = "fetch" THEN NetworkTimeout ELSE UnattendedTimeout)
=============================================================================
