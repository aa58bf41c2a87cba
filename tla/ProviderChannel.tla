-------------------------- MODULE ProviderChannel --------------------------
(***************************************************************************)
(* A push channel (pushChannel.ts) with the one instance that keeps state  *)
(* beside its value: the chat provider of llm.ts, with the readers its     *)
(* surface offers, a hook that keeps the value and derives the four states *)
(* while it renders, and a subscriber that is told a state at every push.  *)
(***************************************************************************)
EXTENDS HostBus

CONSTANTS
    Providers,          \* providers a host may resolve
    NoProvider,         \* null
    ProviderHooks,      \* components that call useChatProviderState
    StateSubscribers,   \* callers of onChatProviderStateChange
    MaxProviderChanges  \* bound: changes of the host's answer

ASSUME ProviderAssumption == NoProvider \notin Providers /\ MaxProviderChanges \in Nat

VARIABLES
    hostProvider,     \* the host's answer: the provider and the grantless mark
    providerChanges,  \* how often it changed
    started, current, \* of createPushChannel
    answered, ungrantedMark,
    hookPhase,        \* "out", "painted" (effects to run), "subscribed"
    hookValue,        \* what the hook's useState holds
    hookState,        \* the state it derived when it last rendered
    toldState,        \* per subscriber, the last state its listener was given
    pollLost          \* history: started without its poll, and the answer has not changed since

providerVars == <<hostProvider, providerChanges, started, current, answered,
                  ungrantedMark, hookPhase, hookValue, hookState, toldState, pollLost>>

Unusable == [provider |-> "missing", ungranted |-> FALSE]   \* a message parse refuses
NotTold == "nobody"                 \* a subscriber that is not subscribed

\* What a host answers: the mark comes with the grantless view only, which has no provider.
Answers == [provider : Providers \union {NoProvider}, ungranted : {FALSE}]
           \union [provider : {NoProvider}, ungranted : {TRUE}]

\* deriveChatProviderState: `unknown` wins, then the mark, then the provider.
DeriveState(said, mark, provider) ==
    IF ~said THEN "unknown"
    ELSE IF mark THEN "ungranted"
    ELSE IF provider = NoProvider THEN "not-configured" ELSE "configured"

StateOf(provider) == DeriveState(answered, ungrantedMark, provider)

ProviderInit ==
    /\ hostProvider \in Answers
    /\ providerChanges = 0
    /\ started = FALSE
    /\ current = NoProvider
    /\ answered = FALSE
    /\ ungrantedMark = FALSE
    /\ hookPhase = [h \in ProviderHooks |-> "out"]
    /\ hookValue = [h \in ProviderHooks |-> NoProvider]
    /\ hookState = [h \in ProviderHooks |-> "unknown"]
    /\ toldState = [s \in StateSubscribers |-> NotTold]
    /\ pollLost = FALSE

----------------------------------------------------------------------------
(* Reading *)

\* start(): listen and poll once.  Without a transport nothing is latched and the next read
\* tries again; a poll that cannot be sent is swallowed and never sent again.
Start ==
    IF started \/ ~HasTransport
    THEN UNCHANGED <<started, pollLost, polls>>
    ELSE /\ started' = TRUE
         /\ pollLost' = ~CanSend
         /\ polls' = IF CanSend THEN polls \union {"request-llm-provider"} ELSE polls

providerRest == <<hostProvider, providerChanges, current, answered, ungrantedMark>>

\* describeChat, describeChatState: get().
Describe ==
    /\ Start
    /\ UNCHANGED <<hookPhase, hookValue, hookState, toldState>>
    /\ UNCHANGED <<providerRest, transport, toApp>>

\* First render of the hook: useState(get), then the state of what it returned.
Paint(h) ==
    /\ hookPhase[h] = "out"
    /\ Start
    /\ hookPhase' = [hookPhase EXCEPT ![h] = "painted"]
    /\ hookValue' = [hookValue EXCEPT ![h] = current]
    /\ hookState' = [hookState EXCEPT ![h] = StateOf(current)]
    /\ UNCHANGED <<toldState, providerRest, transport, toApp>>

\* setValue renders again unless the value is the one it holds.  A usable provider is a new
\* object at every push, so only null is ever the same.
Rerenders(h, value) == value # hookValue[h] \/ value # NoProvider

\* Mutant of Effect: the listener is not called on subscription.
EffectSilent(h) ==
    /\ hookPhase[h] = "painted"
    /\ Start
    /\ hookPhase' = [hookPhase EXCEPT ![h] = "subscribed"]
    /\ UNCHANGED <<hookValue, hookState, toldState, providerRest, transport, toApp>>

\* The hook's effect: onChange(setValue), which calls setValue at once.
Effect(h) ==
    /\ hookPhase[h] = "painted"
    /\ Start
    /\ hookPhase' = [hookPhase EXCEPT ![h] = "subscribed"]
    /\ hookValue' = [hookValue EXCEPT ![h] = current]
    /\ hookState' = IF Rerenders(h, current)
                    THEN [hookState EXCEPT ![h] = StateOf(current)] ELSE hookState
    /\ UNCHANGED <<toldState, providerRest, transport, toApp>>

Unmount(h) ==
    /\ hookPhase[h] # "out"
    /\ hookPhase' = [hookPhase EXCEPT ![h] = "out"]
    /\ UNCHANGED <<started, pollLost, hookValue, hookState, toldState, providerRest, busVars>>

\* The component renders for a reason of its own.
RenderAgain(h) ==
    /\ hookPhase[h] # "out"
    /\ hookState' = [hookState EXCEPT ![h] = StateOf(hookValue[h])]
    /\ UNCHANGED <<started, pollLost, hookPhase, hookValue, toldState, providerRest, busVars>>

\* onChatProviderStateChange: onChange with a listener that derives the state.
Subscribe(s) ==
    /\ toldState[s] = NotTold
    /\ Start
    /\ toldState' = [toldState EXCEPT ![s] = StateOf(current)]
    /\ UNCHANGED <<hookPhase, hookValue, hookState, providerRest, transport, toApp>>

Unsubscribe(s) ==
    /\ toldState[s] # NotTold
    /\ toldState' = [toldState EXCEPT ![s] = NotTold]
    /\ UNCHANGED <<started, pollLost, hookPhase, hookValue, hookState, providerRest, busVars>>

----------------------------------------------------------------------------
(* The host *)

\* The host pushes whenever its answer changes.
HostChangesProvider(a) ==
    /\ providerChanges < MaxProviderChanges
    /\ a # hostProvider
    /\ HostSends("llm-provider", a)
    /\ hostProvider' = a
    /\ providerChanges' = providerChanges + 1
    /\ pollLost' = FALSE
    /\ UNCHANGED <<started, current, answered, ungrantedMark, hookPhase, hookValue,
                   hookState, toldState, transport, polls>>

HostAnswersProvider ==
    /\ "request-llm-provider" \in polls
    /\ HostSends("llm-provider", hostProvider)
    /\ polls' = polls \ {"request-llm-provider"}
    /\ UNCHANGED <<providerVars, transport>>

HostSendsUnusable ==
    /\ HostSends("llm-provider", Unusable)
    /\ UNCHANGED <<providerVars, transport, polls>>

----------------------------------------------------------------------------
(* A push arrives: parse, then every listener *)

Subscribed == {h \in ProviderHooks : hookPhase[h] = "subscribed"}

\* The channel's handler with a usable message: parse keeps the mark and the fact of the
\* answer beside the value; the listeners are called with the value.
Receive(answer) ==
    LET value == answer.provider
        state == DeriveState(TRUE, answer.ungranted, value)
    IN /\ answered' = TRUE
       /\ ungrantedMark' = answer.ungranted
       /\ current' = value
       /\ hookValue' = [h \in ProviderHooks |-> IF h \in Subscribed THEN value ELSE hookValue[h]]
       /\ hookState' = [h \in ProviderHooks |->
                          IF h \in Subscribed /\ Rerenders(h, value) THEN state ELSE hookState[h]]
       /\ toldState' = [s \in StateSubscribers |->
                          IF toldState[s] # NotTold THEN state ELSE NotTold]

\* Nobody listens before the channel is started: the message is gone.
PushArrives ==
    /\ Arriving("llm-provider")
    /\ toApp' = Tail(toApp)
    /\ IF started /\ Head(toApp).body # Unusable
       THEN Receive(Head(toApp).body)
       ELSE UNCHANGED <<answered, ungrantedMark, current, hookValue, hookState, toldState>>
    /\ UNCHANGED <<hostProvider, providerChanges, started, hookPhase, pollLost, transport, polls>>

ProviderNext ==
    \/ Describe
    \/ \E h \in ProviderHooks : Paint(h) \/ Effect(h) \/ Unmount(h) \/ RenderAgain(h)
    \/ \E s \in StateSubscribers : Subscribe(s) \/ Unsubscribe(s)
    \/ \E a \in Answers : HostChangesProvider(a)
    \/ HostAnswersProvider
    \/ HostSendsUnusable
    \/ PushArrives

ProviderTypeOK ==
    /\ hostProvider \in Answers
    /\ providerChanges \in 0..MaxProviderChanges
    /\ {started, answered, ungrantedMark, pollLost} \subseteq BOOLEAN
    /\ current \in Providers \union {NoProvider}
    /\ hookPhase \in [ProviderHooks -> {"out", "painted", "subscribed"}]
    /\ hookValue \in [ProviderHooks -> Providers \union {NoProvider}]
    /\ hookState \in [ProviderHooks -> {"unknown", "ungranted", "not-configured", "configured"}]
    /\ toldState \in [StateSubscribers -> {NotTold, "unknown", "ungranted", "not-configured",
                                           "configured"}]

============================================================================
