-------------------------- MODULE AppState_proofs --------------------------
(***************************************************************************)
(* What the state of an app keeps for every number of components,          *)
(* listeners, reads, dialogs and launches, and every order in which the    *)
(* host's messages, the app's calls and its effects come.                  *)
(*                                                                         *)
(* A step is a step of one part; so each part has an invariant of its own, *)
(* which the others leave alone because they leave its variables alone.    *)
(***************************************************************************)
EXTENDS AppState, SequenceTheorems, FiniteSetTheorems, WellFoundedInduction, TLAPS

-----------------------------------------------------------------------------
(* Steps and parts. *)

\* A step moves one part, or none; what is on its way to the app is moved by that part.
LEMMA PartStep ==
  ASSUME [Next]_vars
  PROVE  /\ part' = part
         /\ (part = "provider" /\ ProviderNext) \/ (UNCHANGED providerVars /\ (part = "provider" => UNCHANGED toApp))
         /\ (part = "task" /\ TaskNext) \/ (UNCHANGED taskVars /\ (part = "task" => UNCHANGED toApp))
         /\ (part = "boot" /\ BootNext) \/ UNCHANGED bootVars
         /\ (part = "debug" /\ DebugNext) \/ (UNCHANGED debugVars /\ (part = "debug" => UNCHANGED toApp))
         /\ (part = "entry" /\ EntryNext) \/ UNCHANGED entryVars
         /\ (part = "sources" /\ SourcesNext) \/ UNCHANGED cacheVars
         /\ (part = "pictures" /\ PicturesNext) \/ UNCHANGED urlVars
         /\ (part = "dialogs" /\ DialogsNext) \/ UNCHANGED dialogVars
         /\ (part = "launch" /\ LaunchNext) \/ (UNCHANGED launchVars /\ (part = "launch" => UNCHANGED toApp))
         /\ (part = "snapshots" /\ SnapshotsNext) \/ UNCHANGED snapshotVars
         /\ (part = "files" /\ FilesNext) \/ UNCHANGED fileVars
         /\ (part = "links" /\ LinksNext) \/ UNCHANGED linkVars
         /\ (part = "metadata" /\ MetadataNext) \/ UNCHANGED metadataVars
         /\ (part = "routes" /\ RoutesNext) \/ UNCHANGED routeVars
         /\ (part = "chat" /\ ChatNext) \/ UNCHANGED chatVars
         /\ (part = "replies" /\ RepliesNext) \/ UNCHANGED replyVars
<1>1. CASE BusNext
  BY <1>1 DEF BusNext, TransportArrives, TransportReady
<1>2. CASE Only("provider") /\ ProviderNext
  BY <1>2 DEF Only
<1>3. CASE Only("task") /\ TaskNext
  BY <1>3 DEF Only
<1>4. CASE Only("boot") /\ BootNext
  BY <1>4 DEF Only
<1>5. CASE Only("debug") /\ DebugNext
  BY <1>5 DEF Only
<1>6. CASE Only("entry") /\ EntryNext
  BY <1>6 DEF Only
<1>7. CASE Only("sources") /\ SourcesNext
  BY <1>7 DEF Only
<1>8. CASE Only("pictures") /\ PicturesNext
  BY <1>8 DEF Only
<1>9. CASE Only("dialogs") /\ DialogsNext
  BY <1>9 DEF Only
<1>10. CASE Only("launch") /\ LaunchNext
  BY <1>10 DEF Only
<1>11. CASE Only("snapshots") /\ SnapshotsNext
  BY <1>11 DEF Only
<1>12. CASE Only("files") /\ FilesNext
  BY <1>12 DEF Only
<1>13. CASE Only("links") /\ LinksNext
  BY <1>13 DEF Only
<1>14. CASE Only("metadata") /\ MetadataNext
  BY <1>14 DEF Only
<1>15. CASE Only("routes") /\ RoutesNext
  BY <1>15 DEF Only
<1>16. CASE Only("replies") /\ RepliesNext
  BY <1>16 DEF Only
<1>17. CASE Only("chat") /\ ChatNext
  BY <1>17 DEF Only
<1>18. CASE UNCHANGED vars
  BY <1>18 DEF vars, busVars
<1> QED
  BY <1>1, <1>2, <1>3, <1>4, <1>5, <1>6, <1>7, <1>8, <1>9, <1>10,
     <1>11, <1>12, <1>13, <1>14, <1>15, <1>16, <1>17, <1>18 DEF Next

\* A step is one of the part that is followed, or leaves the part where it was.  Only the
\* parts on the bus share anything, and they share it one at a time.
LEMMA ProviderOrNot ==
  ASSUME [Next]_vars
  PROVE  /\ part' = part
         /\ \/ part = "provider" /\ ProviderNext
            \/ UNCHANGED providerVars /\ (part = "provider" => UNCHANGED toApp)
BY PartStep

\* The first message of a sequence, and what is left.
LEMMA FirstAndRest ==
  ASSUME NEW S, NEW q \in Seq(S), q # <<>>
  PROVE  Head(q) \in S /\ Tail(q) \in Seq(S)
OBVIOUS

LEMMA OneMore ==
  ASSUME NEW S, NEW q \in Seq(S), NEW e \in S
  PROVE  Append(q, e) \in Seq(S)
OBVIOUS

-----------------------------------------------------------------------------
(* The chat provider. *)

\* What the host has sent, as long as nobody else is on the bus.
ProviderMessages ==
  part = "provider" =>
    toApp \in Seq([type : {"llm-provider"}, body : Answers \union {Unusable}])

\* Whoever is subscribed was told what the channel knows.
ProviderTold ==
  /\ \A h \in Subscribed : hookValue[h] = current
  /\ \A s \in StateSubscribers : toldState[s] \in {NotTold, StateOf(current)}

ProviderInv == ProviderTypeOK /\ ProviderMessages /\ ProviderTold

LEMMA StateOfType == StateOf(current) \in {"unknown", "ungranted", "not-configured", "configured"}
BY DEF StateOf, DeriveState

LEMMA ProviderInitInv == BusInit /\ ProviderInit => ProviderInv
<1> SUFFICES ASSUME BusInit, ProviderInit PROVE ProviderInv
  OBVIOUS
<1>1. ProviderTypeOK
  <2>1. 0 \in 0..MaxProviderChanges
    BY ProviderAssumption
  <2>2. {started, answered, ungrantedMark, pollLost} \subseteq BOOLEAN
    BY DEF ProviderInit
  <2>3. hookPhase \in [ProviderHooks -> {"out", "painted", "subscribed"}]
    BY DEF ProviderInit
  <2>4. hookValue \in [ProviderHooks -> Providers \union {NoProvider}]
    BY DEF ProviderInit
  <2>5. hookState \in [ProviderHooks -> {"unknown", "ungranted", "not-configured", "configured"}]
    BY DEF ProviderInit
  <2>6. toldState \in [StateSubscribers -> {NotTold}]
    BY DEF ProviderInit
  <2> QED
    BY <2>1, <2>2, <2>3, <2>4, <2>5, <2>6 DEF ProviderInit, ProviderTypeOK
<1>2. ProviderMessages
  BY DEF BusInit, ProviderMessages
<1>3. ProviderTold
  BY DEF ProviderInit, ProviderTold, Subscribed
<1> QED
  BY <1>1, <1>2, <1>3 DEF ProviderInv

\* A step of the app: it may start the channel, and changes nothing the channel knows.
LEMMA ReaderStep ==
  ASSUME ProviderInv, part = "provider", part' = part, Start, UNCHANGED <<providerRest, transport, toApp>>,
         hookPhase' \in [ProviderHooks -> {"out", "painted", "subscribed"}],
         hookValue' \in [ProviderHooks -> Providers \union {NoProvider}],
         hookState' \in [ProviderHooks -> {"unknown", "ungranted", "not-configured", "configured"}],
         toldState' \in [StateSubscribers -> {NotTold, "unknown", "ungranted", "not-configured", "configured"}],
         \A h \in ProviderHooks : hookPhase'[h] = "subscribed" => hookValue'[h] = current,
         \A s \in StateSubscribers : toldState'[s] \in {NotTold, StateOf(current)}
  PROVE  ProviderInv'
<1>1. ProviderTypeOK'
  BY DEF ProviderInv, ProviderTypeOK, providerRest, Start, CanSend
<1>2. ProviderMessages'
  BY DEF ProviderInv, ProviderMessages
<1>3. ProviderTold'
  BY DEF ProviderTold, Subscribed, StateOf, providerRest
<1> QED
  BY <1>1, <1>2, <1>3 DEF ProviderInv

\* What a message is when it arrives.
LEMMA ProviderArrival ==
  ASSUME ProviderInv, part = "provider", Arriving("llm-provider")
  PROVE  /\ Head(toApp).body \in Answers \union {Unusable}
         /\ Tail(toApp) \in Seq([type : {"llm-provider"}, body : Answers \union {Unusable}])
<1> DEFINE Pushes == [type : {"llm-provider"}, body : Answers \union {Unusable}]
<1>1. toApp \in Seq(Pushes) /\ toApp # <<>>
  BY DEF ProviderInv, ProviderMessages, Arriving
<1>2. Head(toApp) \in Pushes /\ Tail(toApp) \in Seq(Pushes)
  <2> HIDE DEF Pushes
  <2> QED BY <1>1, FirstAndRest
<1> QED
  BY <1>2

LEMMA ProviderNextInv ==
  ASSUME ProviderInv, part = "provider", part' = part, ProviderNext
  PROVE  ProviderInv'
<1>0. ProviderTypeOK /\ ProviderTold /\ StateOf(current) \in {"unknown", "ungranted", "not-configured", "configured"}
  BY StateOfType DEF ProviderInv
<1>1. CASE Describe
  BY <1>0, <1>1, ReaderStep DEF Describe, ProviderTypeOK, ProviderTold, Subscribed
<1>2. ASSUME NEW h \in ProviderHooks, Paint(h)
      PROVE  ProviderInv'
  BY <1>0, <1>2, ReaderStep DEF Paint, ProviderTypeOK, ProviderTold, Subscribed
<1>3. ASSUME NEW h \in ProviderHooks, Effect(h)
      PROVE  ProviderInv'
  BY <1>0, <1>3, ReaderStep DEF Effect, ProviderTypeOK, ProviderTold, Subscribed
<1>4. ASSUME NEW h \in ProviderHooks, Unmount(h)
      PROVE  ProviderInv'
  <2>1. hookPhase' \in [ProviderHooks -> {"out", "painted", "subscribed"}] /\ Subscribed' \subseteq Subscribed
    BY <1>0, <1>4 DEF Unmount, ProviderTypeOK, Subscribed
  <2>2. UNCHANGED <<started, pollLost, hookValue, hookState, toldState, providerRest, busVars>>
    BY <1>4 DEF Unmount
  <2> QED
    BY <1>0, <2>1, <2>2 DEF ProviderInv, ProviderTypeOK, ProviderMessages, ProviderTold, StateOf, providerRest, busVars
<1>5. ASSUME NEW h \in ProviderHooks, RenderAgain(h)
      PROVE  ProviderInv'
  <2>1. hookState' \in [ProviderHooks -> {"unknown", "ungranted", "not-configured", "configured"}]
    BY <1>0, <1>5 DEF RenderAgain, ProviderTypeOK, StateOf, DeriveState
  <2>2. UNCHANGED <<started, pollLost, hookPhase, hookValue, toldState, providerRest, busVars>>
    BY <1>5 DEF RenderAgain
  <2> QED
    BY <1>0, <2>1, <2>2 DEF ProviderInv, ProviderTypeOK, ProviderMessages, ProviderTold, Subscribed, StateOf, providerRest, busVars
<1>6. ASSUME NEW s \in StateSubscribers, Subscribe(s)
      PROVE  ProviderInv'
  BY <1>0, <1>6, ReaderStep DEF Subscribe, ProviderTypeOK, ProviderTold, Subscribed
<1>7. ASSUME NEW s \in StateSubscribers, Unsubscribe(s)
      PROVE  ProviderInv'
  <2>1. /\ toldState' \in [StateSubscribers -> {NotTold, "unknown", "ungranted", "not-configured", "configured"}]
        /\ \A r \in StateSubscribers : toldState'[r] \in {NotTold, toldState[r]}
    BY <1>0, <1>7 DEF Unsubscribe, ProviderTypeOK
  <2>2. UNCHANGED <<started, pollLost, hookPhase, hookValue, hookState, providerRest, busVars>>
    BY <1>7 DEF Unsubscribe
  <2> QED
    BY <1>0, <2>1, <2>2 DEF ProviderInv, ProviderTypeOK, ProviderMessages, ProviderTold, Subscribed, StateOf, providerRest, busVars
<1>8. ASSUME NEW a \in Answers, HostChangesProvider(a)
      PROVE  ProviderInv'
  <2>1. hostProvider' \in Answers /\ providerChanges' \in 0..MaxProviderChanges
    BY <1>0, <1>8, ProviderAssumption DEF HostChangesProvider, ProviderTypeOK
  <2>2. /\ UNCHANGED <<started, current, answered, ungrantedMark, hookPhase, hookValue, hookState, toldState>>
        /\ pollLost' = FALSE
    BY <1>8 DEF HostChangesProvider
  <2>3. ProviderMessages'
    BY <1>8 DEF ProviderInv, ProviderMessages, HostChangesProvider, HostSends
  <2> QED
    BY <1>0, <2>1, <2>2, <2>3 DEF ProviderInv, ProviderTypeOK, ProviderTold, Subscribed, StateOf
<1>9. CASE HostAnswersProvider \/ HostSendsUnusable
  <2>1. PICK a \in Answers \union {Unusable} : toApp' = Append(toApp, [type |-> "llm-provider", body |-> a])
    BY <1>0, <1>9 DEF HostAnswersProvider, HostSendsUnusable, HostSends, ProviderTypeOK
  <2>2. ProviderMessages'
    BY <2>1 DEF ProviderInv, ProviderMessages
  <2>3. UNCHANGED providerVars
    BY <1>9 DEF HostAnswersProvider, HostSendsUnusable
  <2> QED
    BY <1>0, <2>2, <2>3 DEF ProviderInv, ProviderTypeOK, ProviderTold, Subscribed, StateOf, providerVars
<1>10. CASE PushArrives
  <2>1. ProviderMessages'
    BY <1>10, ProviderArrival DEF PushArrives, ProviderMessages
  <2>2. CASE started /\ Head(toApp).body # Unusable
    <3> DEFINE answer == Head(toApp).body
    <3>1. answer \in Answers /\ Receive(answer)
      BY <1>10, <2>2, ProviderArrival DEF PushArrives
    <3>2. answer.provider \in Providers \union {NoProvider} /\ answer.ungranted \in BOOLEAN
      BY <3>1 DEF Answers
    <3>3. DeriveState(TRUE, answer.ungranted, answer.provider) \in {"unknown", "ungranted", "not-configured", "configured"}
      BY DEF DeriveState
    <3>4. ProviderTypeOK'
      BY <1>0, <1>10, <3>1, <3>2, <3>3 DEF PushArrives, Receive, ProviderTypeOK
    <3>5. ProviderTold'
      BY <1>0, <1>10, <3>1 DEF PushArrives, Receive, ProviderTold, Subscribed, StateOf
    <3> QED
      BY <2>1, <3>4, <3>5 DEF ProviderInv
  <2>3. CASE ~(started /\ Head(toApp).body # Unusable)
    BY <1>0, <1>10, <2>1, <2>3 DEF PushArrives, ProviderInv, ProviderTypeOK, ProviderTold, Subscribed, StateOf
  <2> QED
    BY <2>2, <2>3
<1> QED
  BY <1>1, <1>2, <1>3, <1>4, <1>5, <1>6, <1>7, <1>8, <1>9, <1>10 DEF ProviderNext

LEMMA ProviderStepInv == ProviderInv /\ [Next]_vars => ProviderInv'
<1> SUFFICES ASSUME ProviderInv, [Next]_vars PROVE ProviderInv'
  OBVIOUS
<1>1. CASE part = "provider" /\ ProviderNext
  BY <1>1, ProviderOrNot, ProviderNextInv
<1>2. CASE UNCHANGED providerVars /\ (part = "provider" => UNCHANGED toApp)
  BY <1>2, ProviderOrNot DEF ProviderInv, ProviderTypeOK, ProviderMessages, ProviderTold, Subscribed, StateOf, providerVars
<1> QED
  BY <1>1, <1>2, ProviderOrNot

-----------------------------------------------------------------------------
(* The task input. *)

LEMMA TaskOrNot ==
  ASSUME [Next]_vars
  PROVE  /\ part' = part
         /\ \/ part = "task" /\ TaskNext
            \/ UNCHANGED taskVars /\ (part = "task" => UNCHANGED toApp)
BY PartStep

TaskMessages == part = "task" => toApp \in Seq([type : {"task-input"}, body : Inputs])

\* The failed poll is reported once.
WarnedOnce == warnings = IF inputPollFailureReported THEN 1 ELSE 0

\* The component whose effect has run holds the input of the app; one that has only painted
\* may hold nothing when there is something, never the other way round.
HookHolds ==
  /\ inputPhase = "subscribed" => hookInput = latestInput
  /\ latestInput = Nothing => hookInput = Nothing

TaskInv == TaskTypeOK /\ TaskMessages /\ WarnedOnce /\ HookHolds

LEMMA TaskInitInv == BusInit /\ TaskInit => TaskInv
<1> SUFFICES ASSUME BusInit, TaskInit PROVE TaskInv
  OBVIOUS
<1>1. {latestInput, hookInput} \subseteq Objects
  BY DEF TaskInit, Objects, Nothing
<1>2. {inputListenerRegistered, inputPolled, inputPollFailureReported} \subseteq BOOLEAN
  BY DEF TaskInit, HasTransport, CanSend
<1>3. TaskTypeOK
  BY <1>1, <1>2 DEF TaskInit, TaskTypeOK
<1>4. WarnedOnce
  BY DEF TaskInit, WarnedOnce
<1>5. TaskMessages /\ HookHolds
  BY DEF TaskInit, BusInit, TaskMessages, HookHolds
<1> QED
  BY <1>3, <1>4, <1>5 DEF TaskInv

\* Looking for the input: the listener, the poll and the report of a poll that failed.
LEMMA EnsureStep ==
  ASSUME TaskInv, EnsureInputListener
  PROVE  /\ {inputListenerRegistered, inputPolled, inputPollFailureReported}' \subseteq BOOLEAN
         /\ warnings' \in 0..1
         /\ WarnedOnce'
<1>1. inputListenerRegistered \in BOOLEAN /\ inputPolled \in BOOLEAN /\ inputPollFailureReported \in BOOLEAN
  BY DEF TaskInv, TaskTypeOK
<1>2. inputListenerRegistered' \in BOOLEAN
  BY <1>1 DEF EnsureInputListener, HasTransport
<1>3. inputPolled' \in BOOLEAN /\ inputPollFailureReported' \in BOOLEAN
  BY <1>1 DEF EnsureInputListener
<1>4. WarnedOnce'
  BY <1>1 DEF TaskInv, WarnedOnce, EnsureInputListener
<1>5. warnings' \in 0..1
  BY <1>4 DEF WarnedOnce
<1> QED
  BY <1>2, <1>3, <1>4, <1>5

LEMMA TaskNextInv ==
  ASSUME TaskInv, part = "task", part' = part, TaskNext
  PROVE  TaskInv'
<1>0. TaskTypeOK /\ WarnedOnce /\ HookHolds
  BY DEF TaskInv
<1>1. CASE GetTaskInput \/ PaintInput
  <2>1. EnsureInputListener
    BY <1>1 DEF GetTaskInput, PaintInput
  <2>2. TaskTypeOK'
    BY <1>0, <1>1, <2>1, EnsureStep DEF GetTaskInput, PaintInput, TaskTypeOK
  <2>3. HookHolds' /\ TaskMessages'
    BY <1>0, <1>1 DEF TaskInv, GetTaskInput, PaintInput, HookHolds, TaskMessages
  <2> QED
    BY <2>1, <2>2, <2>3, EnsureStep DEF TaskInv
<1>2. CASE InputEffect \/ UnmountInput
  BY <1>0, <1>2 DEF TaskInv, InputEffect, UnmountInput, TaskTypeOK, TaskMessages, WarnedOnce, HookHolds, busVars
<1>3. CASE InputArrives
  <2> DEFINE next == Head(toApp).body
             fresh == [input |-> next, object |-> latestInput.object + 1]
  <2>1. next \in Inputs /\ TaskMessages'
    <3> DEFINE Pushes == [type : {"task-input"}, body : Inputs]
    <3>1. toApp \in Seq(Pushes) /\ toApp # <<>>
      BY <1>3 DEF TaskInv, TaskMessages, InputArrives, Arriving
    <3>2. Head(toApp) \in Pushes /\ Tail(toApp) \in Seq(Pushes)
      <4> HIDE DEF Pushes
      <4> QED BY <3>1, FirstAndRest
    <3> QED
      BY <1>3, <3>2 DEF InputArrives, TaskMessages
  <2>2. fresh \in Objects /\ fresh # Nothing
    BY <1>0, <2>1, InputAssumption DEF TaskTypeOK, Objects, Nothing
  <2>3. UNCHANGED <<hostInput, inputListenerRegistered, inputPolled, inputPollFailureReported, warnings, inputPhase, ended>>
    BY <1>3 DEF InputArrives
  <2>4. \/ UNCHANGED <<latestInput, hookInput>>
        \/ /\ latestInput' = fresh
           /\ hookInput' = IF inputPhase = "subscribed" THEN fresh ELSE hookInput
    BY <1>3 DEF InputArrives
  <2>5. TaskTypeOK'
    BY <1>0, <2>2, <2>3, <2>4 DEF TaskTypeOK
  <2>6. HookHolds' /\ WarnedOnce'
    BY <1>0, <2>2, <2>3, <2>4 DEF HookHolds, WarnedOnce
  <2> QED
    BY <2>1, <2>5, <2>6 DEF TaskInv
<1>4. ASSUME NEW how \in {"completed", "cancelled"}, NEW cloneable \in BOOLEAN, EndTask(how, cloneable)
      PROVE  TaskInv'
  BY <1>0, <1>4 DEF TaskInv, EndTask, TaskTypeOK, TaskMessages, WarnedOnce, HookHolds, busVars
<1>5. CASE HostDelivers \/ HostAnswersInputPoll
  <2>1. \/ toApp' = toApp
        \/ hostInput \in Inputs /\ toApp' = Append(toApp, [type |-> "task-input", body |-> hostInput])
    BY <1>0, <1>5 DEF HostDelivers, HostAnswersInputPoll, HostSends, TaskTypeOK
  <2>2. TaskMessages'
    <3>1. toApp \in Seq([type : {"task-input"}, body : Inputs])
      BY DEF TaskInv, TaskMessages
    <3>2. toApp' \in Seq([type : {"task-input"}, body : Inputs])
      BY <2>1, <3>1, OneMore
    <3> QED
      BY <3>2 DEF TaskMessages
  <2>3. UNCHANGED taskVars
    BY <1>5 DEF HostDelivers, HostAnswersInputPoll
  <2> QED
    BY <1>0, <2>2, <2>3 DEF TaskInv, TaskTypeOK, WarnedOnce, HookHolds, taskVars
<1>6. ASSUME NEW i \in Inputs, HostInvokesAgain(i)
      PROVE  TaskInv'
  <2>1. toApp' = Append(toApp, [type |-> "task-input", body |-> i])
    BY <1>6 DEF HostInvokesAgain, HostSends
  <2>2. toApp \in Seq([type : {"task-input"}, body : Inputs])
    BY DEF TaskInv, TaskMessages
  <2>3. TaskMessages'
    <3>1. toApp' \in Seq([type : {"task-input"}, body : Inputs])
      BY <2>1, <2>2, OneMore
    <3> QED
      BY <3>1 DEF TaskMessages
  <2> QED
    BY <1>0, <1>6, <2>3 DEF HostInvokesAgain, TaskInv, TaskTypeOK, WarnedOnce, HookHolds
<1> QED
  BY <1>1, <1>2, <1>3, <1>4, <1>5, <1>6 DEF TaskNext

LEMMA TaskStepInv == TaskInv /\ [Next]_vars => TaskInv'
<1> SUFFICES ASSUME TaskInv, [Next]_vars PROVE TaskInv'
  OBVIOUS
<1>1. CASE part = "task" /\ TaskNext
  BY <1>1, TaskOrNot, TaskNextInv
<1>2. CASE UNCHANGED taskVars /\ (part = "task" => UNCHANGED toApp)
  BY <1>2, TaskOrNot DEF TaskInv, TaskTypeOK, TaskMessages, WarnedOnce, HookHolds, taskVars
<1> QED
  BY <1>1, <1>2, TaskOrNot

\* What may replace the input: one whose JSON differs, or that JSON cannot write.
OtherInput ==
  \/ latestInput = Nothing
  \/ {latestInput.input, latestInput'.input} \intersect Unwritable # {}
  \/ Image[latestInput'.input] # Image[latestInput.input]

\* The input is replaced only by a delivery, and by no repeat of it.
LEMMA ReplacedByAnother ==
  ASSUME TaskInv, part = "task", TaskNext, latestInput' # latestInput
  PROVE  OtherInput
<1>1. InputArrives
  BY DEF TaskNext, GetTaskInput, PaintInput, InputEffect, UnmountInput, EndTask, HostDelivers, HostAnswersInputPoll,
         HostInvokesAgain, taskVars
<1>2. latestInput'.input = Head(toApp).body
  BY <1>1 DEF InputArrives
<1> QED
  BY <1>1, <1>2 DEF InputArrives, SameTaskInput, OtherInput

-----------------------------------------------------------------------------
(* The ready report. *)

LEMMA BootOrNot ==
  ASSUME [Next]_vars
  PROVE  /\ part' = part
         /\ \/ part = "boot" /\ BootNext
            \/ UNCHANGED bootVars
BY PartStep

\* Whoever listens was told whether the app has reported.
ReadyTold ==
  /\ toldReady \in [ReadyListeners -> {NotListening, "not yet", "reported"}]
  /\ \A l \in ReadyListeners : toldReady[l] \in {NotListening, Word(reported)}

LEMMA ReadyInit == BootInit => ReadyTold
BY DEF BootInit, ReadyTold

LEMMA ReadyStep == ReadyTold /\ [Next]_vars => ReadyTold'
<1> SUFFICES ASSUME ReadyTold, [Next]_vars PROVE ReadyTold'
  OBVIOUS
<1>1. CASE UNCHANGED readyVars
  BY <1>1 DEF readyVars, ReadyTold, Word
<1>2. CASE ReportReady
  <2>1. \A l \in ReadyListeners : toldReady'[l] \in {NotListening, Word(TRUE)}
    BY <1>2 DEF ReportReady
  <2>2. toldReady' \in [ReadyListeners -> {NotListening, "not yet", "reported"}]
    BY <1>2 DEF ReportReady, Word
  <2> QED
    BY <1>2, <2>1, <2>2 DEF ReportReady, ReadyTold, Word
<1>3. ASSUME NEW l \in ReadyListeners, OnReady(l) \/ OffReady(l)
      PROVE  ReadyTold'
  <2>1. PICK word \in {NotListening, Word(reported)} : toldReady' = [toldReady EXCEPT ![l] = word]
    BY <1>3 DEF OnReady, OffReady
  <2>2. reported' = reported
    BY <1>3 DEF OnReady, OffReady, readyVars
  <2>3. word \in {NotListening, "not yet", "reported"}
    BY DEF Word
  <2>4. Word(reported)' = Word(reported)
    BY <2>2 DEF Word
  <2> QED
    BY <2>1, <2>3, <2>4 DEF ReadyTold
<1>4. CASE UNCHANGED bootVars
  BY <1>1, <1>4 DEF bootVars, readyVars
<1> QED
  BY <1>1, <1>2, <1>3, <1>4, BootOrNot
     DEF BootNext, AnnounceHandshake, HostAsksHandshake, HandshakeAsked, PaintRegion, RegionEffect, RegionReady, UnmountRegion

-----------------------------------------------------------------------------
(* The developer's instruments. *)

LEMMA DebugOrNot ==
  ASSUME [Next]_vars
  PROVE  /\ part' = part
         /\ \/ part = "debug" /\ DebugNext
            \/ UNCHANGED debugVars /\ (part = "debug" => UNCHANGED toApp)
BY PartStep

DebugMessage == [type : {"debug-enabled"}, body : BOOLEAN] \union [type : {"debug-query"}, body : Queries]

DebugTypeOK ==
  /\ {hostDebug, gateStarted, enabled, logged} \subseteq BOOLEAN
  /\ part = "debug" => toApp \in Seq(DebugMessage)

\* The last word of the host on the way says what the host thinks; when none is on the way,
\* a gate that is open is open by the host's word.
LastWordHolds(coming, word, open) ==
  /\ \A i \in 1..Len(coming) :
       coming[i].type = "debug-enabled" /\ (\A j \in 1..Len(coming) : i < j => coming[j].type # "debug-enabled")
         => coming[i].body = word
  /\ (\A i \in 1..Len(coming) : coming[i].type # "debug-enabled") /\ open => word

\* The channel that never started hears no word, so its gate is shut.
GateInv ==
  /\ DebugTypeOK
  /\ responders \in {0, 1}
  /\ enabled => gateStarted
  /\ part = "debug" => LastWordHolds(toApp, hostDebug, enabled)
  /\ OneReplyPerQuery

LEMMA GateInit == BusInit /\ DebugInit => GateInv
<1> SUFFICES ASSUME BusInit, DebugInit PROVE GateInv
  OBVIOUS
<1>1. toApp = <<>> /\ Len(toApp) = 0 /\ toApp \in Seq(DebugMessage) /\ 1..0 = {}
  BY DEF BusInit
<1>2. DebugTypeOK
  BY <1>1 DEF DebugInit, DebugTypeOK, HasTransport
<1>3. LastWordHolds(toApp, hostDebug, enabled)
  BY <1>1 DEF DebugInit, LastWordHolds
<1>4. OneReplyPerQuery
  BY DEF DebugInit, OneReplyPerQuery
<1> QED
  BY <1>2, <1>3, <1>4 DEF GateInv, DebugInit

\* One message more: the host's word, or a what.
LEMMA OneMoreHolds ==
  ASSUME NEW coming \in Seq(DebugMessage), NEW word \in BOOLEAN, NEW open \in BOOLEAN, LastWordHolds(coming, word, open),
         NEW m \in DebugMessage, NEW now \in BOOLEAN, IF m.type = "debug-enabled" THEN m.body = now ELSE now = word
  PROVE  Append(coming, m) \in Seq(DebugMessage) /\ LastWordHolds(Append(coming, m), now, open)
<1>1. PICK more \in Seq(DebugMessage) : more = Append(coming, m)
  BY OneMore
<1>2. /\ Len(more) = Len(coming) + 1 /\ Len(coming) \in Nat
      /\ \A i \in 1..Len(coming) : more[i] = coming[i]
      /\ more[Len(coming) + 1] = m
  BY <1>1, AppendProperties, LenProperties
<1>3. \A i \in 1..Len(more) : i \in 1..Len(coming) \/ i = Len(coming) + 1
  BY <1>2
<1>4. CASE m.type = "debug-enabled"
  <2>1. \A i \in 1..Len(coming) : i < Len(coming) + 1 /\ Len(coming) + 1 \in 1..Len(more)
    BY <1>2
  <2>2. Len(coming) + 1 \in 1..Len(more)
    BY <1>2
  <2> QED
    BY <1>1, <1>2, <1>3, <1>4, <2>1, <2>2 DEF LastWordHolds
<1>5. CASE m.type # "debug-enabled"
  <2>1. now = word
    BY <1>5
  <2>2. \A i \in 1..Len(coming) : i \in 1..Len(more) /\ more[i] = coming[i]
    BY <1>2
  <2>3. ASSUME NEW i \in 1..Len(more), more[i].type = "debug-enabled",
               \A j \in 1..Len(more) : i < j => more[j].type # "debug-enabled"
        PROVE  more[i].body = now
    <3>1. i \in 1..Len(coming) /\ coming[i] = more[i]
      BY <1>2, <1>3, <1>5, <2>3
    <3>2. \A j \in 1..Len(coming) : i < j => coming[j].type # "debug-enabled"
      BY <2>2, <2>3
    <3> QED
      BY <2>1, <2>3, <3>1, <3>2 DEF LastWordHolds
  <2>4. (\A i \in 1..Len(more) : more[i].type # "debug-enabled") /\ open => now
    BY <2>1, <2>2 DEF LastWordHolds
  <2> QED
    BY <1>1, <2>3, <2>4 DEF LastWordHolds
<1> QED
  BY <1>4, <1>5

\* The first message is taken: its word, if it is one, is the word of the gate.
LEMMA OneLessHolds ==
  ASSUME NEW coming \in Seq(DebugMessage), coming # <<>>, NEW word \in BOOLEAN, NEW open \in BOOLEAN,
         LastWordHolds(coming, word, open), NEW now \in BOOLEAN, Head(coming).type = "debug-enabled" => (now => Head(coming).body),
         Head(coming).type # "debug-enabled" => now = open
  PROVE  Tail(coming) \in Seq(DebugMessage) /\ LastWordHolds(Tail(coming), word, now)
<1>1. PICK rest \in Seq(DebugMessage) : rest = Tail(coming)
  BY FirstAndRest
<1>2. /\ Len(rest) = Len(coming) - 1 /\ Len(coming) \in Nat \ {0} /\ Head(coming) = coming[1]
      /\ \A i \in 1..Len(rest) : rest[i] = coming[i + 1]
  BY <1>1
<1>3. \A i \in 1..Len(rest) : i + 1 \in 1..Len(coming) /\ i + 1 > 1
  BY <1>2
<1>4. \A j \in 1..Len(coming) : j = 1 \/ (j - 1 \in 1..Len(rest) /\ (j - 1) + 1 = j)
  BY <1>2
<1>5. \A j \in 1..Len(coming) : j = 1 \/ (j - 1 \in 1..Len(rest) /\ rest[j - 1] = coming[j])
  BY <1>2, <1>4
<1>6. ASSUME NEW i \in 1..Len(rest), rest[i].type = "debug-enabled",
             \A j \in 1..Len(rest) : i < j => rest[j].type # "debug-enabled"
      PROVE  rest[i].body = word
  <2>1. i + 1 \in 1..Len(coming) /\ coming[i + 1] = rest[i]
    BY <1>2, <1>3
  <2>2. ASSUME NEW j \in 1..Len(coming), i + 1 < j PROVE coming[j].type # "debug-enabled"
    <3>1. j # 1 /\ i < j - 1
      BY <2>2
    <3>2. j - 1 \in 1..Len(rest) /\ rest[j - 1] = coming[j]
      BY <1>5, <3>1
    <3> QED
      BY <1>6, <3>1, <3>2
  <2> QED
    BY <1>6, <2>1, <2>2 DEF LastWordHolds
<1>7. ASSUME \A i \in 1..Len(rest) : rest[i].type # "debug-enabled", now
      PROVE  word
  <2>1. \A j \in 1..Len(coming) : j = 1 \/ coming[j].type # "debug-enabled"
    BY <1>5, <1>7
  <2>2. 1 \in 1..Len(coming) /\ \A j \in 1..Len(coming) : 1 < j => j # 1
    BY <1>2
  <2>3. CASE coming[1].type = "debug-enabled"
    <3>1. coming[1].body = word
      BY <2>1, <2>2, <2>3 DEF LastWordHolds
    <3> QED
      BY <1>2, <1>7, <2>3, <3>1
  <2>4. CASE coming[1].type # "debug-enabled"
    <3>1. open
      BY <1>2, <1>7, <2>4
    <3> QED
      BY <2>1, <2>4, <3>1 DEF LastWordHolds
  <2> QED
    BY <2>3, <2>4
<1> QED
  BY <1>1, <1>6, <1>7 DEF LastWordHolds

LEMMA GateStep == GateInv /\ [Next]_vars => GateInv'
<1> SUFFICES ASSUME GateInv, [Next]_vars PROVE GateInv'
  OBVIOUS
<1>1. CASE UNCHANGED debugVars /\ (part = "debug" => UNCHANGED toApp)
  BY <1>1, DebugOrNot DEF debugVars, GateInv, DebugTypeOK, LastWordHolds, OneReplyPerQuery
<1>2. ASSUME part = "debug", part' = part, DebugNext
      PROVE  GateInv'
  <2>0. /\ hostDebug \in BOOLEAN /\ gateStarted \in BOOLEAN /\ enabled \in BOOLEAN /\ logged \in BOOLEAN
        /\ toApp \in Seq(DebugMessage) /\ LastWordHolds(toApp, hostDebug, enabled)
        /\ responders \in {0, 1} /\ (enabled => gateStarted) /\ Len(answers) <= 1 /\ (enabled => responders = 1) /\ ~logged
    BY <1>2 DEF GateInv, DebugTypeOK, OneReplyPerQuery
  <2>1. CASE Log
    <3>1. gateStarted' \in BOOLEAN /\ (gateStarted => gateStarted') /\ UNCHANGED <<hostDebug, enabled, responders, answers, toApp>>
      BY <2>0, <2>1 DEF Log, HasTransport, busVars
    <3>2. ~(enabled /\ ~hostDebug /\ toApp = <<>>)
      BY <2>0 DEF LastWordHolds
    <3>3. logged' = FALSE
      BY <2>0, <2>1, <3>2 DEF Log, CanSend
    <3> QED
      BY <1>2, <2>0, <3>1, <3>3 DEF GateInv, DebugTypeOK, OneReplyPerQuery
  <2>2. CASE HostSwitches \/ HostAnswersGate \/ \E what \in Queries : HostQueries(what)
    <3>1. /\ UNCHANGED <<gateStarted, enabled, responders, answers, logged>> /\ hostDebug' \in BOOLEAN
          /\ \E m \in DebugMessage :
               /\ toApp' = Append(toApp, m)
               /\ IF m.type = "debug-enabled" THEN m.body = hostDebug' ELSE hostDebug' = hostDebug
      <4>1. CASE HostSwitches
        <5> DEFINE m == [type |-> "debug-enabled", body |-> ~hostDebug]
        <5>1. m \in DebugMessage /\ m.type = "debug-enabled" /\ m.body = ~hostDebug
          BY <2>0 DEF DebugMessage
        <5>2. toApp' = Append(toApp, m) /\ hostDebug' = ~hostDebug
          BY <4>1 DEF HostSwitches, HostSends
        <5> HIDE DEF m
        <5> QED
          BY <2>0, <4>1, <5>1, <5>2 DEF HostSwitches
      <4>2. CASE HostAnswersGate
        <5> DEFINE m == [type |-> "debug-enabled", body |-> hostDebug]
        <5>1. m \in DebugMessage /\ m.type = "debug-enabled" /\ m.body = hostDebug
          BY <2>0 DEF DebugMessage
        <5>2. toApp' = Append(toApp, m) /\ hostDebug' = hostDebug
          BY <4>2 DEF HostAnswersGate, HostSends
        <5> HIDE DEF m
        <5> QED
          BY <2>0, <4>2, <5>1, <5>2 DEF HostAnswersGate
      <4>3. CASE \E what \in Queries : HostQueries(what)
        <5>1. PICK what \in Queries : HostQueries(what)
          BY <4>3
        <5> DEFINE m == [type |-> "debug-query", body |-> what]
        <5>2. m \in DebugMessage /\ m.type # "debug-enabled"
          BY DEF DebugMessage
        <5>3. toApp' = Append(toApp, m) /\ hostDebug' = hostDebug
          BY <5>1 DEF HostQueries, HostSends
        <5> HIDE DEF m
        <5> QED
          BY <2>0, <5>1, <5>2, <5>3 DEF HostQueries
      <4> QED
        BY <2>2, <4>1, <4>2, <4>3
    <3>2. toApp' \in Seq(DebugMessage) /\ LastWordHolds(toApp', hostDebug', enabled')
      BY <2>0, <3>1, OneMoreHolds
    <3> QED
      BY <1>2, <2>0, <3>1, <3>2 DEF GateInv, DebugTypeOK, OneReplyPerQuery
  <2>3. CASE GateArrives
    <3> DEFINE m == Head(toApp)
    <3>1. /\ toApp # <<>> /\ m.type = "debug-enabled" /\ toApp' = Tail(toApp) /\ answers' = <<>>
          /\ UNCHANGED <<hostDebug, gateStarted, logged>>
          /\ enabled' = IF gateStarted THEN m.body ELSE enabled
          /\ IF enabled' THEN responders' = 1 ELSE responders' = responders
      BY <2>3 DEF GateArrives, Arriving, StartResponder
    <3>2. m.body \in BOOLEAN
      <4>1. m \in DebugMessage
        BY <2>0, <3>1, FirstAndRest
      <4> QED
        BY <3>1, <4>1 DEF DebugMessage
    <3> HIDE DEF m
    <3>3. enabled' \in BOOLEAN /\ (enabled' => m.body) /\ (enabled' => gateStarted')
      BY <2>0, <3>1, <3>2
    <3>4. toApp' \in Seq(DebugMessage) /\ LastWordHolds(toApp', hostDebug', enabled')
      <4>1. Head(toApp).type = "debug-enabled" /\ (enabled' => Head(toApp).body)
        BY <3>1, <3>3 DEF m
      <4>2. Tail(toApp) \in Seq(DebugMessage) /\ LastWordHolds(Tail(toApp), hostDebug, enabled')
        BY <2>0, <3>1, <3>3, <4>1, OneLessHolds
      <4> QED
        BY <3>1, <4>2
    <3>5. responders' \in {0, 1} /\ (enabled' => responders' = 1) /\ Len(answers') = 0
      BY <2>0, <3>1
    <3> QED
      BY <1>2, <2>0, <3>1, <3>3, <3>4, <3>5 DEF GateInv, DebugTypeOK, OneReplyPerQuery
  <2>4. CASE QueryArrives
    <3>1. /\ toApp # <<>> /\ Head(toApp).type = "debug-query" /\ toApp' = Tail(toApp)
          /\ UNCHANGED <<hostDebug, gateStarted, enabled, responders, logged>>
      BY <2>4 DEF QueryArrives, Arriving
    <3>2. Tail(toApp) \in Seq(DebugMessage) /\ LastWordHolds(Tail(toApp), hostDebug, enabled)
      BY <2>0, <3>1, OneLessHolds
    <3>3. Len(answers') <= 1
      <4>1. CASE enabled
        <5>1. PICK x : answers' = [i \in 1..responders |-> x]
          BY <2>4, <4>1 DEF QueryArrives
        <5>2. Len(answers') = responders
          BY <2>0, <5>1
        <5> QED
          BY <2>0, <5>2
      <4>2. CASE ~enabled
        BY <2>4, <4>2 DEF QueryArrives
      <4> QED
        BY <4>1, <4>2
    <3> QED
      BY <1>2, <2>0, <3>1, <3>2, <3>3 DEF GateInv, DebugTypeOK, OneReplyPerQuery
  <2> QED
    BY <1>2, <2>1, <2>2, <2>3, <2>4 DEF DebugNext
<1> QED
  BY <1>1, <1>2, DebugOrNot

-----------------------------------------------------------------------------
(* The collectors of a history entry. *)

LEMMA EntryOrNot ==
  ASSUME [Next]_vars
  PROVE  /\ part' = part
         /\ \/ part = "entry" /\ EntryNext
            \/ UNCHANGED entryVars
BY PartStep

\* The owner of the key is one that has not called its remover.
OwnerAlive ==
  /\ alive \subseteq Owners
  /\ owner \in alive \union {"none"}

LEMMA OwnerInit == EntryInit => OwnerAlive
BY DEF EntryInit, OwnerAlive

LEMMA OwnerStep == OwnerAlive /\ [Next]_vars => OwnerAlive'
<1> SUFFICES ASSUME OwnerAlive, [Next]_vars PROVE OwnerAlive'
  OBVIOUS
<1>1. CASE UNCHANGED <<owner, alive>>
  BY <1>1 DEF OwnerAlive
<1>2. ASSUME NEW o \in Owners, RegisterEntryStateCollector(o) \/ Unregister(o)
      PROVE  OwnerAlive'
  BY <1>2 DEF RegisterEntryStateCollector, Unregister, OwnerWithout, OwnerAlive
<1> QED
  BY <1>1, <1>2, EntryOrNot DEF EntryNext, SaveEntryState, Navigate, ReceiveNavigation, entryVars

\* A remover takes the key from nobody who still wants it.
LEMMA RemoverKeepsOwner ==
  ASSUME OwnerAlive, EntryNext, owner \in alive'
  PROVE  owner' # "none"
<1>1. "none" \notin Owners
  BY EntryStateAssumption
<1>2. owner \in Owners
  BY DEF OwnerAlive, EntryNext, RegisterEntryStateCollector, Unregister, SaveEntryState, Navigate, ReceiveNavigation
<1> QED
  BY <1>1, <1>2
     DEF EntryNext, RegisterEntryStateCollector, Unregister, OwnerWithout, SaveEntryState, Navigate, ReceiveNavigation

-----------------------------------------------------------------------------
(* The dialogs. *)

LEMMA DialogsOrNot ==
  ASSUME [Next]_vars
  PROVE  /\ part' = part
         /\ \/ part = "dialogs" /\ DialogsNext
            \/ UNCHANGED dialogVars
BY PartStep

\* What is left of a sequence when the element at one place is taken out.
LEMMA RemovedAt ==
  ASSUME NEW S, NEW q \in Seq(S), NEW k \in 1..Len(q)
  PROVE  /\ RemoveAt(q, k) \in Seq(S)
         /\ Len(RemoveAt(q, k)) = Len(q) - 1
         /\ \A i \in 1..(Len(q) - 1) : RemoveAt(q, k)[i] = IF i < k THEN q[i] ELSE q[i + 1]
<1> DEFINE before == SubSeq(q, 1, k - 1)
           after == SubSeq(q, k + 1, Len(q))
<1>1. before \in Seq(S) /\ Len(before) = k - 1 /\ \A i \in 1..(k - 1) : before[i] = q[i]
  OBVIOUS
<1>2. after \in Seq(S) /\ Len(after) = Len(q) - k /\ \A i \in 1..(Len(q) - k) : after[i] = q[k + i]
  OBVIOUS
<1>3. RemoveAt(q, k) = before \o after
  BY DEF RemoveAt
<1> HIDE DEF before, after
<1>4. /\ before \o after \in Seq(S)
      /\ Len(before \o after) = Len(q) - 1
      /\ \A i \in 1..(Len(q) - 1) : (before \o after)[i] = IF i < k THEN before[i] ELSE after[i - (k - 1)]
  <2>1. before \o after \in Seq(S) /\ Len(before \o after) = Len(before) + Len(after)
    BY <1>1, <1>2, ConcatProperties
  <2>2. \A i \in 1..(Len(before) + Len(after)) :
          (before \o after)[i] = IF i <= Len(before) THEN before[i] ELSE after[i - Len(before)]
    BY <1>1, <1>2, ConcatProperties
  <2>3. Len(before) = k - 1 /\ Len(after) = Len(q) - k /\ k \in Int /\ Len(q) \in Nat
    BY <1>1, <1>2
  <2> QED
    BY <2>1, <2>2, <2>3
<1>5. ASSUME NEW i \in 1..(Len(q) - 1)
      PROVE  (before \o after)[i] = IF i < k THEN q[i] ELSE q[i + 1]
  <2>1. CASE i < k
    BY <1>1, <1>4, <2>1
  <2>2. CASE ~(i < k)
    <3>1. i - (k - 1) \in 1..(Len(q) - k) /\ k + (i - (k - 1)) = i + 1
      BY <2>2
    <3>2. (before \o after)[i] = after[i - (k - 1)]
      BY <1>4, <2>2
    <3> QED
      BY <1>2, <2>2, <3>1, <3>2
  <2> QED
    BY <2>1, <2>2
<1> QED
  BY <1>3, <1>4, <1>5

\* An element that is there once is taken out where it is.
LEMMA RemovedFirst ==
  ASSUME NEW S, NEW q \in Seq(S), NEW k \in 1..Len(q), \A i \in 1..Len(q) : q[i] = q[k] => i = k
  PROVE  RemoveFirst(q, q[k]) = RemoveAt(q, k)
<1> DEFINE I == {i \in 1..Len(q) : q[i] = q[k]}
<1>1. I = {k}
  OBVIOUS
<1>2. Min(I) = k
  BY <1>1 DEF Min
<1> QED
  BY <1>1, <1>2 DEF RemoveFirst, SelectInSeq

\* The stack holds each open dialog once, in the order in which they opened, and the
\* listener is on the document while it holds one.
StackIsOpen ==
  /\ opened \subseteq DialogSet
  /\ dialogStack \in Seq(DialogSet)
  /\ \A i \in 1..Len(dialogStack) : dialogStack[i] \in opened
  /\ \A d \in opened : \E i \in 1..Len(dialogStack) : dialogStack[i] = d
  /\ \A i, j \in 1..Len(dialogStack) : dialogStack[i] = dialogStack[j] => i = j
  /\ \A i, j \in 1..Len(dialogStack) : <<dialogStack[i], dialogStack[j]>> \in above <=> i > j
  /\ above \subseteq opened \X opened
  /\ listening \in BOOLEAN
  /\ listening <=> opened # {}

LEMMA StackInit == DialogsInit => StackIsOpen
<1> SUFFICES ASSUME DialogsInit PROVE StackIsOpen
  OBVIOUS
<1>1. dialogStack \in Seq(DialogSet) /\ Len(dialogStack) = 0
  BY DEF DialogsInit
<1>2. opened = {} /\ above = {} /\ listening = FALSE
  BY DEF DialogsInit
<1>3. 1..Len(dialogStack) = {}
  BY <1>1
<1> QED
  BY <1>1, <1>2, <1>3 DEF StackIsOpen

LEMMA StackOpens ==
  ASSUME StackIsOpen, NEW d \in DialogSet, OpenDialog(d)
  PROVE  StackIsOpen'
<1> DEFINE n == Len(dialogStack)
<1>1. /\ n \in Nat
      /\ Len(dialogStack') = n + 1
      /\ dialogStack' \in Seq(DialogSet)
      /\ \A i \in 1..n : dialogStack'[i] = dialogStack[i]
      /\ dialogStack'[n + 1] = d
  BY DEF StackIsOpen, OpenDialog
<1>2. d \notin opened /\ opened' = opened \union {d} /\ above' = above \union {<<d, e>> : e \in opened}
  BY DEF OpenDialog
<1>3. opened' \subseteq DialogSet /\ above' \subseteq opened' \X opened'
  BY <1>2 DEF StackIsOpen
<1>4. \A i \in 1..Len(dialogStack') : dialogStack'[i] \in opened' /\ (i # n + 1 => i \in 1..n /\ dialogStack'[i] \in opened)
  BY <1>1, <1>2 DEF StackIsOpen
<1>5. ASSUME NEW e \in opened'
      PROVE  \E i \in 1..Len(dialogStack') : dialogStack'[i] = e
  <2>1. CASE e = d
    BY <1>1, <2>1
  <2>2. CASE e \in opened
    <3>1. PICK i \in 1..n : dialogStack[i] = e
      BY <2>2 DEF StackIsOpen
    <3> QED
      BY <1>1, <3>1
  <2> QED
    BY <1>2, <2>1, <2>2
<1>6. ASSUME NEW i \in 1..Len(dialogStack'), NEW j \in 1..Len(dialogStack'), dialogStack'[i] = dialogStack'[j]
      PROVE  i = j
  BY <1>1, <1>2, <1>4, <1>6 DEF StackIsOpen
<1>7. ASSUME NEW i \in 1..Len(dialogStack'), NEW j \in 1..Len(dialogStack')
      PROVE  <<dialogStack'[i], dialogStack'[j]>> \in above' <=> i > j
  <2>1. CASE i = n + 1 /\ j = n + 1
    <3>1. <<d, d>> \notin above'
      BY <1>2 DEF StackIsOpen
    <3> QED
      BY <1>1, <2>1, <3>1
  <2>2. CASE i = n + 1 /\ j # n + 1
    BY <1>1, <1>2, <1>4, <2>2
  <2>3. CASE i # n + 1 /\ j = n + 1
    <3>1. \A e : <<e, d>> \in above' => e = d
      BY <1>2 DEF StackIsOpen
    <3>2. i \in 1..n /\ dialogStack'[i] # d
      BY <1>2, <1>4, <2>3
    <3> QED
      BY <1>1, <2>3, <3>1, <3>2
  <2>4. CASE i # n + 1 /\ j # n + 1
    <3>1. i \in 1..n /\ j \in 1..n /\ dialogStack'[i] = dialogStack[i] /\ dialogStack'[j] = dialogStack[j] /\ dialogStack[i] # d
      BY <1>1, <1>2, <1>4, <2>4
    <3>2. <<dialogStack[i], dialogStack[j]>> \in above' <=> <<dialogStack[i], dialogStack[j]>> \in above
      BY <1>2, <3>1
    <3> QED
      BY <3>1, <3>2 DEF StackIsOpen
  <2> QED
    BY <2>1, <2>2, <2>3, <2>4
<1>8. listening' \in BOOLEAN /\ listening' /\ opened' # {}
  <2>1. n = 0 => opened = {}
    BY DEF StackIsOpen
  <2>2. n # 0 => opened # {}
    <3> SUFFICES ASSUME n # 0 PROVE opened # {}
      OBVIOUS
    <3>1. dialogStack[1] \in opened
      BY <1>1 DEF StackIsOpen
    <3> QED
      BY <3>1
  <2> QED
    BY <1>2, <2>1, <2>2 DEF OpenDialog, StackIsOpen
<1> QED
  BY <1>1, <1>3, <1>4, <1>5, <1>6, <1>7, <1>8 DEF StackIsOpen

LEMMA StackCloses ==
  ASSUME StackIsOpen, NEW d \in DialogSet, CloseDialog(d)
  PROVE  StackIsOpen'
<1> DEFINE n == Len(dialogStack)
<1>1. PICK k \in 1..n : dialogStack[k] = d
  BY DEF StackIsOpen, CloseDialog
<1>2. dialogStack' = RemoveAt(dialogStack, k)
  <2>1. \A i \in 1..n : dialogStack[i] = dialogStack[k] => i = k
    BY DEF StackIsOpen
  <2>2. dialogStack \in Seq(DialogSet)
    BY DEF StackIsOpen
  <2>3. RemoveFirst(dialogStack, dialogStack[k]) = RemoveAt(dialogStack, k)
    BY <2>1, <2>2, RemovedFirst
  <2> QED
    BY <1>1, <2>3 DEF CloseDialog, Spliced
<1>3. /\ n \in Nat
      /\ dialogStack' \in Seq(DialogSet)
      /\ Len(dialogStack') = n - 1
      /\ \A i \in 1..(n - 1) : dialogStack'[i] = IF i < k THEN dialogStack[i] ELSE dialogStack[i + 1]
  <2>1. dialogStack \in Seq(DialogSet)
    BY DEF StackIsOpen
  <2>2. n \in Nat
    BY <2>1
  <2> QED
    BY <1>2, <2>1, <2>2, RemovedAt
<1> DEFINE was(i) == IF i < k THEN i ELSE i + 1
<1>4. \A i \in 1..(n - 1) : was(i) \in 1..n /\ was(i) # k /\ dialogStack'[i] = dialogStack[was(i)]
  BY <1>3
<1>5. \A i, j \in 1..(n - 1) : (was(i) = was(j) => i = j) /\ (was(i) > was(j) <=> i > j)
  BY <1>3
<1>6. \A i \in 1..n : i # k => \E j \in 1..(n - 1) : was(j) = i
  <2> SUFFICES ASSUME NEW i \in 1..n, i # k PROVE \E j \in 1..(n - 1) : was(j) = i
    OBVIOUS
  <2>1. CASE i < k
    BY <1>3, <2>1
  <2>2. CASE i > k
    <3>1. i - 1 \in 1..(n - 1) /\ was(i - 1) = i
      BY <1>3, <2>2
    <3> QED
      BY <3>1
  <2> QED
    BY <1>3, <2>1, <2>2
<1> HIDE DEF was
<1>7. opened' = opened \ {d} /\ above' = {pair \in above : d \notin {pair[1], pair[2]}}
  BY DEF CloseDialog
<1>8. opened' \subseteq DialogSet /\ above' \subseteq opened' \X opened'
  BY <1>7 DEF StackIsOpen
<1>9. ASSUME NEW i \in 1..(n - 1)
      PROVE  dialogStack'[i] \in opened'
  BY <1>1, <1>4, <1>7 DEF StackIsOpen
<1>10. ASSUME NEW e \in opened'
       PROVE  \E i \in 1..(n - 1) : dialogStack'[i] = e
  <2>1. PICK i \in 1..n : dialogStack[i] = e
    BY <1>7 DEF StackIsOpen
  <2>2. i # k
    BY <1>1, <1>7, <2>1
  <2> QED
    BY <1>4, <1>6, <2>1, <2>2
<1>11. ASSUME NEW i \in 1..(n - 1), NEW j \in 1..(n - 1), dialogStack'[i] = dialogStack'[j]
       PROVE  i = j
  BY <1>4, <1>5, <1>11 DEF StackIsOpen
<1>12. ASSUME NEW i \in 1..(n - 1), NEW j \in 1..(n - 1)
       PROVE  <<dialogStack'[i], dialogStack'[j]>> \in above' <=> i > j
  <2>1. <<dialogStack'[i], dialogStack'[j]>> \in above' <=> <<dialogStack'[i], dialogStack'[j]>> \in above
    BY <1>7, <1>9
  <2>2. <<dialogStack'[i], dialogStack'[j]>> \in above <=> was(i) > was(j)
    BY <1>4 DEF StackIsOpen
  <2> QED
    BY <1>5, <2>1, <2>2
<1>13. dialogStack' # <<>> <=> opened' # {}
  BY <1>3, <1>9, <1>10
<1>14. listening' \in BOOLEAN /\ (listening' <=> opened' # {})
  BY <1>7, <1>13 DEF StackIsOpen, CloseDialog
<1> QED
  BY <1>3, <1>8, <1>9, <1>10, <1>11, <1>12, <1>14 DEF StackIsOpen

LEMMA StackStep == StackIsOpen /\ [Next]_vars => StackIsOpen'
<1> SUFFICES ASSUME StackIsOpen, [Next]_vars PROVE StackIsOpen'
  OBVIOUS
<1>1. CASE UNCHANGED <<dialogStack, opened, above, listening>>
  BY <1>1 DEF StackIsOpen
<1> QED
  BY <1>1, DialogsOrNot, StackOpens, StackCloses DEF DialogsNext, FocusMoves, PressEscape, dialogVars

\* The dialog that Escape dismisses is the one that opened last.
LEMMA TopIsLast ==
  ASSUME StackIsOpen, opened # {}
  PROVE  dialogStack # <<>> /\ Last(dialogStack) = TopDialog
<1> DEFINE n == Len(dialogStack)
<1>1. n \in Nat \ {0} /\ dialogStack[n] \in opened
  BY DEF StackIsOpen
<1>2. \A e \in opened \ {dialogStack[n]} : <<dialogStack[n], e>> \in above
  <2> SUFFICES ASSUME NEW e \in opened, e # dialogStack[n] PROVE <<dialogStack[n], e>> \in above
    OBVIOUS
  <2>1. PICK j \in 1..n : dialogStack[j] = e
    BY DEF StackIsOpen
  <2> QED
    BY <1>1, <2>1 DEF StackIsOpen
<1>3. ASSUME NEW d \in opened, \A e \in opened \ {d} : <<d, e>> \in above
      PROVE  d = dialogStack[n]
  <2>1. PICK i \in 1..n : dialogStack[i] = d
    BY DEF StackIsOpen
  <2>2. CASE d # dialogStack[n]
    <3>1. <<dialogStack[i], dialogStack[n]>> \in above
      BY <1>1, <1>3, <2>1, <2>2
    <3>2. n \in 1..n /\ i \in 1..n
      BY <1>1
    <3>3. i > n
      BY <3>1, <3>2 DEF StackIsOpen
    <3> QED
      BY <1>1, <3>2, <3>3
  <2> QED
    BY <2>2
<1>4. TopDialog = dialogStack[n]
  BY <1>1, <1>2, <1>3 DEF TopDialog
<1> QED
  BY <1>1, <1>4 DEF Last

LEMMA EscapeTop ==
  ASSUME StackIsOpen, StackIsOpen', DialogsNext, keys' # keys
  PROVE  dismissals' = Append(dismissals, TopDialog)
<1>1. PressEscape
  BY DEF DialogsNext, OpenDialog, CloseDialog, FocusMoves
<1>2. opened # {} /\ listening
  BY <1>1 DEF PressEscape, StackIsOpen
<1> QED
  BY <1>1, <1>2, TopIsLast DEF PressEscape

-----------------------------------------------------------------------------
(* The files an app reads. *)

LEMMA SourcesOrNot ==
  ASSUME [Next]_vars
  PROVE  /\ part' = part
         /\ \/ part = "sources" /\ SourcesNext
            \/ UNCHANGED cacheVars
BY PartStep

LEMMA PicturesOrNot ==
  ASSUME [Next]_vars
  PROVE  /\ part' = part
         /\ \/ part = "pictures" /\ PicturesNext
            \/ UNCHANGED urlVars
BY PartStep

Read == [path : Paths, epoch : Nat, outcome : {"pending", "text", "failed"}]

\* The memo of a path is the one read of its epoch that did not fail; older reads are of
\* older epochs, or failed.
MemoIsRead ==
  /\ reads \in Seq(Read)
  /\ sources \in [Paths -> Nat]
  /\ epochs \in [Paths -> Nat]
  /\ \A p \in Paths : sources[p] # 0 =>
       /\ sources[p] \in 1..Len(reads)
       /\ reads[sources[p]].path = p
       /\ reads[sources[p]].epoch = epochs[p]
       /\ reads[sources[p]].outcome # "failed"
  /\ \A r \in 1..Len(reads) : reads[r].epoch <= epochs[reads[r].path]
  /\ \A r \in 1..Len(reads) :
       reads[r].epoch = epochs[reads[r].path] /\ reads[r].outcome # "failed" => sources[reads[r].path] = r
  /\ \A r, s \in 1..Len(reads) :
       r < s /\ reads[r].path = reads[s].path /\ reads[r].epoch = reads[s].epoch => reads[r].outcome = "failed"

LEMMA MemoInit == SourcesInit => MemoIsRead
<1> SUFFICES ASSUME SourcesInit PROVE MemoIsRead
  OBVIOUS
<1>1. reads \in Seq(Read) /\ Len(reads) = 0
  BY DEF SourcesInit
<1>2. 1..Len(reads) = {}
  BY <1>1
<1> QED
  BY <1>1, <1>2 DEF SourcesInit, MemoIsRead

LEMMA MemoReads ==
  ASSUME MemoIsRead, NEW p \in Paths, ReadSource(p)
  PROVE  MemoIsRead'
<1> DEFINE n == Len(reads)
           new == [path |-> p, epoch |-> epochs[p], outcome |-> "pending"]
<1>1. /\ n \in Nat /\ new \in Read
      /\ reads' \in Seq(Read) /\ Len(reads') = n + 1
      /\ reads'[n + 1] = new
      /\ \A i \in 1..n : reads'[i] = reads[i] /\ reads[i] \in Read
  <2>1. reads \in Seq(Read) /\ reads' = Append(reads, new)
    BY DEF MemoIsRead, ReadSource
  <2>2. new \in Read
    BY DEF MemoIsRead, Read
  <2> HIDE DEF new
  <2> QED
    BY <2>1, <2>2, AppendProperties, ElementOfSeq, LenProperties
<1>2. sources' = [sources EXCEPT ![p] = n + 1] /\ epochs' = epochs /\ sources[p] = 0
  BY DEF ReadSource
<1>3. sources' \in [Paths -> Nat] /\ epochs' \in [Paths -> Nat]
  BY <1>1, <1>2 DEF MemoIsRead
<1>4. \A i \in 1..(n + 1) : i = n + 1 \/ i \in 1..n
  BY <1>1
<1>5. \A q \in Paths : sources'[q] = IF q = p THEN n + 1 ELSE sources[q]
  BY <1>2, <1>3 DEF MemoIsRead
<1>6. ASSUME NEW q \in Paths, sources'[q] # 0
      PROVE  /\ sources'[q] \in 1..(n + 1)
             /\ reads'[sources'[q]].path = q
             /\ reads'[sources'[q]].epoch = epochs'[q]
             /\ reads'[sources'[q]].outcome # "failed"
  <2>1. CASE q = p
    BY <1>1, <1>2, <1>5, <2>1
  <2>2. CASE q # p
    <3>1. sources'[q] = sources[q] /\ sources[q] # 0
      BY <1>5, <1>6, <2>2
    <3>2. sources[q] \in 1..n
      BY <3>1 DEF MemoIsRead
    <3> QED
      BY <1>1, <1>2, <3>1, <3>2 DEF MemoIsRead
  <2> QED
    BY <2>1, <2>2
<1>7. ASSUME NEW r \in 1..(n + 1)
      PROVE  /\ reads'[r].epoch <= epochs'[reads'[r].path]
             /\ reads'[r].epoch = epochs'[reads'[r].path] /\ reads'[r].outcome # "failed" => sources'[reads'[r].path] = r
  <2>1. CASE r = n + 1
    BY <1>1, <1>2, <1>5, <2>1 DEF MemoIsRead
  <2>2. CASE r \in 1..n
    <3>1. reads'[r] = reads[r] /\ reads[r].path \in Paths
      BY <1>1, <2>2 DEF Read
    <3>2. CASE reads[r].path = p
      <4>1. ~(reads[r].epoch = epochs[p] /\ reads[r].outcome # "failed")
        <5>1. r # 0
          BY <1>1, <2>2
        <5> QED
          BY <1>2, <2>2, <3>2, <5>1 DEF MemoIsRead
      <4> QED
        BY <1>2, <2>2, <3>1, <3>2, <4>1 DEF MemoIsRead
    <3>3. CASE reads[r].path # p
      BY <1>2, <1>5, <2>2, <3>1, <3>3 DEF MemoIsRead
    <3> QED
      BY <3>2, <3>3
  <2> QED
    BY <1>4, <2>1, <2>2
<1>8. ASSUME NEW r \in 1..(n + 1), NEW s \in 1..(n + 1),
             r < s, reads'[r].path = reads'[s].path, reads'[r].epoch = reads'[s].epoch
      PROVE  reads'[r].outcome = "failed"
  <2>1. r \in 1..n /\ reads'[r] = reads[r] /\ r # 0
    BY <1>1, <1>8
  <2>2. CASE s \in 1..n
    BY <1>1, <1>8, <2>1, <2>2 DEF MemoIsRead
  <2>3. CASE s = n + 1
    <3>1. reads[r].path = p /\ reads[r].epoch = epochs[p]
      BY <1>1, <1>8, <2>1, <2>3
    <3> QED
      BY <1>2, <2>1, <3>1 DEF MemoIsRead
  <2> QED
    BY <1>4, <2>2, <2>3
<1> QED
  BY <1>1, <1>3, <1>6, <1>7, <1>8 DEF MemoIsRead

LEMMA MemoSettles ==
  ASSUME MemoIsRead, NEW r \in 1..Len(reads), SettleSource(r)
  PROVE  MemoIsRead'
<1> DEFINE n == Len(reads)
           p == reads[r].path
<1>1. PICK outcome \in {"text", "failed"} :
        /\ reads' = [reads EXCEPT ![r].outcome = outcome]
        /\ sources' = IF outcome = "failed" THEN WithoutFailed(r) ELSE sources
  BY DEF SettleSource
<1>2. n \in Nat /\ p \in Paths /\ reads \in [1..n -> Read]
  <2>1. reads \in Seq(Read)
    BY DEF MemoIsRead
  <2>2. reads[r] \in Read
    BY <2>1, ElementOfSeq
  <2> QED
    BY <2>1, <2>2, LenProperties DEF Read
<1>3. /\ reads' \in Seq(Read) /\ Len(reads') = n
      /\ \A i \in 1..n : /\ reads'[i].path = reads[i].path /\ reads'[i].epoch = reads[i].epoch
                         /\ reads'[i].outcome = IF i = r THEN outcome ELSE reads[i].outcome
  <2>1. reads' \in [1..n -> Read]
    BY <1>1, <1>2 DEF Read
  <2>2. reads' \in Seq(Read) /\ Len(reads') = n
    BY <1>2, <2>1
  <2>3. \A i \in 1..n : reads'[i] = IF i = r THEN [reads[r] EXCEPT !.outcome = outcome] ELSE reads[i]
    BY <1>1, <1>2
  <2> QED
    BY <1>2, <2>2, <2>3 DEF Read
<1>4. epochs' = epochs /\ reads[r].outcome = "pending"
  BY DEF SettleSource
<1>5. /\ sources' \in [Paths -> Nat]
      /\ \A q \in Paths : sources'[q] = IF outcome = "failed" /\ q = p /\ sources[q] = r THEN 0 ELSE sources[q]
  BY <1>1, <1>2 DEF WithoutFailed, MemoIsRead
<1>6. ASSUME NEW q \in Paths, sources'[q] # 0
      PROVE  /\ sources'[q] \in 1..n
             /\ reads'[sources'[q]].path = q
             /\ reads'[sources'[q]].epoch = epochs'[q]
             /\ reads'[sources'[q]].outcome # "failed"
  <2>1. sources'[q] = sources[q] /\ sources[q] \in 1..n /\ reads[sources[q]].path = q
    BY <1>5, <1>6 DEF MemoIsRead
  <2>2. outcome = "failed" => sources[q] # r
    BY <1>5, <1>6, <2>1
  <2> QED
    BY <1>3, <1>4, <1>6, <2>1, <2>2 DEF MemoIsRead
<1>7. ASSUME NEW i \in 1..n
      PROVE  /\ reads'[i].epoch <= epochs'[reads'[i].path]
             /\ reads'[i].epoch = epochs'[reads'[i].path] /\ reads'[i].outcome # "failed" => sources'[reads'[i].path] = i
  <2>1. reads[i].path \in Paths
    BY <1>2 DEF Read
  <2>2. reads[i].epoch <= epochs[reads[i].path]
    BY DEF MemoIsRead
  <2>3. ASSUME reads[i].epoch = epochs[reads[i].path], reads'[i].outcome # "failed"
        PROVE  sources'[reads[i].path] = i
    <3>1. reads[i].outcome # "failed"
      BY <1>3, <1>4, <2>3
    <3>2. sources[reads[i].path] = i
      BY <2>3, <3>1 DEF MemoIsRead
    <3>3. ~(outcome = "failed" /\ i = r)
      BY <1>3, <2>3
    <3> QED
      BY <1>5, <2>1, <3>2, <3>3
  <2> QED
    BY <1>3, <1>4, <2>2, <2>3
<1>8. ASSUME NEW i \in 1..n, NEW j \in 1..n,
             i < j, reads'[i].path = reads'[j].path, reads'[i].epoch = reads'[j].epoch
      PROVE  reads'[i].outcome = "failed"
  <2>1. reads[i].outcome = "failed"
    BY <1>3, <1>8 DEF MemoIsRead
  <2> QED
    BY <1>3, <1>4, <2>1
<1> QED
  BY <1>3, <1>4, <1>5, <1>6, <1>7, <1>8 DEF MemoIsRead

LEMMA MemoForgets ==
  ASSUME MemoIsRead, NEW paths, InvalidateSources(paths)
  PROVE  MemoIsRead'
<1>1. /\ reads' = reads /\ reads \in Seq(Read)
      /\ sources' \in [Paths -> Nat] /\ epochs' \in [Paths -> Nat]
      /\ \A q \in Paths : /\ sources'[q] = IF q \in paths THEN 0 ELSE sources[q]
                          /\ epochs'[q] = IF q \in paths THEN epochs[q] + 1 ELSE epochs[q]
  BY DEF InvalidateSources, MemoIsRead
<1>2. \A i \in 1..Len(reads) : reads[i].path \in Paths /\ reads[i].epoch \in Nat
  <2>1. \A i \in 1..Len(reads) : reads[i] \in Read
    BY <1>1, ElementOfSeq
  <2> QED
    BY <2>1 DEF Read
<1>3. \A i \in 1..Len(reads) : reads[i].epoch <= epochs[reads[i].path] /\ epochs[reads[i].path] \in Nat
  BY <1>2 DEF MemoIsRead
<1>4. ASSUME NEW i \in 1..Len(reads)
      PROVE  /\ reads[i].epoch <= epochs'[reads[i].path]
             /\ reads[i].epoch = epochs'[reads[i].path] /\ reads[i].outcome # "failed" => sources'[reads[i].path] = i
  <2>1. reads[i].epoch = epochs[reads[i].path] /\ reads[i].outcome # "failed" => sources[reads[i].path] = i
    BY DEF MemoIsRead
  <2>2. PICK q \in Paths, e \in Nat : q = reads[i].path /\ e = reads[i].epoch
    BY <1>2
  <2>3. epochs[q] \in Nat /\ e <= epochs[q]
    BY <1>3, <2>2
  <2>4. /\ sources'[q] = IF q \in paths THEN 0 ELSE sources[q]
        /\ epochs'[q] = IF q \in paths THEN epochs[q] + 1 ELSE epochs[q]
    BY <1>1
  <2>5. e = epochs[q] /\ reads[i].outcome # "failed" => sources[q] = i
    BY <2>1, <2>2
  <2>6. e <= epochs'[q] /\ (e = epochs'[q] => e = epochs[q] /\ sources'[q] = sources[q])
    BY <2>3, <2>4
  <2> QED
    BY <2>2, <2>5, <2>6
<1>5. ASSUME NEW q \in Paths, sources'[q] # 0
      PROVE  /\ sources'[q] \in 1..Len(reads)
             /\ reads[sources'[q]].path = q
             /\ reads[sources'[q]].epoch = epochs'[q]
             /\ reads[sources'[q]].outcome # "failed"
  <2>1. sources'[q] = sources[q] /\ epochs'[q] = epochs[q]
    BY <1>1, <1>5
  <2> QED
    BY <1>5, <2>1 DEF MemoIsRead
<1>6. \A i, j \in 1..Len(reads) :
        i < j /\ reads[i].path = reads[j].path /\ reads[i].epoch = reads[j].epoch => reads[i].outcome = "failed"
  BY DEF MemoIsRead
<1> QED
  BY <1>1, <1>4, <1>5, <1>6 DEF MemoIsRead

LEMMA MemoStep == MemoIsRead /\ [Next]_vars => MemoIsRead'
<1> SUFFICES ASSUME MemoIsRead, [Next]_vars PROVE MemoIsRead'
  OBVIOUS
<1>1. CASE UNCHANGED cacheVars
  BY <1>1 DEF cacheVars, MemoIsRead
<1>2. CASE SourcesNext
  <2>1. DOMAIN reads = 1..Len(reads)
    BY DEF MemoIsRead
  <2> QED
    BY <1>2, <2>1, MemoReads, MemoSettles, MemoForgets DEF SourcesNext
<1> QED
  BY <1>1, <1>2, SourcesOrNot

LEMMA MemoReadOnce == MemoIsRead => ReadOnce
<1> SUFFICES ASSUME MemoIsRead PROVE ReadOnce
  OBVIOUS
<1>1. DOMAIN reads = 1..Len(reads)
  BY DEF MemoIsRead
<1> QED
  BY <1>1 DEF MemoIsRead, ReadOnce

Load == [picture : Pictures \union {NoPicture, "unmounted"},
         alive : BOOLEAN,
         url : {"reading", "made", "revoked", "none"}]

UrlState == [url : Nat, loading : BOOLEAN, error : BOOLEAN]

\* Only the load of the last effect is alive, and only it has a URL, which the state holds.
UrlIsEffects ==
  /\ shown \in Pictures \union {NoPicture, "unmounted"}
  /\ effectDue \in BOOLEAN
  /\ loads \in Seq(Load)
  /\ effect \in 0..Len(loads)
  /\ urlState \in UrlState
  /\ \A i \in 1..Len(loads) : loads[i].alive <=> i = effect
  /\ \A i \in 1..Len(loads) : loads[i].url = "made" => i = effect /\ urlState.url = i
  /\ shown # "unmounted" /\ urlState.url # 0 =>
       urlState.url = effect /\ loads[effect].url = "made"
  /\ shown # "unmounted" /\ ~effectDue =>
       /\ effect # 0 => loads[effect].picture = shown
       /\ urlState.loading <=> (effect # 0 /\ loads[effect].url = "reading")

LEMMA UrlStates ==
  /\ Idle \in UrlState /\ Idle.url = 0 /\ ~Idle.loading
  /\ Loading \in UrlState /\ Loading.url = 0 /\ Loading.loading
  /\ \A i \in Nat : LET made == [Idle EXCEPT !.url = i]
                    IN  made \in UrlState /\ made.url = i /\ ~made.loading
  /\ LET wrong == [Idle EXCEPT !.error = TRUE]
     IN  wrong \in UrlState /\ wrong.url = 0 /\ ~wrong.loading
BY DEF Idle, Loading, UrlState

LEMMA UrlInit == PicturesInit => UrlIsEffects
<1> SUFFICES ASSUME PicturesInit PROVE UrlIsEffects
  OBVIOUS
<1>1. loads \in Seq(Load) /\ Len(loads) = 0
  BY DEF PicturesInit
<1>2. 1..Len(loads) = {} /\ 0 \in 0..Len(loads)
  BY <1>1
<1>3. urlState \in UrlState /\ urlState.url = 0
  BY UrlStates DEF PicturesInit
<1> QED
  BY <1>1, <1>2, <1>3 DEF PicturesInit, UrlIsEffects

\* A load is changed in its own place.
LEMMA LoadChanged ==
  ASSUME NEW q \in Seq(Load), NEW k \in 1..Len(q), NEW l \in Load
  PROVE  /\ [q EXCEPT ![k] = l] \in Seq(Load)
         /\ Len([q EXCEPT ![k] = l]) = Len(q)
         /\ \A i \in 1..Len(q) : [q EXCEPT ![k] = l][i] = IF i = k THEN l ELSE q[i]
BY ExceptSeq

\* The cleanup takes the URL of the last effect back, and with it the only one that is left.
LEMMA CleanedUpLoads ==
  ASSUME UrlIsEffects
  PROVE  /\ CleanedUp \in Seq(Load) /\ Len(CleanedUp) = Len(loads)
         /\ \A i \in 1..Len(loads) : ~CleanedUp[i].alive /\ CleanedUp[i].url # "made"
<1>1. /\ loads \in Seq(Load)
      /\ \A i \in 1..Len(loads) : loads[i].alive <=> i = effect
      /\ \A i \in 1..Len(loads) : loads[i].url = "made" => i = effect
      /\ effect \in 0..Len(loads)
  BY DEF UrlIsEffects
<1>2. CASE effect = 0
  <2>1. \A i \in 1..Len(loads) : i # 0
    BY <1>1
  <2> QED
    BY <1>1, <1>2, <2>1 DEF CleanedUp
<1>3. CASE effect # 0
  <2> DEFINE l == [loads[effect] EXCEPT !.alive = FALSE, !.url = IF @ = "made" THEN "revoked" ELSE @]
  <2>1. effect \in 1..Len(loads) /\ loads[effect] \in Load
    BY <1>1, <1>3, ElementOfSeq
  <2>2. l \in Load /\ ~l.alive /\ l.url # "made"
    BY <2>1 DEF Load
  <2>3. loads \in [1..Len(loads) -> Load]
    BY <1>1, LenProperties
  <2>4. CleanedUp \in [1..Len(loads) -> Load] /\ \A i \in 1..Len(loads) : CleanedUp[i] = IF i = effect THEN l ELSE loads[i]
    BY <1>3, <2>1, <2>2, <2>3 DEF CleanedUp
  <2>5. CleanedUp \in Seq(Load) /\ Len(CleanedUp) = Len(loads)
    BY <1>1, <2>4, LenProperties
  <2> HIDE DEF l
  <2> QED
    BY <1>1, <2>1, <2>2, <2>4, <2>5
<1> QED
  BY <1>2, <1>3

LEMMA UrlEffectRuns ==
  ASSUME UrlIsEffects, RunPictureEffect
  PROVE  UrlIsEffects'
<1>1. shown' = shown /\ effectDue /\ ~effectDue' /\ effectDue' \in BOOLEAN
  BY DEF RunPictureEffect
<1>2. /\ Idle \in UrlState /\ Idle.url = 0 /\ ~Idle.loading
      /\ Loading \in UrlState /\ Loading.url = 0 /\ Loading.loading
  BY UrlStates
<1>3. CASE shown = NoPicture
  <2>1. loads' = CleanedUp /\ effect' = 0 /\ urlState' = Idle
    BY <1>3 DEF RunPictureEffect
  <2>2. /\ loads' \in Seq(Load) /\ Len(loads') \in Nat
        /\ \A i \in 1..Len(loads') : ~loads'[i].alive /\ loads'[i].url # "made" /\ i # 0
    BY <2>1, CleanedUpLoads
  <2>3. effect' \in 0..Len(loads')
    BY <2>1, <2>2
  <2> QED
    BY <1>1, <1>2, <2>1, <2>2, <2>3 DEF UrlIsEffects
<1>4. CASE shown # NoPicture
  <2> DEFINE l == [picture |-> shown, alive |-> TRUE, url |-> "reading"]
             n == Len(loads)
  <2>1. loads' = Append(CleanedUp, l) /\ effect' = n + 1 /\ urlState' = Loading
    BY <1>4 DEF RunPictureEffect
  <2>2. l \in Load
    BY DEF Load, UrlIsEffects
  <2>3. n \in Nat /\ CleanedUp \in Seq(Load) /\ Len(CleanedUp) = n
    BY CleanedUpLoads DEF UrlIsEffects
  <2>4. loads' \in Seq(Load) /\ Len(loads') = n + 1 /\ loads'[n + 1] = l /\ \A i \in 1..n : loads'[i] = CleanedUp[i]
    <3> HIDE DEF l
    <3> QED
      BY <2>1, <2>2, <2>3, AppendProperties
  <2>5. \A i \in 1..(n + 1) : i = n + 1 \/ (i \in 1..n /\ i # n + 1)
    BY <2>3
  <2>6. \A i \in 1..(n + 1) : (loads'[i].alive <=> i = effect') /\ loads'[i].url # "made"
    BY <2>1, <2>4, <2>5, CleanedUpLoads
  <2>7. effect' \in 0..Len(loads') /\ effect' # 0 /\ loads'[effect'] = l
    BY <2>1, <2>3, <2>4
  <2> QED
    BY <1>1, <1>2, <2>1, <2>4, <2>6, <2>7 DEF UrlIsEffects
<1> QED
  BY <1>3, <1>4

LEMMA UrlSettles ==
  ASSUME UrlIsEffects, NEW i \in 1..Len(loads), SettlePicture(i)
  PROVE  UrlIsEffects'
<1>1. /\ shown' = shown /\ effectDue' = effectDue /\ effect' = effect
      /\ loads[i].url = "reading"
      /\ loads \in Seq(Load) /\ loads[i] \in Load
      /\ urlState \in UrlState
      /\ loads[i].alive <=> i = effect
  BY ElementOfSeq DEF SettlePicture, UrlIsEffects
<1>2. PICK url \in {"made", "revoked", "none"} :
        /\ loads' = [loads EXCEPT ![i].url = url]
        /\ url = "made" => i = effect /\ urlState' = [Idle EXCEPT !.url = i]
        /\ url = "revoked" => i # effect /\ urlState' = urlState
        /\ url = "none" => urlState' = IF i = effect THEN [Idle EXCEPT !.error = TRUE] ELSE urlState
  BY <1>1 DEF SettlePicture, PictureRead, PictureFailed
<1> DEFINE l == [loads[i] EXCEPT !.url = url]
<1>3. l \in Load /\ l.picture = loads[i].picture /\ l.alive = loads[i].alive /\ l.url = url
  BY <1>1 DEF Load
<1>4. loads' = [loads EXCEPT ![i] = l]
  BY <1>2
<1> HIDE DEF l
<1>5. /\ loads' \in Seq(Load) /\ Len(loads') = Len(loads)
      /\ \A j \in 1..Len(loads) : loads'[j] = IF j = i THEN l ELSE loads[j]
  BY <1>1, <1>3, <1>4, LoadChanged
<1>6. i \in Nat /\ i # 0
  OBVIOUS
<1>7. /\ url = "made" => urlState'.url = i /\ ~urlState'.loading
      /\ url = "none" /\ i = effect => urlState'.url = 0 /\ ~urlState'.loading
  BY <1>2, <1>6, UrlStates
<1>8. urlState' \in UrlState
  BY <1>1, <1>2, <1>6, UrlStates
<1>9. \A j \in 1..Len(loads) : loads'[j].alive <=> j = effect
  BY <1>3, <1>5 DEF UrlIsEffects
<1>10. effect # 0 => effect \in 1..Len(loads)
  BY <1>1 DEF UrlIsEffects
<1>11. CASE i = effect
  <2>1. \A j \in 1..Len(loads) : loads'[j].url = "made" => j = effect /\ urlState'.url = j
    BY <1>2, <1>3, <1>5, <1>7, <1>11 DEF UrlIsEffects
  <2>2. shown' # "unmounted" /\ urlState'.url # 0 => urlState'.url = effect /\ loads'[effect].url = "made"
    BY <1>2, <1>3, <1>5, <1>7, <1>11
  <2>3. ~urlState'.loading /\ loads'[effect].url # "reading" /\ loads'[effect].picture = loads[effect].picture
    BY <1>2, <1>3, <1>5, <1>7, <1>11
  <2> QED
    BY <1>1, <1>5, <1>8, <1>9, <2>1, <2>2, <2>3 DEF UrlIsEffects
<1>12. CASE i # effect
  <2>1. url # "made" /\ urlState' = urlState
    BY <1>2, <1>12
  <2>2. \A j \in 1..Len(loads) : loads'[j].url = "made" => loads[j].url = "made"
    BY <1>3, <1>5, <2>1
  <2>3. effect # 0 => loads'[effect] = loads[effect]
    BY <1>5, <1>10, <1>12
  <2>4. shown # "unmounted" /\ urlState.url # 0 => effect # 0
    BY DEF UrlIsEffects
  <2> QED
    BY <1>1, <1>5, <1>8, <1>9, <2>1, <2>2, <2>3, <2>4 DEF UrlIsEffects
<1> QED
  BY <1>11, <1>12

LEMMA UrlUnmounts ==
  ASSUME UrlIsEffects, UnmountPicture
  PROVE  UrlIsEffects'
<1>1. shown' = "unmounted" /\ ~effectDue' /\ effectDue' \in BOOLEAN /\ loads' = CleanedUp /\ effect' = 0 /\ urlState' = urlState
  BY DEF UnmountPicture
<1>2. /\ loads' \in Seq(Load) /\ Len(loads') \in Nat
      /\ \A i \in 1..Len(loads') : ~loads'[i].alive /\ loads'[i].url # "made" /\ i # 0
  BY <1>1, CleanedUpLoads
<1>3. effect' \in 0..Len(loads')
  BY <1>1, <1>2
<1> QED
  BY <1>1, <1>2, <1>3 DEF UrlIsEffects

LEMMA UrlStep == UrlIsEffects /\ [Next]_vars => UrlIsEffects'
<1> SUFFICES ASSUME UrlIsEffects, [Next]_vars PROVE UrlIsEffects'
  OBVIOUS
<1>1. CASE UNCHANGED urlVars
  BY <1>1 DEF urlVars, UrlIsEffects
<1>2. ASSUME NEW f \in Pictures \union {NoPicture}, ShowPicture(f)
      PROVE  UrlIsEffects'
  BY <1>2 DEF ShowPicture, UrlIsEffects
<1>3. CASE PicturesNext
  <2>1. DOMAIN loads = 1..Len(loads)
    BY DEF UrlIsEffects
  <2> QED
    BY <1>2, <1>3, <2>1, UrlEffectRuns, UrlSettles, UrlUnmounts DEF PicturesNext
<1> QED
  BY <1>1, <1>3, PicturesOrNot

LEMMA UrlReleases == UrlIsEffects => UrlsReleased
<1> SUFFICES ASSUME UrlIsEffects PROVE UrlsReleased
  OBVIOUS
<1>1. DOMAIN loads = 1..Len(loads)
  BY DEF UrlIsEffects
<1>2. shown # "unmounted" /\ urlState.url # 0 => effect # 0
  BY DEF UrlIsEffects
<1> QED
  BY <1>1, <1>2 DEF UrlIsEffects, UrlsReleased

-----------------------------------------------------------------------------
(* The launches. *)

LEMMA LaunchOrNot ==
  ASSUME [Next]_vars
  PROVE  /\ part' = part
         /\ \/ part = "launch" /\ LaunchNext
            \/ UNCHANGED launchVars /\ (part = "launch" => UNCHANGED toApp)
BY PartStep

LaunchMessage ==
  [type : {"created"}, body : [launch : LaunchCalls, ok : BOOLEAN]]
    \union [type : {"launch-ended"}, body : [launch : LaunchCalls, status : EndStatuses]]

EarlyEnd == [launch : LaunchCalls, status : EndStatuses]

LaunchTypeOK ==
  /\ launchCall \in [LaunchCalls -> {"idle", "creating", "handle", "refused", "rejected"}]
  /\ hostLaunch \in [LaunchCalls -> [state : {"none", "asked", "running", "refused", "dismissed", "failed"}, answered : BOOLEAN]]
  /\ pendingEnded \in Seq(EarlyEnd)
  /\ handleStatus \in [LaunchCalls -> EndStatuses \union {"running"}]
  /\ dismissCb \in [LaunchCalls -> {"none", "waits", "due", "called", "removed"}]
  /\ endsArrived \subseteq LaunchCalls
  /\ part = "launch" => toApp \in Seq(LaunchMessage)

\* The host ends what was asked for, and says how.
EndsAreTrue ==
  /\ \A c \in LaunchCalls : launchCall[c] = "idle" => hostLaunch[c].state = "none"
  /\ \A c \in endsArrived : hostLaunch[c].state \in EndStatuses
  /\ part = "launch" => \A i \in 1..Len(toApp) :
       toApp[i].type = "launch-ended" => hostLaunch[toApp[i].body.launch].state = toApp[i].body.status
  /\ \A i \in 1..Len(pendingEnded) :
       /\ hostLaunch[pendingEnded[i].launch].state = pendingEnded[i].status
       /\ pendingEnded[i].launch \in endsArrived

\* The end of a launch whose handle is still to come is kept for it.
EndIsKept ==
  \A c \in LaunchCalls : launchCall[c] = "creating" /\ c \in endsArrived \ evicted =>
    \E i \in 1..Len(pendingEnded) : pendingEnded[i].launch = c

\* A call without a handle has neither a status nor a callback.
HandleFirst ==
  \A c \in LaunchCalls : launchCall[c] # "handle" => handleStatus[c] = "running" /\ dismissCb[c] = "none"

LaunchInv == LaunchTypeOK /\ EndsAreTrue /\ EndIsKept /\ HandleFirst /\ LaunchEndsTold

LEMMA LaunchInitInv == BusInit /\ LaunchInit => LaunchInv
<1> SUFFICES ASSUME BusInit, LaunchInit PROVE LaunchInv
  OBVIOUS
<1>1. /\ pendingEnded \in Seq(EarlyEnd) /\ Len(pendingEnded) = 0
      /\ toApp \in Seq(LaunchMessage) /\ Len(toApp) = 0
  BY DEF BusInit, LaunchInit
<1>2. 1..Len(pendingEnded) = {} /\ 1..Len(toApp) = {}
  BY <1>1
<1> QED
  BY <1>1, <1>2 DEF LaunchInit, LaunchInv, LaunchTypeOK, EndsAreTrue, EndIsKept, HandleFirst, LaunchEndsTold

\* The host sends one message more.
LEMMA HostSendsOne ==
  ASSUME LaunchInv, part = "launch", NEW type, NEW body, HostSends(type, body),
         [type |-> type, body |-> body] \in LaunchMessage
  PROVE  /\ toApp' \in Seq(LaunchMessage)
         /\ \A i \in 1..Len(toApp') : \/ i \in 1..Len(toApp) /\ toApp'[i] = toApp[i]
                                      \/ toApp'[i].type = type /\ toApp'[i].body = body
<1> DEFINE new == [type |-> type, body |-> body]
<1>1. toApp \in Seq(LaunchMessage) /\ new \in LaunchMessage /\ toApp' = Append(toApp, new)
  BY DEF LaunchInv, LaunchTypeOK, HostSends
<1> HIDE DEF new
<1>2. /\ toApp' \in Seq(LaunchMessage) /\ Len(toApp') = Len(toApp) + 1 /\ Len(toApp) \in Nat
      /\ \A i \in 1..Len(toApp) : toApp'[i] = toApp[i]
      /\ toApp'[Len(toApp) + 1] = new
  BY <1>1, AppendProperties, LenProperties
<1>3. \A i \in 1..Len(toApp') : i \in 1..Len(toApp) \/ i = Len(toApp) + 1
  BY <1>2
<1> QED
  BY <1>2, <1>3 DEF new

\* A step of the host: a launch that has ended, or was not asked for, stays as it is, and
\* what is sent is true.
LEMMA HostLaunchStep ==
  ASSUME LaunchInv, part = "launch", part' = part,
         UNCHANGED <<launchCall, pendingEnded, handleStatus, dismissCb, endsArrived, evicted>>,
         hostLaunch' \in [LaunchCalls -> [state : {"none", "asked", "running", "refused", "dismissed", "failed"}, answered : BOOLEAN]],
         \A c \in LaunchCalls : hostLaunch[c].state \in EndStatuses \union {"none"} => hostLaunch'[c].state = hostLaunch[c].state,
         toApp' \in Seq(LaunchMessage),
         \A i \in 1..Len(toApp') :
            \/ i \in 1..Len(toApp) /\ toApp'[i] = toApp[i]
            \/ toApp'[i].type = "launch-ended" => hostLaunch'[toApp'[i].body.launch].state = toApp'[i].body.status
  PROVE  LaunchInv'
<1>1. LaunchTypeOK'
  BY DEF LaunchInv, LaunchTypeOK
<1>2. EndsAreTrue'
  <2>1. ASSUME NEW i \in 1..Len(toApp'), toApp'[i].type = "launch-ended"
        PROVE  hostLaunch'[toApp'[i].body.launch].state = toApp'[i].body.status
    <3>1. CASE i \in 1..Len(toApp) /\ toApp'[i] = toApp[i]
      <4>1. toApp'[i] \in LaunchMessage
        BY ElementOfSeq
      <4>2. toApp'[i].body.launch \in LaunchCalls /\ toApp'[i].body.status \in EndStatuses
        BY <2>1, <4>1 DEF LaunchMessage
      <4>3. hostLaunch[toApp'[i].body.launch].state = toApp'[i].body.status
        BY <2>1, <3>1 DEF LaunchInv, EndsAreTrue
      <4> QED
        BY <4>2, <4>3
    <3> QED
      BY <2>1, <3>1
  <2>2. ASSUME NEW i \in 1..Len(pendingEnded)
        PROVE  hostLaunch'[pendingEnded[i].launch].state = pendingEnded[i].status
    <3>1. pendingEnded[i].launch \in LaunchCalls /\ pendingEnded[i].launch \in endsArrived
      BY DEF LaunchInv, EndsAreTrue, LaunchTypeOK
    <3> QED
      BY <3>1 DEF LaunchInv, EndsAreTrue
  <2>3. \A c \in endsArrived : c \in LaunchCalls /\ hostLaunch'[c].state \in EndStatuses
    BY DEF LaunchInv, EndsAreTrue, LaunchTypeOK
  <2> QED
    BY <2>1, <2>2, <2>3 DEF LaunchInv, EndsAreTrue
<1>3. EndIsKept' /\ HandleFirst'
  BY DEF LaunchInv, EndIsKept, HandleFirst
<1>4. LaunchEndsTold'
  BY DEF LaunchInv, LaunchEndsTold, EndsAreTrue
<1> QED
  BY <1>1, <1>2, <1>3, <1>4 DEF LaunchInv

LEMMA HostSteps ==
  ASSUME LaunchInv, part = "launch", part' = part, NEW c \in LaunchCalls,
         HostBinds(c) \/ HostConfirms(c) \/ \E status \in EndStatuses : HostEndsLaunch(c, status)
  PROVE  LaunchInv'
<1>1. /\ hostLaunch \in [LaunchCalls -> [state : {"none", "asked", "running", "refused", "dismissed", "failed"}, answered : BOOLEAN]]
      /\ toApp \in Seq(LaunchMessage)
      /\ EndStatuses = {"dismissed", "failed"}
  BY DEF LaunchInv, LaunchTypeOK, EndStatuses
<1>2. \A ok \in BOOLEAN : [type |-> "created", body |-> [launch |-> c, ok |-> ok]] \in LaunchMessage
  BY DEF LaunchMessage
<1>3. \A status \in EndStatuses : [type |-> "launch-ended", body |-> [launch |-> c, status |-> status]] \in LaunchMessage
  BY DEF LaunchMessage
<1>4. CASE HostBinds(c)
  <2>1. CASE UNCHANGED toApp
    <3>1. /\ toApp' \in Seq(LaunchMessage)
          /\ \A i \in 1..Len(toApp') : i \in 1..Len(toApp) /\ toApp'[i] = toApp[i]
      BY <1>1, <2>1
    <3>2. /\ hostLaunch' \in [LaunchCalls -> [state : {"none", "asked", "running", "refused", "dismissed", "failed"}, answered : BOOLEAN]]
          /\ \A d \in LaunchCalls : hostLaunch[d].state # "asked" => hostLaunch'[d].state = hostLaunch[d].state
      BY <1>1, <1>4 DEF HostBinds
    <3> QED
      BY <1>1, <1>4, <3>1, <3>2, HostLaunchStep DEF HostBinds
  <2>2. CASE HostSends("created", [launch |-> c, ok |-> FALSE])
    <3>1. /\ toApp' \in Seq(LaunchMessage)
          /\ \A i \in 1..Len(toApp') : (i \in 1..Len(toApp) /\ toApp'[i] = toApp[i]) \/ toApp'[i].type = "created"
      <4>1. [type |-> "created", body |-> [launch |-> c, ok |-> FALSE]] \in LaunchMessage
        BY <1>2
      <4> QED
        BY <2>2, <4>1, HostSendsOne
    <3>2. /\ hostLaunch' \in [LaunchCalls -> [state : {"none", "asked", "running", "refused", "dismissed", "failed"}, answered : BOOLEAN]]
          /\ \A d \in LaunchCalls : hostLaunch[d].state # "asked" => hostLaunch'[d].state = hostLaunch[d].state
      BY <1>1, <1>4 DEF HostBinds
    <3> QED
      BY <1>1, <1>4, <3>1, <3>2, HostLaunchStep DEF HostBinds
  <2> QED
    BY <1>4, <2>1, <2>2 DEF HostBinds
<1>5. CASE HostConfirms(c)
  <2>1. HostSends("created", [launch |-> c, ok |-> TRUE])
    BY <1>5 DEF HostConfirms
  <2>2. /\ toApp' \in Seq(LaunchMessage)
        /\ \A i \in 1..Len(toApp') : (i \in 1..Len(toApp) /\ toApp'[i] = toApp[i]) \/ toApp'[i].type = "created"
    <3>1. [type |-> "created", body |-> [launch |-> c, ok |-> TRUE]] \in LaunchMessage
      BY <1>2
    <3> QED
      BY <2>1, <3>1, HostSendsOne
  <2>3. /\ hostLaunch' \in [LaunchCalls -> [state : {"none", "asked", "running", "refused", "dismissed", "failed"}, answered : BOOLEAN]]
        /\ \A d \in LaunchCalls : hostLaunch'[d].state = hostLaunch[d].state
    BY <1>1, <1>5 DEF HostConfirms
  <2> QED
    BY <1>5, <2>2, <2>3, HostLaunchStep DEF HostConfirms
<1>6. ASSUME NEW status \in EndStatuses, HostEndsLaunch(c, status)
      PROVE  LaunchInv'
  <2>1. HostSends("launch-ended", [launch |-> c, status |-> status])
    BY <1>6 DEF HostEndsLaunch
  <2>2. /\ hostLaunch' \in [LaunchCalls -> [state : {"none", "asked", "running", "refused", "dismissed", "failed"}, answered : BOOLEAN]]
        /\ hostLaunch'[c].state = status
        /\ \A d \in LaunchCalls : hostLaunch[d].state # "running" => hostLaunch'[d].state = hostLaunch[d].state
    BY <1>1, <1>6 DEF HostEndsLaunch
  <2>3. /\ toApp' \in Seq(LaunchMessage)
        /\ \A i \in 1..Len(toApp') :
             \/ i \in 1..Len(toApp) /\ toApp'[i] = toApp[i]
             \/ hostLaunch'[toApp'[i].body.launch].state = toApp'[i].body.status
    <3>1. [type |-> "launch-ended", body |-> [launch |-> c, status |-> status]] \in LaunchMessage
      BY <1>3
    <3>2. \A i \in 1..Len(toApp') :
             \/ i \in 1..Len(toApp) /\ toApp'[i] = toApp[i]
             \/ toApp'[i].body = [launch |-> c, status |-> status]
      BY <2>1, <3>1, HostSendsOne
    <3> QED
      BY <2>1, <2>2, <3>1, <3>2, HostSendsOne
  <2> QED
    BY <1>1, <1>6, <2>2, <2>3, HostLaunchStep DEF HostEndsLaunch
<1> QED
  BY <1>4, <1>5, <1>6

\* A step of the launcher that takes no message: it begins or gives up a call, or its
\* callback moves on.
LEMMA CallSteps ==
  ASSUME LaunchInv, part = "launch", part' = part, NEW c \in LaunchCalls, BeginLaunch(c) \/ CreateTimesOut(c)
  PROVE  LaunchInv'
<1>1. /\ launchCall \in [LaunchCalls -> {"idle", "creating", "handle", "refused", "rejected"}]
      /\ hostLaunch \in [LaunchCalls -> [state : {"none", "asked", "running", "refused", "dismissed", "failed"}, answered : BOOLEAN]]
      /\ launchCall[c] \in {"idle", "creating"}
      /\ UNCHANGED <<toApp, pendingEnded, handleStatus, dismissCb, endsArrived, evicted>>
  BY DEF LaunchInv, LaunchTypeOK, BeginLaunch, CreateTimesOut, busVars
<1>2. /\ launchCall' \in [LaunchCalls -> {"idle", "creating", "handle", "refused", "rejected"}]
      /\ launchCall'[c] \in {"creating", "rejected"}
      /\ launchCall'[c] = "creating" => launchCall[c] = "idle"
      /\ \A d \in LaunchCalls \ {c} : launchCall'[d] = launchCall[d]
  BY <1>1 DEF BeginLaunch, CreateTimesOut
<1>3. /\ hostLaunch' \in [LaunchCalls -> [state : {"none", "asked", "running", "refused", "dismissed", "failed"}, answered : BOOLEAN]]
      /\ hostLaunch'[c].state # hostLaunch[c].state => launchCall[c] = "idle"
      /\ \A d \in LaunchCalls \ {c} : hostLaunch'[d] = hostLaunch[d]
  BY <1>1 DEF BeginLaunch, CreateTimesOut
<1>4. \A d \in LaunchCalls : hostLaunch[d].state \in EndStatuses => hostLaunch'[d].state = hostLaunch[d].state
  BY <1>3 DEF LaunchInv, EndsAreTrue, EndStatuses
<1>5. LaunchTypeOK'
  BY <1>1, <1>2, <1>3 DEF LaunchInv, LaunchTypeOK
<1>6. EndsAreTrue'
  <2>1. \A d \in LaunchCalls : launchCall'[d] = "idle" => hostLaunch'[d].state = "none"
    BY <1>2, <1>3 DEF LaunchInv, EndsAreTrue
  <2>2. \A d \in endsArrived : hostLaunch'[d].state \in EndStatuses
    BY <1>4 DEF LaunchInv, EndsAreTrue, LaunchTypeOK
  <2>3. ASSUME NEW i \in 1..Len(toApp), toApp[i].type = "launch-ended"
        PROVE  hostLaunch'[toApp[i].body.launch].state = toApp[i].body.status
    <3>1. toApp[i] \in LaunchMessage
      BY ElementOfSeq DEF LaunchInv, LaunchTypeOK
    <3>2. toApp[i].body.launch \in LaunchCalls /\ toApp[i].body.status \in EndStatuses
      BY <2>3, <3>1 DEF LaunchMessage
    <3> QED
      BY <1>4, <2>3, <3>2 DEF LaunchInv, EndsAreTrue
  <2>4. ASSUME NEW i \in 1..Len(pendingEnded)
        PROVE  /\ hostLaunch'[pendingEnded[i].launch].state = pendingEnded[i].status
               /\ pendingEnded[i].launch \in endsArrived
    BY <1>4 DEF LaunchInv, EndsAreTrue, LaunchTypeOK
  <2> QED
    BY <1>1, <2>1, <2>2, <2>3, <2>4 DEF EndsAreTrue
<1>7. EndIsKept'
  <2>1. launchCall[c] = "idle" => c \notin endsArrived
    BY DEF LaunchInv, EndsAreTrue, EndStatuses
  <2> QED
    BY <1>1, <1>2, <2>1 DEF LaunchInv, EndIsKept
<1>8. HandleFirst' /\ LaunchEndsTold'
  BY <1>1, <1>2, <1>3 DEF LaunchInv, HandleFirst, LaunchEndsTold
<1> QED
  BY <1>5, <1>6, <1>7, <1>8 DEF LaunchInv

LEMMA CallbackSteps ==
  ASSUME LaunchInv, part = "launch", part' = part, NEW c \in LaunchCalls,
         OnDismiss(c) \/ OffDismiss(c) \/ RunDismissed(c)
  PROVE  LaunchInv'
<1>1. /\ dismissCb \in [LaunchCalls -> {"none", "waits", "due", "called", "removed"}]
      /\ UNCHANGED <<toApp, launchCall, hostLaunch, pendingEnded, handleStatus, endsArrived, evicted>>
  BY DEF LaunchInv, LaunchTypeOK, OnDismiss, OffDismiss, RunDismissed, busVars
<1>2. /\ dismissCb' \in [LaunchCalls -> {"none", "waits", "due", "called", "removed"}]
      /\ launchCall[c] = "handle"
      /\ dismissCb'[c] = "waits" => handleStatus[c] = "running"
      /\ dismissCb'[c] \in {"due", "called"} => handleStatus[c] # "running"
      /\ \A d \in LaunchCalls \ {c} : dismissCb'[d] = dismissCb[d]
  BY <1>1 DEF OnDismiss, OffDismiss, RunDismissed, LaunchInv, HandleFirst, LaunchEndsTold
<1>3. LaunchTypeOK' /\ EndsAreTrue' /\ EndIsKept'
  BY <1>1, <1>2 DEF LaunchInv, LaunchTypeOK, EndsAreTrue, EndIsKept
<1>4. HandleFirst' /\ LaunchEndsTold'
  BY <1>1, <1>2 DEF LaunchInv, HandleFirst, LaunchEndsTold
<1> QED
  BY <1>3, <1>4 DEF LaunchInv

\* The first message reaches the launcher.
LEMMA LaunchArrival ==
  ASSUME LaunchInv, part = "launch", toApp # <<>>, toApp' = Tail(toApp)
  PROVE  /\ Head(toApp) \in LaunchMessage
         /\ Head(toApp).type = "launch-ended" =>
              hostLaunch[Head(toApp).body.launch].state = Head(toApp).body.status
         /\ toApp' \in Seq(LaunchMessage)
         /\ \A i \in 1..Len(toApp') :
              toApp'[i].type = "launch-ended" => hostLaunch[toApp'[i].body.launch].state = toApp'[i].body.status
<1>1. toApp \in Seq(LaunchMessage)
  BY DEF LaunchInv, LaunchTypeOK
<1>2. /\ Head(toApp) = toApp[1] /\ 1 \in 1..Len(toApp)
      /\ toApp' \in Seq(LaunchMessage) /\ Len(toApp') = Len(toApp) - 1
      /\ \A i \in 1..Len(toApp') : toApp'[i] = toApp[i + 1] /\ i + 1 \in 1..Len(toApp)
  BY <1>1, HeadTailProperties
<1>3. toApp[1] \in LaunchMessage
  BY <1>1, <1>2, ElementOfSeq
<1> QED
  BY <1>2, <1>3 DEF LaunchInv, EndsAreTrue

\* What stays of the buffer when the call c has its answer: ends that were there, and all
\* those of calls that still wait.
Remainder(rest, c) ==
  /\ rest \in Seq(EarlyEnd)
  /\ \A i \in 1..Len(rest) : \E j \in 1..Len(pendingEnded) : rest[i] = pendingEnded[j]
  /\ \A d \in CreatesInFlight \ {c} :
       (\E j \in 1..Len(pendingEnded) : pendingEnded[j].launch = d) => \E i \in 1..Len(rest) : rest[i].launch = d

LEMMA SweptLeaves ==
  ASSUME NEW c, NEW rest, Remainder(rest, c)
  PROVE  Remainder(Swept(rest, CreatesInFlight \ {c}), c)
<1>1. CASE CreatesInFlight \ {c} = {}
  <2>1. <<>> \in Seq(EarlyEnd) /\ Len(<<>>) = 0
    OBVIOUS
  <2>2. Swept(rest, CreatesInFlight \ {c}) = <<>>
    BY <1>1 DEF Swept
  <2>3. Remainder(<<>>, c)
    BY <1>1, <2>1 DEF Remainder
  <2> QED
    BY <2>2, <2>3
<1>2. CASE CreatesInFlight \ {c} # {}
  BY <1>2 DEF Swept
<1> QED
  BY <1>1, <1>2

LEMMA EndTakenOut ==
  ASSUME pendingEnded \in Seq(EarlyEnd), NEW place \in 1..Len(pendingEnded), NEW c, pendingEnded[place].launch = c
  PROVE  Remainder(RemoveAt(pendingEnded, place), c)
<1> DEFINE n == Len(pendingEnded)
           rest == RemoveAt(pendingEnded, place)
<1>1. n \in Nat
  BY LenProperties
<1>2. /\ rest \in Seq(EarlyEnd) /\ Len(rest) = n - 1
      /\ \A i \in 1..(n - 1) : rest[i] = IF i < place THEN pendingEnded[i] ELSE pendingEnded[i + 1]
  BY RemovedAt
<1> HIDE DEF rest
<1>3. ASSUME NEW i \in 1..Len(rest)
      PROVE  \E j \in 1..n : rest[i] = pendingEnded[j]
  BY <1>1, <1>2
<1>4. ASSUME NEW d, d # c, NEW j \in 1..n, pendingEnded[j].launch = d
      PROVE  \E i \in 1..Len(rest) : rest[i].launch = d
  <2>1. CASE j < place
    BY <1>1, <1>2, <1>4, <2>1
  <2>2. CASE j > place
    <3>1. j - 1 \in 1..(n - 1) /\ ~(j - 1 < place) /\ (j - 1) + 1 = j
      BY <1>1, <2>2
    <3>2. rest[j - 1] = pendingEnded[j]
      BY <1>2, <3>1
    <3> QED
      BY <1>2, <1>4, <3>1, <3>2
  <2> QED
    BY <1>1, <1>4, <2>1, <2>2
<1>5. Remainder(rest, c)
  BY <1>2, <1>3, <1>4 DEF Remainder
<1> QED
  BY <1>5 DEF rest

LEMMA AnswerStep ==
  ASSUME LaunchInv, part = "launch", part' = part, CreateReturns
  PROVE  LaunchInv'
<1> DEFINE c == Head(toApp).body.launch
           early == {i \in DOMAIN pendingEnded : pendingEnded[i].launch = c}
           place == CHOOSE i \in early : TRUE
           others == IF early = {} THEN pendingEnded ELSE RemoveAt(pendingEnded, place)
<1>1. /\ toApp # <<>> /\ toApp' = Tail(toApp) /\ Head(toApp).type = "created"
      /\ UNCHANGED <<hostLaunch, dismissCb, endsArrived, evicted>>
  BY DEF CreateReturns, Arriving
<1>2. /\ Head(toApp) \in LaunchMessage
      /\ toApp' \in Seq(LaunchMessage)
      /\ \A i \in 1..Len(toApp') :
           toApp'[i].type = "launch-ended" => hostLaunch'[toApp'[i].body.launch].state = toApp'[i].body.status
  BY <1>1, LaunchArrival
<1>3. c \in LaunchCalls
  BY <1>1, <1>2 DEF LaunchMessage
<1>4. /\ pendingEnded \in Seq(EarlyEnd) /\ DOMAIN pendingEnded = 1..Len(pendingEnded)
      /\ launchCall \in [LaunchCalls -> {"idle", "creating", "handle", "refused", "rejected"}]
      /\ handleStatus \in [LaunchCalls -> EndStatuses \union {"running"}]
  BY LenProperties DEF LaunchInv, LaunchTypeOK
<1>5. CASE launchCall[c] # "creating"
  <2>1. UNCHANGED <<launchCall, pendingEnded, handleStatus>>
    BY <1>5 DEF CreateReturns
  <2>2. LaunchTypeOK'
    BY <1>1, <1>2, <2>1 DEF LaunchInv, LaunchTypeOK
  <2>3. EndsAreTrue'
    BY <1>1, <1>2, <2>1 DEF LaunchInv, EndsAreTrue
  <2>4. EndIsKept' /\ HandleFirst' /\ LaunchEndsTold'
    BY <1>1, <2>1 DEF LaunchInv, EndIsKept, HandleFirst, LaunchEndsTold
  <2> QED
    BY <2>2, <2>3, <2>4 DEF LaunchInv
<1>6. ASSUME launchCall[c] = "creating",
             Remainder(pendingEnded', c),
             NEW answer \in {"handle", "refused"}, launchCall' = [launchCall EXCEPT ![c] = answer],
             handleStatus' \in [LaunchCalls -> EndStatuses \union {"running"}],
             \A d \in LaunchCalls \ {c} : handleStatus'[d] = handleStatus[d],
             answer = "refused" => handleStatus'[c] = "running",
             c \in endsArrived \ evicted /\ answer = "handle" => handleStatus'[c] = hostLaunch[c].state,
             handleStatus'[c] # "running" => c \in endsArrived
      PROVE  LaunchInv'
  <2>1. /\ launchCall' \in [LaunchCalls -> {"idle", "creating", "handle", "refused", "rejected"}]
        /\ launchCall'[c] = answer
        /\ \A d \in LaunchCalls \ {c} : launchCall'[d] = launchCall[d]
    BY <1>3, <1>4, <1>6
  <2>2. LaunchTypeOK'
    BY <1>1, <1>2, <1>6, <2>1 DEF LaunchInv, LaunchTypeOK, Remainder
  <2>3. EndsAreTrue'
    <3>1. \A i \in 1..Len(pendingEnded') : /\ hostLaunch[pendingEnded'[i].launch].state = pendingEnded'[i].status
                                           /\ pendingEnded'[i].launch \in endsArrived
      BY <1>6 DEF Remainder, LaunchInv, EndsAreTrue
    <3>2. \A d \in LaunchCalls : launchCall'[d] = "idle" => launchCall[d] = "idle"
      BY <1>6, <2>1
    <3> QED
      BY <1>1, <1>2, <3>1, <3>2 DEF LaunchInv, EndsAreTrue
  <2>4. EndIsKept'
    <3> SUFFICES ASSUME NEW d \in LaunchCalls, launchCall'[d] = "creating", d \in endsArrived \ evicted
                 PROVE  \E i \in 1..Len(pendingEnded') : pendingEnded'[i].launch = d
      BY <1>1 DEF EndIsKept
    <3>1. d # c /\ d \in CreatesInFlight
      BY <1>6, <2>1 DEF CreatesInFlight
    <3>2. \E j \in 1..Len(pendingEnded) : pendingEnded[j].launch = d
      BY <3>1 DEF LaunchInv, EndIsKept, CreatesInFlight
    <3> QED
      BY <1>6, <3>1, <3>2 DEF Remainder
  <2>5. HandleFirst'
    BY <1>1, <1>6, <2>1 DEF LaunchInv, HandleFirst
  <2>6. LaunchEndsTold'
    <3>1. dismissCb[c] = "none"
      BY <1>3, <1>6 DEF LaunchInv, HandleFirst
    <3> QED
      BY <1>1, <1>6, <2>1, <3>1 DEF LaunchInv, LaunchEndsTold
  <2> QED
    BY <2>2, <2>3, <2>4, <2>5, <2>6 DEF LaunchInv
<1>7. handleStatus[c] = "running" \/ launchCall[c] # "creating"
  BY <1>3 DEF LaunchInv, HandleFirst
<1>8. Remainder(pendingEnded, c)
  BY <1>4 DEF Remainder
<1>9. early # {} => /\ place \in 1..Len(pendingEnded)
                    /\ pendingEnded[place].launch = c
                    /\ pendingEnded[place].status = hostLaunch[c].state
                    /\ pendingEnded[place].status \in EndStatuses
                    /\ c \in endsArrived
  <2> SUFFICES ASSUME early # {} PROVE /\ place \in 1..Len(pendingEnded)
                                       /\ pendingEnded[place].launch = c
                                       /\ pendingEnded[place].status = hostLaunch[c].state
                                       /\ pendingEnded[place].status \in EndStatuses
                                       /\ c \in endsArrived
    OBVIOUS
  <2>1. place \in early
    OBVIOUS
  <2>2. place \in 1..Len(pendingEnded) /\ pendingEnded[place].launch = c
    BY <1>4, <2>1
  <2> QED
    BY <2>2 DEF LaunchInv, EndsAreTrue
<1>10. Remainder(others, c)
  BY <1>4, <1>8, <1>9, EndTakenOut
<1> HIDE DEF place, others
<1>11. CASE launchCall[c] = "creating" /\ Head(toApp).body.ok
  <2>1. /\ launchCall' = [launchCall EXCEPT ![c] = "handle"]
        /\ handleStatus' = [handleStatus EXCEPT ![c] = IF early = {} THEN @ ELSE pendingEnded[place].status]
        /\ pendingEnded' = Swept(others, CreatesInFlight \ {c})
    BY <1>11 DEF CreateReturns, place, others
  <2>2. Remainder(pendingEnded', c)
    BY <1>10, <2>1, SweptLeaves
  <2>3. CASE early = {}
    <3>1. handleStatus' = handleStatus
      BY <1>3, <1>4, <2>1, <2>3
    <3>2. c \notin endsArrived \ evicted
      <4>1. ~ \E i \in 1..Len(pendingEnded) : pendingEnded[i].launch = c
        BY <1>4, <2>3
      <4> QED
        BY <1>3, <1>11, <4>1 DEF LaunchInv, EndIsKept
    <3> QED
      BY <1>4, <1>6, <1>7, <1>11, <2>1, <2>2, <3>1, <3>2
  <2>4. CASE early # {}
    <3>1. /\ handleStatus' \in [LaunchCalls -> EndStatuses \union {"running"}]
          /\ handleStatus'[c] = hostLaunch[c].state
          /\ \A d \in LaunchCalls \ {c} : handleStatus'[d] = handleStatus[d]
      BY <1>3, <1>4, <1>9, <2>1, <2>4
    <3> QED
      BY <1>6, <1>9, <1>11, <2>1, <2>2, <2>4, <3>1
  <2> QED
    BY <2>3, <2>4
<1>12. CASE launchCall[c] = "creating" /\ ~Head(toApp).body.ok
  <2>1. /\ launchCall' = [launchCall EXCEPT ![c] = "refused"]
        /\ handleStatus' = handleStatus
        /\ pendingEnded' = Swept(pendingEnded, CreatesInFlight \ {c})
    BY <1>12 DEF CreateReturns
  <2>2. Remainder(pendingEnded', c)
    BY <1>8, <2>1, SweptLeaves
  <2> QED
    BY <1>4, <1>6, <1>7, <1>12, <2>1, <2>2
<1> QED
  BY <1>5, <1>11, <1>12

LEMMA EndedStep ==
  ASSUME LaunchInv, part = "launch", part' = part, LaunchEnded
  PROVE  LaunchInv'
<1> DEFINE c == Head(toApp).body.launch
           status == Head(toApp).body.status
           n == Len(pendingEnded)
           kept == IF Len(pendingEnded) >= MaxPendingEnded THEN Tail(pendingEnded) ELSE pendingEnded
           new == [launch |-> c, status |-> status]
<1>1. /\ toApp # <<>> /\ toApp' = Tail(toApp) /\ Head(toApp).type = "launch-ended"
      /\ endsArrived' = endsArrived \union {c}
      /\ UNCHANGED <<launchCall, hostLaunch>>
  BY DEF LaunchEnded, Arriving
<1>2. /\ Head(toApp) \in LaunchMessage
      /\ hostLaunch[c].state = status
      /\ toApp' \in Seq(LaunchMessage)
      /\ \A i \in 1..Len(toApp') :
           toApp'[i].type = "launch-ended" => hostLaunch'[toApp'[i].body.launch].state = toApp'[i].body.status
  BY <1>1, LaunchArrival
<1>3. c \in LaunchCalls /\ status \in EndStatuses /\ status # "running" /\ new \in EarlyEnd
  BY <1>1, <1>2 DEF LaunchMessage, EndStatuses, EarlyEnd
<1>4. /\ pendingEnded \in Seq(EarlyEnd) /\ n \in Nat
      /\ handleStatus \in [LaunchCalls -> EndStatuses \union {"running"}]
      /\ dismissCb \in [LaunchCalls -> {"none", "waits", "due", "called", "removed"}]
  BY LenProperties DEF LaunchInv, LaunchTypeOK
<1> HIDE DEF new, c, status
<1>5. CASE launchCall[c] = "handle"
  <2>1. /\ handleStatus' = [handleStatus EXCEPT ![c] = status]
        /\ dismissCb' = [dismissCb EXCEPT ![c] = IF @ = "waits" THEN "called" ELSE @]
        /\ UNCHANGED <<pendingEnded, evicted>>
    BY <1>5 DEF LaunchEnded, c, status
  <2>2. /\ handleStatus' \in [LaunchCalls -> EndStatuses \union {"running"}]
        /\ handleStatus'[c] = status
        /\ dismissCb' \in [LaunchCalls -> {"none", "waits", "due", "called", "removed"}]
        /\ dismissCb'[c] # "waits"
        /\ \A d \in LaunchCalls \ {c} : handleStatus'[d] = handleStatus[d] /\ dismissCb'[d] = dismissCb[d]
    BY <1>3, <1>4, <2>1
  <2>3. LaunchTypeOK'
    BY <1>1, <1>2, <1>3, <2>1, <2>2 DEF LaunchInv, LaunchTypeOK
  <2>4. EndsAreTrue'
    BY <1>1, <1>2, <1>3, <2>1 DEF LaunchInv, EndsAreTrue
  <2>5. EndIsKept' /\ HandleFirst'
    BY <1>1, <1>5, <2>1, <2>2 DEF LaunchInv, EndIsKept, HandleFirst
  <2>6. LaunchEndsTold'
    BY <1>1, <1>2, <1>3, <2>1, <2>2 DEF LaunchInv, LaunchEndsTold
  <2> QED
    BY <2>3, <2>4, <2>5, <2>6 DEF LaunchInv
<1>6. CASE launchCall[c] # "handle" /\ CreatesInFlight = {}
  <2>1. UNCHANGED <<pendingEnded, evicted, handleStatus, dismissCb>>
    BY <1>6 DEF LaunchEnded, c
  <2>2. LaunchTypeOK'
    BY <1>1, <1>2, <1>3, <2>1 DEF LaunchInv, LaunchTypeOK
  <2>3. EndsAreTrue'
    BY <1>1, <1>2, <1>3, <2>1 DEF LaunchInv, EndsAreTrue
  <2>4. EndIsKept' /\ HandleFirst'
    BY <1>1, <1>6, <2>1 DEF LaunchInv, EndIsKept, HandleFirst, CreatesInFlight
  <2>5. LaunchEndsTold'
    BY <1>1, <1>6, <2>1 DEF LaunchInv, LaunchEndsTold
  <2> QED
    BY <2>2, <2>3, <2>4, <2>5 DEF LaunchInv
<1>7. CASE launchCall[c] # "handle" /\ CreatesInFlight # {}
  <2>1. /\ pendingEnded' = Append(kept, new)
        /\ evicted' = IF kept = pendingEnded THEN evicted ELSE evicted \union {Head(pendingEnded).launch}
        /\ UNCHANGED <<handleStatus, dismissCb>>
    BY <1>7 DEF LaunchEnded, c, status, new
  \* The oldest end goes if the buffer is full, and is then noted as given up.
  <2>2. /\ kept \in Seq(EarlyEnd)
        /\ \A i \in 1..Len(kept) : \E j \in 1..n : kept[i] = pendingEnded[j]
        /\ \A j \in 1..n : (\E i \in 1..Len(kept) : kept[i] = pendingEnded[j]) \/ pendingEnded[j].launch \in evicted'
    <3>1. CASE n >= MaxPendingEnded
      <4>1. pendingEnded # <<>> /\ n # 0
        BY <1>4, <3>1, LaunchAssumption
      <4>2. /\ kept \in Seq(EarlyEnd) /\ Len(kept) = n - 1
            /\ \A i \in 1..(n - 1) : kept[i] = pendingEnded[i + 1]
            /\ Head(pendingEnded) = pendingEnded[1]
        BY <1>4, <3>1, <4>1, HeadTailProperties
      <4>3. pendingEnded[1].launch \in evicted'
        <5>1. kept # pendingEnded
          BY <1>4, <4>2
        <5> QED
          BY <2>1, <4>2, <5>1
      <4>4. ASSUME NEW j \in 1..n, j # 1
            PROVE  \E i \in 1..Len(kept) : kept[i] = pendingEnded[j]
        <5>1. j - 1 \in 1..(n - 1) /\ (j - 1) + 1 = j
          BY <1>4, <4>4
        <5> QED
          BY <4>2, <5>1
      <4>5. ASSUME NEW i \in 1..Len(kept)
            PROVE  \E j \in 1..n : kept[i] = pendingEnded[j]
        BY <1>4, <4>2
      <4> HIDE DEF kept
      <4> QED
        BY <4>2, <4>3, <4>4, <4>5
    <3>2. CASE ~(n >= MaxPendingEnded)
      BY <1>4, <3>2
    <3> QED
      BY <3>1, <3>2
  <2> HIDE DEF kept
  <2>3. /\ pendingEnded' \in Seq(EarlyEnd) /\ Len(pendingEnded') = Len(kept) + 1 /\ Len(kept) \in Nat
        /\ \A i \in 1..Len(kept) : pendingEnded'[i] = kept[i]
        /\ pendingEnded'[Len(kept) + 1] = new
    BY <1>3, <2>1, <2>2, AppendProperties, LenProperties
  <2>4. evicted \subseteq evicted'
    BY <2>1
  <2>5. LaunchTypeOK'
    BY <1>1, <1>2, <1>3, <2>1, <2>3 DEF LaunchInv, LaunchTypeOK
  <2>6. EndsAreTrue'
    <3>1. ASSUME NEW i \in 1..Len(pendingEnded')
          PROVE  /\ hostLaunch[pendingEnded'[i].launch].state = pendingEnded'[i].status
                 /\ pendingEnded'[i].launch \in endsArrived'
      <4>1. CASE i \in 1..Len(kept)
        <5>1. PICK j \in 1..n : pendingEnded'[i] = pendingEnded[j]
          BY <2>2, <2>3, <4>1
        <5> QED
          BY <1>1, <5>1 DEF LaunchInv, EndsAreTrue
      <4>2. CASE i = Len(kept) + 1
        <5>1. pendingEnded'[i].launch = c /\ pendingEnded'[i].status = status
          BY <2>3, <4>2 DEF new
        <5> QED
          BY <1>1, <1>2, <5>1
      <4> QED
        BY <2>3, <4>1, <4>2
    <3> QED
      BY <1>1, <1>2, <1>3, <3>1 DEF LaunchInv, EndsAreTrue
  <2>7. EndIsKept'
    <3> SUFFICES ASSUME NEW d \in LaunchCalls, launchCall[d] = "creating", d \in endsArrived' \ evicted'
                 PROVE  \E i \in 1..Len(pendingEnded') : pendingEnded'[i].launch = d
      BY <1>1 DEF EndIsKept
    <3>1. CASE d = c
      BY <2>3, <3>1 DEF new
    <3>2. CASE d # c
      <4>1. d \in endsArrived \ evicted
        BY <1>1, <2>4, <3>2
      <4>2. PICK j \in 1..n : pendingEnded[j].launch = d
        BY <4>1 DEF LaunchInv, EndIsKept
      <4>3. PICK i \in 1..Len(kept) : kept[i] = pendingEnded[j]
        BY <2>2, <4>2
      <4> QED
        BY <2>3, <4>2, <4>3
    <3> QED
      BY <3>1, <3>2
  <2>8. HandleFirst' /\ LaunchEndsTold'
    BY <1>1, <1>7, <2>1, <2>4 DEF LaunchInv, HandleFirst, LaunchEndsTold
  <2> QED
    BY <2>5, <2>6, <2>7, <2>8 DEF LaunchInv
<1> QED
  BY <1>5, <1>6, <1>7

LEMMA LaunchStepInv == LaunchInv /\ [Next]_vars => LaunchInv'
<1> SUFFICES ASSUME LaunchInv, [Next]_vars PROVE LaunchInv'
  OBVIOUS
<1>1. CASE UNCHANGED launchVars /\ (part = "launch" => UNCHANGED toApp)
  <2>1. part' = part
    BY LaunchOrNot
  <2>2. LaunchTypeOK' /\ EndsAreTrue'
    BY <1>1, <2>1 DEF launchVars, LaunchInv, LaunchTypeOK, EndsAreTrue
  <2>3. EndIsKept' /\ HandleFirst' /\ LaunchEndsTold'
    BY <1>1 DEF launchVars, LaunchInv, EndIsKept, HandleFirst, LaunchEndsTold
  <2> QED
    BY <2>2, <2>3 DEF LaunchInv
<1> QED
  BY <1>1, LaunchOrNot, HostSteps, CallSteps, CallbackSteps, AnswerStep, EndedStep DEF LaunchNext

-----------------------------------------------------------------------------
(* What the app as a whole keeps. *)

\* Whoever is subscribed to the chat provider, its state, the task input or the ready report
\* was last told what is true now, for any number of hooks and subscribers and however
\* messages, paints, effects and subscriptions interleave: pushChannel.ts onChange and use,
\* tasks.ts useTaskInput, ready.ts onReady.
THEOREM ToldStaysCurrent == Spec => []ToldCurrent
<1> DEFINE Inv == ProviderInv /\ TaskInv /\ ReadyTold
<1>1. Init => Inv
  BY ProviderInitInv, TaskInitInv, ReadyInit DEF Init
<1>2. Inv /\ [Next]_vars => Inv'
  BY ProviderStepInv, TaskStepInv, ReadyStep
<1>3. Inv => ToldCurrent
  BY DEF ProviderInv, ProviderTold, TaskInv, HookHolds, ReadyTold, ToldCurrent
<1> QED
  BY <1>1, <1>2, <1>3, PTL DEF Spec

\* A delivery of the JSON the app already holds leaves it the object it holds, in whatever
\* order pushes, answers and re-invocations come: tasks.ts sameTaskInput.
THEOREM RepeatsKeepObject == Spec => RepeatKeepsObject
<1>1. Init => TaskInv
  BY TaskInitInv DEF Init
<1>2. TaskInv /\ [Next]_vars => TaskInv'
  BY TaskStepInv
<1>3. ASSUME TaskInv, [Next]_vars, latestInput' # latestInput
      PROVE  OtherInput
  <2>1. ~UNCHANGED taskVars
    BY <1>3 DEF taskVars
  <2> QED
    BY <1>3, <2>1, TaskOrNot, ReplacedByAnother
<1>4. TaskInv /\ [Next]_vars =>
        [latestInput' # latestInput => OtherInput]_latestInput
  BY <1>3
<1> QED
  BY <1>1, <1>2, <1>4, PTL DEF Spec, RepeatKeepsObject, OtherInput

\* Cleanups take out their own entry only, for any number of collectors and dialogs and in
\* any order: entryState.ts leaves the key to a newer owner, dialog.tsx keeps the stack in
\* the order of opening, so that Escape finds the one that opened last.
THEOREM CleanupsKeepOthers == Spec => CleanupKeepsOthers
<1> DEFINE Inv == OwnerAlive /\ StackIsOpen
<1>1. Init => Inv
  BY OwnerInit, StackInit DEF Init
<1>2. Inv /\ [Next]_vars => Inv'
  BY OwnerStep, StackStep
<1>3. Inv /\ [Next]_vars => [(owner \in alive') => (owner' # "none")]_entryVars
  BY EntryOrNot, RemoverKeepsOwner
<1>4. Inv /\ Inv' /\ [Next]_vars =>
        [/\ keys' # keys => dismissals' = Append(dismissals, TopDialog)
         /\ listening' <=> opened' # {}]_dialogVars
  BY DialogsOrNot, EscapeTop DEF StackIsOpen
<1> QED
  BY <1>1, <1>2, <1>3, <1>4, PTL DEF Spec, CleanupKeepsOthers, OwnerKept, EscapeDismissesTop

\* Reads that answer late leave nothing behind and take nothing away, for any number of
\* paths, reads and effects in any order of answers: sourceCache.ts forgets a failure only
\* if it is still the memo, hooks.ts gives back every URL that nobody shows.
THEOREM ReadsAlwaysSettle == Spec => []ReadsSettle
<1> DEFINE Inv == MemoIsRead /\ UrlIsEffects
<1>1. Init => Inv
  BY MemoInit, UrlInit DEF Init
<1>2. Inv /\ [Next]_vars => Inv'
  BY MemoStep, UrlStep
<1>3. Inv => ReadsSettle
  BY MemoReadOnce, UrlReleases DEF ReadsSettle
<1> QED
  BY <1>1, <1>2, <1>3, PTL DEF Spec

\* No handle of a launch stays `running` after its end reached the app, and no callback waits
\* on one that has ended, for any number of launches, whatever order answers and ends come in
\* and whichever calls are refused or give up: launch.ts pendingEnded and its sweep.
THEOREM LaunchEndsAreTold == Spec => []LaunchEndsTold
<1>1. Init => LaunchInv
  BY LaunchInitInv DEF Init
<1>2. LaunchInv => LaunchEndsTold
  BY DEF LaunchInv
<1> QED
  BY <1>1, <1>2, LaunchStepInv, PTL DEF Spec

\* However often the gate opens and shuts and wherever its words and the queries stand in the
\* queue: a query is handled by at most one responder, and nothing is logged after the host's
\* last word, once that was heard, was no (debug.ts startResponder, log).
THEOREM QueriesHaveOneReply == Spec => []OneReplyPerQuery
<1>1. Init => GateInv
  BY GateInit DEF Init
<1>2. GateInv => OneReplyPerQuery
  BY DEF GateInv
<1> QED
  BY <1>1, <1>2, GateStep, PTL DEF Spec

-----------------------------------------------------------------------------
(* Induction: a set of naturals that is not empty has a least element. *)

\* What holds of no least number holds of none.
LEMMA LeastNatural ==
  ASSUME NEW T, T \subseteq Nat, T # {}
  PROVE  \E n \in T : \A m \in T : n <= m
<1> DEFINE D == {0..n : n \in T}
<1>1. \A n \in T : 0..n \in FiniteSubsetsOf(Nat)
  <2> TAKE n \in T
  <2>1. IsFiniteSet(0..n)
    BY FS_Interval
  <2> QED
    BY <2>1 DEF FiniteSubsetsOf
<1>2. D \subseteq FiniteSubsetsOf(Nat) /\ D # {}
  BY <1>1
<1>3. IsWellFoundedOn(StrictSubsetOrdering(Nat), FiniteSubsetsOf(Nat))
  BY FS_StrictSubsetOrderingWellFounded
<1>4. \E x \in D : \A y \in D : <<y, x>> \notin StrictSubsetOrdering(Nat)
  BY <1>2, <1>3, WFMin
<1>5. PICK n \in T : \A m \in T : <<0..m, 0..n>> \notin StrictSubsetOrdering(Nat)
  BY <1>4
<1>6. ASSUME NEW m \in T, m < n PROVE FALSE
  <2>1. 0..m \subseteq 0..n /\ n \in 0..n /\ n \notin 0..m
    BY <1>6
  <2>2. 0..m \in SUBSET Nat /\ 0..n \in SUBSET Nat
    OBVIOUS
  <2>3. <<0..m, 0..n>> \in StrictSubsetOrdering(Nat)
    BY <2>1, <2>2 DEF StrictSubsetOrdering
  <2> QED
    BY <2>3, <1>5
<1> QED
  BY <1>6

-----------------------------------------------------------------------------
(* The routes: the redirect to the index of a bundle. *)

\* A step is one of the routes, or leaves what they hold alone.
LEMMA RoutesOrNot ==
  ASSUME [Next]_vars
  PROVE  /\ part' = part
         /\ \/ part = "routes" /\ RoutesNext
            \/ UNCHANGED routeVars
BY PartStep

\* The least of some places of a sequence.
LEMMA LeastPlace ==
  ASSUME NEW S, S \subseteq Nat, S # {}
  PROVE  Min(S) \in S /\ \A k \in S : Min(S) <= k
BY LeastNatural DEF Min

\* A template that is one name matches that name.
LEMMA OneName ==
  ASSUME NEW S, NEW path \in Seq(S), NEW e,
         RouteMatches(<< [kind |-> "literal", name |-> e] >>, path)
  PROVE  path = <<e>>
<1> DEFINE t == << [kind |-> "literal", name |-> e] >>
<1>1. Len(t) = 1 /\ DOMAIN t = {1} /\ t[1].kind = "literal" /\ t[1].name = e
  OBVIOUS
<1>2. t # AnyPath /\ t # Anything
  BY DEF AnyPath, Anything
<1>3. RouteMatches(t, path)
  OBVIOUS
<1> HIDE DEF t
<1>4. {j \in DOMAIN t : t[j].kind = "rest"} = {}
  BY <1>1
<1>5. Len(path) = 1 /\ Taken(t, path, 1) = <<e>>
  BY <1>1, <1>2, <1>3, <1>4 DEF RouteMatches
<1>6. Taken(t, path, 1) = <<path[1]>>
  BY <1>1, <1>4 DEF Taken
<1>7. path[1] = e
  BY <1>5, <1>6
<1> QED
  BY <1>5, <1>7

\* The path `/`.
RootPath == <<Blank>>

\* Two segments are not one.
LEMMA TwoIsNotOne == ASSUME NEW a, NEW b, NEW e PROVE <<a, b>> # <<e>>
<1>1. Len(<<a, b>>) = 2 /\ Len(<<e>>) = 1
  OBVIOUS
<1> QED
  BY <1>1

\* The rules of a table have places and templates.
LEMMA TablesListed ==
  ASSUME NEW tables \in RouteTables
  PROVE  /\ DOMAIN tables.main \subseteq Nat /\ DOMAIN tables.nested \subseteq Nat
         /\ \A i \in DOMAIN tables.main : IsTemplate(tables.main[i].pattern)
         /\ \A i \in DOMAIN tables.nested : IsTemplate(tables.nested[i].pattern)
<1>1. IsTable(tables.main) /\ IsTable(tables.nested)
  BY RoutesAssumption
<1>2. ASSUME NEW table, IsTable(table) PROVE DOMAIN table \subseteq Nat /\ \A i \in DOMAIN table : IsTemplate(table[i].pattern)
  BY <1>2 DEF IsTable
<1> QED
  BY <1>1, <1>2

\* The rule of MainContent wins at `/` only.
LEMMA MainAtRoot ==
  ASSUME NEW tables \in RouteTables, NEW S, NEW path \in Seq(S),
         ApplyRoutingRule(tables.main, path).result = "rule",
         tables.main[ApplyRoutingRule(tables.main, path).rule].element = "main"
  PROVE  path = RootPath
<1> DEFINE stops == {i \in DOMAIN tables.main : ~Compiles(tables.main[i].pattern) \/ RouteMatches(tables.main[i].pattern, path)}
           n == Min(stops)
<1>1. stops # {} /\ Compiles(tables.main[n].pattern) /\ ApplyRoutingRule(tables.main, path).rule = n
  BY DEF ApplyRoutingRule, NoRule
<1>2. n \in stops
  BY <1>1, LeastPlace, TablesListed
<1>3. tables.main[n].pattern = <<Literal(Blank)>>
  BY <1>1, <1>2, RoutesAssumption
<1>4. RouteMatches(<< [kind |-> "literal", name |-> Blank] >>, path)
  BY <1>1, <1>2, <1>3 DEF Literal
<1> QED
  BY <1>4, OneName DEF RootPath

\* The URLs of files that may be redirected to.
FileUrls == {FileUrl(c, r) : c \in CandidateSet, r \in RouteRefs}

\* A redirect was sent once there was where to, for the URL the app is at, and to no other file.
Redirecting ==
  /\ sent \in Seq(FileUrls) /\ navigations \in Seq(FileUrls) /\ routeArrivals \in Nat
  /\ FirstFound(probe) = {} => sent = <<>> /\ redirected = NoUrl
  /\ \A c \in FirstFound(probe) :
       /\ sent # <<>> /\ sent[Len(sent)] = redirected /\ redirected = FileUrl(c, routeUrl.ref)
       /\ \A k \in DOMAIN sent : sent[k].path = <<"files", c>>
  /\ \A k \in 2..Len(sent) : sent[k] # sent[k - 1]
  /\ Len(sent) <= routeArrivals

\* MainContent is there only at `/`, by the rule that wins there.
MainAtItsUrl ==
  MainIsThere =>
    /\ routed = ApplyRoutingRule(routes.main, RootPath) /\ routed.result = "rule"
    /\ routeUrl.ref \in RouteRefs /\ routeArrivals > 0

\* What holds of the routes in every state.
RoutesInv ==
  /\ routes \in RouteTables
  /\ probe \in [CandidateSet -> {"unmounted", "asked", "there", "absent"}]
  /\ Redirecting /\ MainAtItsUrl

\* What useFirstMatchingFile asks for are the candidates.
LEMMA CandidatesListed == Candidates \in Seq(CandidateSet) /\ \A k \in DOMAIN Candidates : Candidates[k] \in CandidateSet
<1>1. Candidates \in Seq(CandidateSet)
  BY RoutesAssumption
<1> QED
  BY <1>1

\* A file that is found is one of the candidates, and it is there.
LEMMA FoundIsOne ==
  ASSUME NEW given
  PROVE  /\ \A c, d \in FirstFound(given) : c = d
         /\ FirstFound(given) \subseteq CandidateSet
         /\ \A c \in FirstFound(given) : \A d \in CandidateSet : given[d] \notin {"unmounted", "asked"}
<1> DEFINE found == {k \in DOMAIN Candidates : given[Candidates[k]] = "there"}
<1>1. FirstFound(given) # {} => found # {} /\ FirstFound(given) = {Candidates[Min(found)]}
  BY DEF FirstFound
<1>2. found \subseteq DOMAIN Candidates /\ found \subseteq Nat
  BY CandidatesListed
<1>3. found # {} => Min(found) \in found
  BY <1>2, LeastPlace
<1>4. \A k \in DOMAIN Candidates : Candidates[k] \in CandidateSet
  BY CandidatesListed
<1>5. FirstFound(given) # {} => \A d \in CandidateSet : given[d] \notin {"unmounted", "asked"}
  BY DEF FirstFound
<1> HIDE DEF found
<1> QED
  BY <1>1, <1>2, <1>3, <1>4, <1>5

\* Without one of the candidates nothing is found.
LEMMA NobodyFound ==
  /\ FirstFound(Unmounted) = {}
  /\ FirstFound([c \in CandidateSet |-> "asked"]) = {}
<1>1. ASSUME NEW w \in {"unmounted", "asked"} PROVE FirstFound([c \in CandidateSet |-> w]) = {}
  <2>1. \A c \in FirstFound([d \in CandidateSet |-> w]) : FALSE
    BY FoundIsOne
  <2> QED
    BY <2>1
<1> QED
  BY <1>1 DEF Unmounted

\* A URL of a file tells the file and the ref.
LEMMA FileUrlIs ==
  ASSUME NEW c, NEW r
  PROVE  FileUrl(c, r).path = <<"files", c>> /\ FileUrl(c, r).ref = r /\ FileUrl(c, r) # NoUrl
<1>1. FileUrl(c, r).path = <<"files", c>> /\ FileUrl(c, r).ref = r
  BY DEF FileUrl
<1>2. NoUrl.path = <<>>
  BY DEF NoUrl
<1> QED
  BY <1>1, <1>2

\* What the effect does: it sends where it has not sent last, if there is anything to send.
LEMMA EffectSends ==
  ASSUME NEW given, NEW url, NEW before, Redirect(given, url, before)
  PROVE  /\ FirstFound(given) = {} => navigations' = before /\ UNCHANGED <<redirected, sent>>
         /\ \A c \in FirstFound(given) :
              LET target == FileUrl(c, url.ref)
              IN  \/ target # redirected /\ redirected' = target /\ navigations' = Append(before, target) /\ sent' = Append(sent, target)
                  \/ target = redirected /\ navigations' = before /\ UNCHANGED <<redirected, sent>>
<1>1. FirstFound(given) = {} => navigations' = before /\ UNCHANGED <<redirected, sent>>
  BY DEF Redirect
<1>2. ASSUME NEW c \in FirstFound(given)
      PROVE  /\ (CHOOSE d \in FirstFound(given) : TRUE) = c
             /\ (\E d \in FirstFound(given) : EffectRuns(FileUrl(d, url.ref))) <=> FileUrl(c, url.ref) # redirected
  BY FoundIsOne DEF EffectRuns
<1> QED
  BY <1>1, <1>2 DEF Redirect

\* The effect of MainContent keeps the invariant: it sends once.
LEMMA RedirectKeeps ==
  ASSUME Redirecting, NEW given, NEW url, url.ref \in RouteRefs, NEW before \in Seq(FileUrls),
         Redirect(given, url, before), probe' = given, routeUrl' = url, routeArrivals' \in Nat,
         FirstFound(probe) \in {{}, FirstFound(given)},
         \/ routeArrivals' = routeArrivals + 1
         \/ routeArrivals' = routeArrivals /\ routeArrivals > 0 /\ FirstFound(probe) = {}
         \/ routeArrivals' = routeArrivals /\ FirstFound(probe) = FirstFound(given) /\ url = routeUrl
  PROVE  Redirecting'
<1>0. FirstFound(probe)' = FirstFound(given)
  OBVIOUS
<1>1. CASE FirstFound(given) = {}
  <2>1. navigations' = before /\ UNCHANGED <<redirected, sent>>
    BY <1>1, EffectSends
  <2>2. sent = <<>> /\ redirected = NoUrl
    BY <1>1 DEF Redirecting
  <2> QED
    BY <1>0, <1>1, <2>1, <2>2 DEF Redirecting
<1>2. CASE FirstFound(given) # {}
  <2>1. PICK c \in FirstFound(given) : TRUE
    BY <1>2
  <2>2. FirstFound(given) = {c} /\ c \in CandidateSet
    BY FoundIsOne
  <2> DEFINE target == FileUrl(c, url.ref)
  <2>3. target \in FileUrls /\ target # NoUrl /\ target.path = <<"files", c>>
    BY <2>2, FileUrlIs DEF FileUrls
  <2>4. CASE target = redirected
    <3>1. navigations' = before /\ UNCHANGED <<redirected, sent>>
      BY <2>4, EffectSends
    <3>2. FirstFound(probe) = {c}
      BY <2>2, <2>3, <2>4 DEF Redirecting
    <3> QED
      BY <1>0, <2>2, <2>3, <2>4, <3>1, <3>2 DEF Redirecting
  <2>5. CASE target # redirected
    <3>1. redirected' = target /\ navigations' = Append(before, target) /\ sent' = Append(sent, target)
      BY <2>5, EffectSends
    <3>2. sent \in Seq(FileUrls)
      BY DEF Redirecting
    <3> HIDE DEF target
    <3>3. /\ sent' \in Seq(FileUrls) /\ navigations' \in Seq(FileUrls) /\ Len(sent') = Len(sent) + 1
          /\ sent'[Len(sent')] = target /\ \A k \in 1..Len(sent) : sent'[k] = sent[k]
      BY <2>3, <3>1, <3>2
    <3>4. sent # <<>> => sent[Len(sent)] = redirected /\ \A k \in DOMAIN sent : sent[k].path = <<"files", c>>
      BY <2>2 DEF Redirecting
    <3>5. Len(sent') <= routeArrivals'
      <4>1. FirstFound(probe) = {} => Len(sent) = 0
        BY DEF Redirecting
      <4>2. FirstFound(probe) = FirstFound(given) => redirected = FileUrl(c, routeUrl.ref)
        BY <2>2 DEF Redirecting
      <4>3. Len(sent) <= routeArrivals /\ routeArrivals \in Nat
        BY DEF Redirecting
      <4> QED
        BY <2>5, <3>2, <3>3, <4>1, <4>2, <4>3 DEF target
    <3>6. \A k \in 2..Len(sent') : sent'[k] # sent'[k - 1]
      <4>1. ASSUME NEW k \in 2..Len(sent') PROVE sent'[k] # sent'[k - 1]
        <5>1. CASE k = Len(sent')
          <6>1. sent # <<>> /\ sent'[k - 1] = sent[Len(sent)]
            BY <3>2, <3>3, <5>1
          <6> QED
            BY <2>5, <3>3, <3>4, <5>1, <6>1
        <5>2. CASE k # Len(sent')
          <6>1. k \in 2..Len(sent) /\ sent'[k] = sent[k] /\ sent'[k - 1] = sent[k - 1]
            BY <3>2, <3>3, <5>2
          <6> QED
            BY <6>1 DEF Redirecting
        <5> QED
          BY <5>1, <5>2
      <4> QED
        BY <4>1
    <3>7. \A k \in DOMAIN sent' : sent'[k].path = <<"files", c>>
      <4>1. ASSUME NEW k \in DOMAIN sent' PROVE sent'[k].path = <<"files", c>>
        <5>0. /\ DOMAIN sent' = 1..Len(sent') /\ DOMAIN sent = 1..Len(sent) /\ Len(sent) \in Nat
              /\ Len(sent') = Len(sent) + 1
          BY <3>2, <3>3
        <5>1. k = Len(sent') \/ (k \in DOMAIN sent /\ sent'[k] = sent[k])
          BY <3>3, <5>0
        <5>2. k \in DOMAIN sent => sent # <<>>
          BY <5>0
        <5> QED
          BY <2>3, <3>3, <3>4, <5>1, <5>2
      <4> QED
        BY <4>1
    <3>8. sent' # <<>>
      BY <3>2, <3>3
    <3>9. redirected' = FileUrl(c, routeUrl'.ref)
      BY <3>1 DEF target
    <3> QED
      BY <1>0, <2>2, <3>1, <3>3, <3>5, <3>6, <3>7, <3>8, <3>9 DEF Redirecting
  <2> QED
    BY <2>4, <2>5
<1> QED
  BY <1>1, <1>2

\* A render keeps the invariant, wherever the app is and whatever is there.
LEMMA RenderKeeps ==
  ASSUME RoutesInv, NEW url, url.ref \in RouteRefs, NEW before \in Seq(FileUrls),
         RenderRoute(url, before), routes' = routes,
         \/ url.path \in RoutePaths /\ routeArrivals' = routeArrivals + 1
         \/ url \in FileUrls /\ routeArrivals' = routeArrivals
  PROVE  RoutesInv'
<1> DEFINE answer == ApplyRoutingRule(routes.main, url.path)
           nested == ApplyRoutingRule(routes.nested, url.path)
           gone == answer.result # "rule" \/ (ElementAt(answer) = "page" /\ nested.result = "threw")
           stays == routed.result = "rule" /\ routed.result = answer.result /\ routed.rule = answer.rule
<1>1. /\ routes \in RouteTables /\ routeArrivals \in Nat /\ routeArrivals' \in Nat
      /\ probe \in [CandidateSet -> {"unmounted", "asked", "there", "absent"}]
  BY DEF RoutesInv, Redirecting
<1>2. routeUrl' = url /\ routed' = IF gone THEN [result |-> "gone"] ELSE answer
  BY DEF RenderRoute
<1>3. CASE gone \/ ElementAt(answer) # "main"
  <2>1. probe' = Unmounted /\ redirected' = NoUrl /\ sent' = <<>> /\ navigations' = before
    BY <1>3 DEF RenderRoute
  <2>2. FirstFound(probe)' = {}
    BY <2>1, NobodyFound
  <2>3. sent' \in Seq(FileUrls) /\ Len(sent') = 0
    BY <2>1
  <2>4. Redirecting'
    BY <1>1, <2>1, <2>2, <2>3 DEF Redirecting
  <2>5. ~MainIsThere'
    BY <2>1 DEF MainIsThere
  <2>6. probe' \in [CandidateSet -> {"unmounted", "asked", "there", "absent"}]
    BY <2>1 DEF Unmounted
  <2> QED
    BY <1>1, <2>4, <2>5, <2>6 DEF RoutesInv, MainAtItsUrl
<1>4. CASE ~gone /\ ElementAt(answer) = "main"
  <2>1. answer.result = "rule" /\ routes.main[answer.rule].element = "main"
    BY <1>4 DEF ElementAt
  <2>2. url \notin FileUrls
    <3>1. ASSUME url \in FileUrls PROVE FALSE
      <4>1. PICK c \in CandidateSet, r \in RouteRefs : url = FileUrl(c, r)
        BY <3>1 DEF FileUrls
      <4>2. url.path = <<"files", c>>
        BY <4>1, FileUrlIs
      <4>3. url.path \in Seq({"files", c})
        BY <4>2
      <4>4. url.path = RootPath
        BY <1>1, <2>1, <4>3, MainAtRoot
      <4> QED
        BY <4>2, <4>4, TwoIsNotOne DEF RootPath
    <3> QED
      BY <3>1
  <2>3. url.path = RootPath
    <3>1. url.path \in Seq(ToSet(url.path))
      BY <2>2, RoutesAssumption
    <3> QED
      BY <1>1, <2>1, <3>1, MainAtRoot
  <2>4. routeArrivals' = routeArrivals + 1 /\ routeArrivals' > 0
    BY <1>1, <2>2
  <2>5. MainIsThere => stays
    BY <2>1, <2>3 DEF RoutesInv, MainAtItsUrl
  <2>6. routed' = answer
    BY <1>2, <1>4
  <2>7. MainAtItsUrl'
    BY <1>2, <2>1, <2>3, <2>4, <2>6 DEF MainAtItsUrl
  <2>8. CASE stays
    <3>1. UNCHANGED probe /\ Redirect(probe, url, before)
      BY <1>4, <2>8 DEF RenderRoute
    <3>2. Redirecting'
      BY <1>1, <1>2, <2>4, <3>1, RedirectKeeps DEF RoutesInv
    <3> QED
      BY <1>1, <2>7, <3>1, <3>2 DEF RoutesInv
  <2>9. CASE ~stays
    <3>1. probe' = [c \in CandidateSet |-> "asked"] /\ navigations' = before /\ UNCHANGED <<redirected, sent>>
      BY <1>4, <2>9 DEF RenderRoute
    <3>2. FirstFound(probe) = {}
      BY <2>5, <2>9, NobodyFound DEF MainIsThere
    <3>3. FirstFound(probe)' = {}
      BY <3>1, NobodyFound
    <3>4. Redirecting'
      BY <1>1, <2>4, <3>1, <3>2, <3>3 DEF RoutesInv, Redirecting
    <3> QED
      BY <1>1, <2>7, <3>1, <3>4 DEF RoutesInv
  <2> QED
    BY <2>8, <2>9
<1> QED
  BY <1>3, <1>4

\* The app starts in it.
LEMMA RoutesInit1 == RoutesInit => RoutesInv
<1> SUFFICES ASSUME RoutesInit PROVE RoutesInv
  OBVIOUS
<1>1. probe \in [CandidateSet -> {"unmounted", "asked", "there", "absent"}]
  BY DEF RoutesInit, Unmounted
<1>2. FirstFound(probe) = {}
  BY NobodyFound DEF RoutesInit
<1>3. sent \in Seq(FileUrls) /\ navigations \in Seq(FileUrls) /\ Len(sent) = 0 /\ sent = <<>>
  BY DEF RoutesInit
<1> QED
  BY <1>1, <1>2, <1>3 DEF RoutesInit, RoutesInv, Redirecting, MainAtItsUrl, MainIsThere

\* Every step keeps it.
LEMMA RoutesStep == RoutesInv /\ [Next]_vars => RoutesInv'
<1> SUFFICES ASSUME RoutesInv, [Next]_vars PROVE RoutesInv'
  OBVIOUS
<1>1. CASE UNCHANGED routeVars
  BY <1>1 DEF routeVars, RoutesInv, Redirecting, MainAtItsUrl, MainIsThere, FirstFound, ElementAt
<1>2. /\ routes \in RouteTables /\ routeArrivals \in Nat
      /\ probe \in [CandidateSet -> {"unmounted", "asked", "there", "absent"}]
      /\ navigations \in Seq(FileUrls)
  BY DEF RoutesInv, Redirecting
<1>3. ASSUME NEW path \in RoutePaths, NEW ref \in RouteRefs, RouteArrives([path |-> path, ref |-> ref])
      PROVE  RoutesInv'
  BY <1>2, <1>3, RenderKeeps DEF RouteArrives
<1>4. CASE HostFollows
  <2>1. navigations # <<>> /\ Head(navigations) \in FileUrls /\ Tail(navigations) \in Seq(FileUrls)
    BY <1>2, <1>4, FirstAndRest DEF HostFollows
  <2>2. Head(navigations).ref \in RouteRefs
    BY <2>1, FileUrlIs DEF FileUrls
  <2>3. CASE Head(navigations) # routeUrl
    BY <1>2, <1>4, <2>1, <2>2, <2>3, RenderKeeps DEF HostFollows
  <2>4. CASE Head(navigations) = routeUrl
    BY <1>4, <2>1, <2>4 DEF HostFollows, RoutesInv, Redirecting, MainAtItsUrl, MainIsThere
  <2> QED
    BY <2>3, <2>4
<1>5. ASSUME NEW c \in CandidateSet, ProbeAnswers(c) PROVE RoutesInv'
  <2>1. FirstFound(probe) = {}
    BY <1>5, FoundIsOne DEF ProbeAnswers
  <2>2. MainIsThere
    BY <1>5 DEF ProbeAnswers, MainIsThere, Unmounted
  <2>3. probe' \in [CandidateSet -> {"unmounted", "asked", "there", "absent"}]
    BY <1>2, <1>5 DEF ProbeAnswers
  <2>4. Redirecting'
    BY <1>2, <1>5, <2>1, <2>2, RedirectKeeps DEF ProbeAnswers, RoutesInv, MainAtItsUrl
  <2> QED
    BY <1>5, <2>2, <2>3, <2>4 DEF ProbeAnswers, RoutesInv, MainAtItsUrl
<1>6. CASE CandidatesChange
  <2>1. Redirecting'
    BY <1>2, <1>6, RedirectKeeps DEF CandidatesChange, RoutesInv, MainAtItsUrl
  <2> QED
    BY <1>6, <2>1 DEF CandidatesChange, RoutesInv, MainAtItsUrl, MainIsThere
<1> QED
  BY <1>1, <1>3, <1>4, <1>5, <1>6, RoutesOrNot DEF RoutesNext

\* However the app navigates and whatever files come and go, the index of a bundle is
\* redirected to once for where the app is, and only from `/` (MainContent.tsx:64).
THEOREM RedirectsHappenOnce == Spec => []RedirectsOnce
<1>1. Init => RoutesInv
  BY RoutesInit1 DEF Init
<1>2. RoutesInv => RedirectsOnce
  <2> SUFFICES ASSUME RoutesInv PROVE RedirectsOnce
    OBVIOUS
  <2>1. ASSUME NEW k \in DOMAIN sent PROVE \E c \in FirstFound(probe) : sent[k].path = <<"files", c>>
    <3>1. sent # <<>>
      BY <2>1 DEF RoutesInv, Redirecting
    <3>2. PICK c \in FirstFound(probe) : TRUE
      BY <3>1 DEF RoutesInv, Redirecting
    <3> QED
      BY <2>1, <3>2 DEF RoutesInv, Redirecting
  <2> QED
    BY <2>1 DEF RoutesInv, Redirecting, RedirectsOnce
<1> QED
  BY <1>1, <1>2, RoutesStep, PTL DEF Spec

-----------------------------------------------------------------------------
(* The routes: templates and the paths they stand for. *)

\* The places of the rest in a template.
RestOf(t) == {j \in DOMAIN t : t[j].kind = "rest"}

\* Where the tokens end: one segment each, and what is left over goes to the rest.
EndsOf(t, path) ==
  [k \in 0..Len(t) |-> IF \E j \in RestOf(t) : j <= k THEN k + (Len(path) - Len(t)) ELSE k]

\* A list of tokens: names, parameters and wildcards.
Tokens(t) == t \in Seq(ToSet(t)) /\ \A k \in DOMAIN t : t[k].name # RestKey /\ (t[k].kind \in {"literal", "param"} \/ t[k] = Wildcard)

\* A template that compiles has one rest, and its keys are its own.
LEMMA KeysAreOwn ==
  ASSUME NEW t, Tokens(t), Compiles(t)
  PROVE  /\ \A j, k \in RestOf(t) : j = k
         /\ \A j, k \in Groups(t) : KeyOf(t[j]) = KeyOf(t[k]) => j = k
<1>1. \A j, k \in RestOf(t) : j \in Groups(t) /\ k \in Groups(t) /\ t[j].name = t[k].name
  <2>1. ASSUME NEW j \in RestOf(t) PROVE j \in Groups(t) /\ t[j] = Wildcard
    BY <2>1 DEF RestOf, Groups, Tokens
  <2> QED
    BY <2>1
<1>2. \A j, k \in Groups(t) : KeyOf(t[j]) = KeyOf(t[k]) => t[j].name = t[k].name
  <2>1. \A j \in Groups(t) : t[j].name # RestKey
    BY DEF Groups, Tokens
  <2> QED
    BY <2>1 DEF KeyOf
<1> QED
  BY <1>1, <1>2 DEF Compiles

\* Reading a path has one outcome.
LEMMA OneReading ==
  ASSUME NEW t, Tokens(t), Compiles(t), NEW S, NEW path \in Seq(S), NEW ends \in Readings(t, path)
  PROVE  ends = EndsOf(t, path)
<1> DEFINE surplus == Len(path) - Len(t)
<1>1. /\ Len(t) \in Nat /\ Len(path) \in Nat /\ DOMAIN t = 1..Len(t)
      /\ ends \in [0..Len(t) -> 0..Len(path)] /\ ends[0] = 0 /\ ends[Len(t)] = Len(path)
      /\ \A k \in DOMAIN t : Fits(t[k], path, ends[k - 1], ends[k])
      /\ RestOf(t) \subseteq DOMAIN t
  BY DEF Readings, Tokens, RestOf
<1>2. \A k \in DOMAIN t : k \notin RestOf(t) => ends[k] = ends[k - 1] + 1
  <2>1. ASSUME NEW k \in DOMAIN t, k \notin RestOf(t) PROVE ends[k] = ends[k - 1] + 1
    <3>1. t[k].kind \in {"literal", "param"}
      BY <2>1 DEF Tokens, RestOf, Wildcard
    <3>2. Fits(t[k], path, ends[k - 1], ends[k])
      BY <1>1
    <3> QED
      BY <3>1, <3>2 DEF Fits
  <2> QED
    BY <2>1
<1>3. \A k \in 0..Len(t) : (\A j \in RestOf(t) : k < j) => ends[k] = k
  <2> DEFINE odd == {k \in 0..Len(t) : (\A j \in RestOf(t) : k < j) /\ ends[k] # k}
  <2>1. ASSUME odd # {} PROVE FALSE
    <3>0. odd \subseteq Nat
      BY <1>1
    <3>1. PICK n \in odd : \A m \in odd : n <= m
      <4> HIDE DEF odd
      <4> QED
        BY <2>1, <3>0, LeastNatural
    <3>2. n # 0 /\ n \in DOMAIN t /\ n - 1 \in 0..Len(t)
      BY <1>1, <3>1
    <3>3. n \notin RestOf(t)
      BY <1>1, <3>1, <3>2
    <3>4. \A j \in RestOf(t) : n - 1 < j
      BY <1>1, <3>1, <3>2
    <3>5. ends[n - 1] = n - 1
      BY <1>1, <3>1, <3>2, <3>4
    <3> QED
      BY <1>1, <1>2, <3>1, <3>2, <3>3, <3>5
  <2> QED
    BY <2>1
<1>4. \A m \in 0..Len(t) : (\E j \in RestOf(t) : j <= Len(t) - m) => ends[Len(t) - m] = Len(t) - m + surplus
  <2> DEFINE odd == {m \in 0..Len(t) : (\E j \in RestOf(t) : j <= Len(t) - m) /\ ends[Len(t) - m] # Len(t) - m + surplus}
  <2>1. ASSUME odd # {} PROVE FALSE
    <3>0. odd \subseteq Nat
      BY <1>1
    <3>1. PICK n \in odd : \A m \in odd : n <= m
      <4> HIDE DEF odd
      <4> QED
        BY <2>1, <3>0, LeastNatural
    <3>2. n # 0
      BY <1>1, <3>1
    <3>3. PICK j \in RestOf(t) : j <= Len(t) - n
      BY <3>1
    <3> DEFINE k == Len(t) - (n - 1)
    <3>4. k \in DOMAIN t /\ j < k /\ n - 1 \in 0..Len(t) /\ j <= Len(t) - (n - 1) /\ k - 1 = Len(t) - n
      BY <1>1, <3>1, <3>2, <3>3
    <3>5. k \notin RestOf(t)
      BY <3>3, <3>4, KeysAreOwn
    <3>6. ends[k] = ends[k - 1] + 1
      BY <1>2, <3>4, <3>5
    <3>7. ends[k] = k + surplus
      <4>1. n - 1 \notin odd
        <5> HIDE DEF odd
        <5> QED
          BY <3>0, <3>1
      <4> QED
        BY <3>3, <3>4, <4>1
    <3>8. ends[k - 1] \in Nat /\ ends[k] \in Nat
      <4>1. k \in 0..Len(t) /\ k - 1 \in 0..Len(t)
        BY <1>1, <3>4
      <4> HIDE DEF k
      <4>2. \A m \in 0..Len(t) : ends[m] \in Nat
        BY <1>1
      <4> QED
        BY <4>1, <4>2
    <3>9. ends[Len(t) - n] # Len(t) - n + surplus
      BY <3>1
    <3>10. ends[k - 1] = k - 1 + surplus
      <4>1. k \in Nat /\ surplus \in Int
        BY <1>1, <3>4
      <4>2. ends[k] \in Nat /\ ends[k - 1] \in Nat /\ ends[k] = ends[k - 1] + 1 /\ ends[k] = k + surplus
        BY <3>6, <3>7, <3>8
      <4> DEFINE a == ends[k]
                 b == ends[k - 1]
      <4>3. a \in Nat /\ b \in Nat /\ a = b + 1 /\ a = k + surplus
        BY <4>2
      <4> HIDE DEF k, surplus, a, b
      <4>4. b = k - 1 + surplus
        BY <4>1, <4>3
      <4> QED
        BY <4>4 DEF b
    <3>11. ends[Len(t) - n] = Len(t) - n + surplus
      <4> HIDE DEF k, surplus
      <4> QED
        BY <3>4, <3>10
    <3> QED
      BY <3>9, <3>11
  <2> QED
    BY <2>1
<1>5. ASSUME NEW k \in 0..Len(t) PROVE ends[k] = EndsOf(t, path)[k]
  <2>1. CASE \E j \in RestOf(t) : j <= k
    <3>1. Len(t) - k \in 0..Len(t) /\ Len(t) - (Len(t) - k) = k
      BY <1>1
    <3>2. ends[k] = k + surplus
      BY <1>4, <2>1, <3>1
    <3> QED
      BY <2>1, <3>2 DEF EndsOf
  <2>2. CASE ~\E j \in RestOf(t) : j <= k
    <3>1. \A j \in RestOf(t) : k < j
      BY <1>1, <2>2
    <3> QED
      BY <1>3, <2>2, <3>1 DEF EndsOf
  <2> QED
    BY <2>1, <2>2
<1> QED
  BY <1>1, <1>5 DEF EndsOf

\* The path has a segment for every token, and none is left over.
FillsOut(t, path) == IF RestOf(t) = {} THEN Len(path) = Len(t) ELSE Len(path) >= Len(t)

\* What a token takes is what it reads.
LEMMA TakenIsRead ==
  ASSUME NEW t, Tokens(t), Compiles(t), NEW S, NEW path \in Seq(S), FillsOut(t, path)
  PROVE  LET ends == EndsOf(t, path)
         IN  /\ ends \in [0..Len(t) -> 0..Len(path)] /\ ends[0] = 0 /\ ends[Len(t)] = Len(path)
             /\ \A k \in DOMAIN t :
                  /\ Taken(t, path, k) = SubSeq(path, ends[k - 1] + 1, ends[k])
                  /\ k \in RestOf(t) => ends[k - 1] < ends[k]
                  /\ k \notin RestOf(t) => ends[k] = ends[k - 1] + 1 /\ Taken(t, path, k) = <<path[ends[k]]>>
<1> DEFINE ends == EndsOf(t, path)
           surplus == Len(path) - Len(t)
<1>1. /\ Len(t) \in Nat /\ Len(path) \in Nat /\ DOMAIN t = 1..Len(t) /\ RestOf(t) \subseteq DOMAIN t
      /\ surplus \in Nat /\ (RestOf(t) = {} => surplus = 0)
  BY DEF Tokens, RestOf, FillsOut
<1>2. \A k \in 0..Len(t) : ends[k] = IF \E j \in RestOf(t) : j <= k THEN k + surplus ELSE k
  BY DEF EndsOf
<1>3. DOMAIN ends = 0..Len(t)
  BY DEF EndsOf
<1>4. ends = [k \in 0..Len(t) |-> ends[k]]
  BY DEF EndsOf
<1>5. Len(path) = Len(t) + surplus
  BY <1>1
<1> HIDE DEF ends, surplus
<1>6. \A k \in 0..Len(t) : ends[k] \in 0..Len(path)
  BY <1>1, <1>2, <1>5
<1>7. ends \in [0..Len(t) -> 0..Len(path)] /\ ends[0] = 0 /\ ends[Len(t)] = Len(path)
  <2>1. ends[0] = 0
    BY <1>1, <1>2
  <2>2. ends[Len(t)] = Len(path)
    BY <1>1, <1>2, <1>5
  <2> QED
    BY <1>4, <1>6, <2>1, <2>2
<1>8. ASSUME NEW k \in DOMAIN t
      PROVE  /\ Taken(t, path, k) = SubSeq(path, ends[k - 1] + 1, ends[k])
             /\ k \in RestOf(t) => ends[k - 1] < ends[k]
             /\ k \notin RestOf(t) => ends[k] = ends[k - 1] + 1 /\ Taken(t, path, k) = <<path[ends[k]]>>
  <2>0. k \in 1..Len(t) /\ k \in 0..Len(t) /\ k - 1 \in 0..Len(t)
    BY <1>1
  <2>1. \A m \in 1..Len(path) : <<path[m]>> = SubSeq(path, m, m)
    OBVIOUS
  <2>2. CASE \E j \in RestOf(t) : j < k
    <3>1. Taken(t, path, k) = <<path[k + surplus]>>
      BY <2>2 DEF Taken, RestOf, surplus
    <3>2. ends[k] = k + surplus /\ ends[k - 1] = k - 1 + surplus
      <4>1. RestOf(t) \subseteq Nat /\ k \in Nat
        BY <1>1
      <4>2. (\E j \in RestOf(t) : j <= k) /\ (\E j \in RestOf(t) : j <= k - 1)
        BY <2>2, <4>1
      <4> QED
        BY <1>2, <2>0, <4>2
    <3>3. k \notin RestOf(t)
      BY <1>1, <2>0, <2>2, KeysAreOwn
    <3>4. k + surplus \in 1..Len(path) /\ ends[k - 1] + 1 = k + surplus /\ ends[k] = ends[k - 1] + 1
      BY <1>1, <1>5, <2>0, <3>2
    <3>5. Taken(t, path, k) = SubSeq(path, k + surplus, k + surplus)
      BY <2>1, <3>1, <3>4
    <3>6. Taken(t, path, k) = SubSeq(path, ends[k - 1] + 1, ends[k])
      BY <3>2, <3>4, <3>5
    <3>7. Taken(t, path, k) = <<path[ends[k]]>>
      BY <3>1, <3>2
    <3> QED
      BY <3>3, <3>4, <3>6, <3>7
  <2>3. CASE k \in RestOf(t)
    <3>1. ~\E j \in RestOf(t) : j < k
      BY <1>1, <2>0, <2>3, KeysAreOwn
    <3>2. Taken(t, path, k) = SubSeq(path, k, k + surplus)
      BY <2>3, <3>1 DEF Taken, RestOf, surplus
    <3>3. ends[k] = k + surplus
      BY <1>1, <1>2, <2>0, <2>3
    <3>4. ends[k - 1] = k - 1
      BY <1>1, <1>2, <2>0, <3>1
    <3>5. ends[k - 1] + 1 = k /\ ends[k - 1] < ends[k]
      BY <1>1, <2>0, <3>3, <3>4
    <3>6. Taken(t, path, k) = SubSeq(path, ends[k - 1] + 1, ends[k])
      BY <3>2, <3>3, <3>5
    <3> QED
      BY <2>3, <3>5, <3>6
  <2>4. CASE ~\E j \in RestOf(t) : j <= k
    <3>1. ~(\E j \in RestOf(t) : j < k) /\ k \notin RestOf(t)
      BY <1>1, <2>0, <2>4
    <3>2. Taken(t, path, k) = <<path[k]>>
      BY <3>1 DEF Taken, RestOf
    <3>3. ends[k] = k /\ ends[k - 1] = k - 1
      BY <1>1, <1>2, <2>0, <2>4
    <3> QED
      BY <1>1, <1>5, <2>0, <2>1, <3>1, <3>2, <3>3
  <2> QED
    BY <1>1, <2>0, <2>2, <2>3, <2>4
<1> QED
  BY <1>7, <1>8 DEF ends

\* A template that compiles matches a path exactly if it can be read in it, and the parameters
\* are what it reads.
LEMMA MatchIsReading ==
  ASSUME NEW t, Tokens(t), Compiles(t), t \notin {AnyPath, Anything}, NEW S, NEW path \in Seq(S)
  PROVE  /\ RouteMatches(t, path) <=> Stands(t, path)
         /\ RouteMatches(t, path) => Spells(t, ParamsOf(t, path), path)
<1> DEFINE ends == EndsOf(t, path)
<1>1. \A k \in DOMAIN t : t[k].kind \in {"literal", "param"} \/ (k \in RestOf(t) /\ t[k].kind = "rest")
  BY DEF Tokens, RestOf, Wildcard
<1>2. \A k \in RestOf(t) : k \in DOMAIN t /\ t[k].kind = "rest"
  BY DEF RestOf
<1>3. ASSUME RouteMatches(t, path)
      PROVE  ends \in Readings(t, path) /\ FillsOut(t, path)
  <2>1. FillsOut(t, path)
    BY <1>3 DEF RouteMatches, FillsOut, RestOf
  <2>2. ASSUME NEW k \in DOMAIN t PROVE Fits(t[k], path, ends[k - 1], ends[k])
    <3>1. /\ t[k].kind = "literal" => Taken(t, path, k) = <<t[k].name>>
          /\ t[k].kind = "param" => Taken(t, path, k) # <<Blank>>
      BY <1>3, <2>2 DEF RouteMatches
    <3>2. /\ k \in RestOf(t) => ends[k - 1] < ends[k]
          /\ k \notin RestOf(t) => ends[k] = ends[k - 1] + 1 /\ Taken(t, path, k) = <<path[ends[k]]>>
      BY <2>1, <2>2, TakenIsRead
    <3> HIDE DEF ends
    <3>3. CASE k \in RestOf(t)
      BY <1>2, <3>2, <3>3 DEF Fits
    <3>4. CASE k \notin RestOf(t) /\ t[k].kind = "literal"
      <4>1. path[ends[k]] = t[k].name
        <5>1. <<path[ends[k]]>> = <<t[k].name>>
          BY <3>1, <3>2, <3>4
        <5> QED
          BY <5>1
      <4> QED
        BY <3>2, <3>4, <4>1 DEF Fits
    <3>5. CASE k \notin RestOf(t) /\ t[k].kind = "param"
      BY <3>1, <3>2, <3>5 DEF Fits
    <3> QED
      BY <1>1, <3>3, <3>4, <3>5
  <2>3. ends \in [0..Len(t) -> 0..Len(path)] /\ ends[0] = 0 /\ ends[Len(t)] = Len(path)
    BY <2>1, TakenIsRead
  <2> HIDE DEF ends
  <2> QED
    BY <2>1, <2>2, <2>3 DEF Readings
<1>4. ASSUME Stands(t, path)
      PROVE  RouteMatches(t, path)
  <2>1. ends \in Readings(t, path)
    BY <1>4, OneReading DEF Stands
  <2>2. /\ ends \in [0..Len(t) -> 0..Len(path)] /\ ends[Len(t)] = Len(path)
        /\ \A k \in DOMAIN t : Fits(t[k], path, ends[k - 1], ends[k])
        /\ Len(t) \in Nat /\ Len(path) \in Nat /\ DOMAIN t = 1..Len(t)
    BY <2>1 DEF Readings, Tokens
  <2>3. FillsOut(t, path)
    <3>1. CASE RestOf(t) = {}
      <4>1. Len(t) \in 0..Len(t)
        BY <2>2
      <4>2. ends[Len(t)] = Len(t)
        BY <3>1, <4>1 DEF EndsOf
      <4> QED
        BY <2>2, <3>1, <4>2 DEF FillsOut
    <3>2. CASE RestOf(t) # {}
      <4>1. PICK r \in RestOf(t) : TRUE
        BY <3>2
      <4>2. r \in 1..Len(t) /\ t[r].kind = "rest" /\ r \in 0..Len(t) /\ r - 1 \in 0..Len(t)
        BY <1>2, <2>2
      <4>3. ends[r] = r + (Len(path) - Len(t))
        BY <2>2, <4>2 DEF EndsOf
      <4>4. \A j \in RestOf(t) : j = r
        BY <4>1, KeysAreOwn
      <4>5. ends[r - 1] = r - 1
        BY <2>2, <4>2, <4>4 DEF EndsOf
      <4>6. ends[r - 1] < ends[r]
        BY <2>2, <4>2 DEF Fits
      <4> QED
        BY <2>2, <3>2, <4>2, <4>3, <4>5, <4>6 DEF FillsOut
    <3> QED
      BY <3>1, <3>2
  <2>4. ASSUME NEW k \in DOMAIN t
        PROVE  /\ t[k].kind = "literal" => Taken(t, path, k) = <<t[k].name>>
               /\ t[k].kind = "param" => Taken(t, path, k) # <<Blank>>
    <3>1. k \notin RestOf(t) => ends[k] = ends[k - 1] + 1 /\ Taken(t, path, k) = <<path[ends[k]]>>
      BY <2>3, <2>4, TakenIsRead
    <3>2. Fits(t[k], path, ends[k - 1], ends[k])
      BY <2>2, <2>4
    <3>3. t[k].kind # "rest" => k \notin RestOf(t)
      BY <1>2
    <3> HIDE DEF ends
    <3>4. t[k].kind = "literal" => path[ends[k]] = t[k].name
      BY <3>2 DEF Fits
    <3>5. t[k].kind = "param" => path[ends[k]] # Blank
      BY <3>2 DEF Fits
    <3>6. ASSUME NEW e, <<e>> = <<Blank>> PROVE e = Blank
      BY <3>6
    <3> QED
      BY <3>1, <3>3, <3>4, <3>5, <3>6
  <2> HIDE DEF ends
  <2> QED
    BY <2>3, <2>4 DEF RouteMatches, FillsOut, RestOf
<1>5. ASSUME RouteMatches(t, path)
      PROVE  Spells(t, ParamsOf(t, path), path)
  <2>1. ends \in Readings(t, path) /\ FillsOut(t, path)
    BY <1>3, <1>5
  <2>2. ASSUME NEW k \in DOMAIN t, t[k].kind # "literal"
        PROVE  ParamsOf(t, path)[KeyOf(t[k])] = SubSeq(path, ends[k - 1] + 1, ends[k])
    <3>1. k \in Groups(t)
      BY <1>1, <2>2 DEF Groups
    <3>2. (CHOOSE j \in Groups(t) : KeyOf(t[j]) = KeyOf(t[k])) = k
      BY <3>1, KeysAreOwn
    <3>3. ParamsOf(t, path) = [key \in {KeyOf(t[j]) : j \in Groups(t)} |->
                                 Taken(t, path, CHOOSE j \in Groups(t) : KeyOf(t[j]) = key)]
      BY DEF ParamsOf
    <3>4. ParamsOf(t, path)[KeyOf(t[k])] = Taken(t, path, k)
      BY <3>1, <3>2, <3>3
    <3> QED
      BY <2>1, <2>2, <3>4, TakenIsRead
  <2> HIDE DEF ends
  <2> QED
    BY <2>1, <2>2 DEF Spells
<1> QED
  BY <1>3, <1>4, <1>5 DEF Stands

-----------------------------------------------------------------------------
(* The routes: the rule that is applied. *)

\* A regular expression stands for the paths it matches, and spells them.
LEMMA RegexpsStand ==
  ASSUME NEW t \in {AnyPath, Anything}, NEW S, NEW path \in Seq(S), path # <<>>
  PROVE  /\ Compiles(t) /\ RouteMatches(t, path) /\ Stands(t, path)
         /\ t # Anything => Spells(t, ParamsOf(t, path), path)
<1>1. Len(t) = 1 /\ DOMAIN t = {1} /\ t[1].kind = "regexp" /\ Len(path) \in Nat /\ Len(path) > 0
  <2>1. path \in Seq(S) /\ path # <<>> => Len(path) \in Nat /\ Len(path) > 0
    OBVIOUS
  <2>2. ASSUME NEW r PROVE Len(<<r>>) = 1 /\ DOMAIN <<r>> = {1} /\ <<r>>[1] = r
    OBVIOUS
  <2> QED
    BY <2>1, <2>2 DEF AnyPath, Anything
<1>2. Groups(t) = {}
  BY <1>1 DEF Groups
<1> DEFINE ends == [k \in 0..1 |-> IF k = 0 THEN 0 ELSE Len(path)]
<1>3. ends \in [0..1 -> 0..Len(path)] /\ ends[0] = 0 /\ ends[1] = Len(path)
  BY <1>1
<1> HIDE DEF ends
<1>4. ends \in Readings(t, path)
  BY <1>1, <1>3 DEF Readings, Fits
<1>5. ASSUME t # Anything PROVE Spells(t, ParamsOf(t, path), path)
  <2>1. t[1].name = "path" /\ t = AnyPath
    BY <1>5 DEF AnyPath
  <2>2. ParamsOf(t, path)["path"] = path
    BY <2>1 DEF ParamsOf
  <2>3. SubSeq(path, 1, Len(path)) = path
    OBVIOUS
  <2>4. KeyOf(t[1]) = "path"
    BY <2>1 DEF KeyOf
  <2>5. ASSUME NEW k \in DOMAIN t PROVE ParamsOf(t, path)[KeyOf(t[k])] = SubSeq(path, ends[k - 1] + 1, ends[k])
    BY <1>1, <1>3, <2>2, <2>3, <2>4
  <2> QED
    BY <1>4, <2>5 DEF Spells
<1> QED
  BY <1>2, <1>4, <1>5 DEF Compiles, RouteMatches, Stands

\* A template is a list of tokens or a regular expression.
LEMMA TokensOrRegexp ==
  ASSUME NEW t, IsTemplate(t), t \notin {AnyPath, Anything}
  PROVE  Tokens(t)
BY DEF IsTemplate, Tokens

\* The rule applied is the first that stands for the path, with the parameters that spell it.
LEMMA AppliedIsFirst ==
  ASSUME NEW table, IsTable(table), NEW S, NEW path \in Seq(S), path # <<>>
  PROVE  LET answer == ApplyRoutingRule(table, path)
         IN  /\ answer.result \in {"rule", "none", "threw"}
             /\ answer.result = "rule" => WinsFairly(table, answer, path)
             /\ answer.result = "none" => \A i \in DOMAIN table : ~Stands(table[i].pattern, path)
             /\ answer.result = "threw" => \E i \in DOMAIN table : ~Compiles(table[i].pattern)
<1> DEFINE stops == {i \in DOMAIN table : ~Compiles(table[i].pattern) \/ RouteMatches(table[i].pattern, path)}
           answer == ApplyRoutingRule(table, path)
           n == Min(stops)
<1>1. DOMAIN table = 1..Len(table) /\ Len(table) \in Nat /\ \A i \in DOMAIN table : IsTemplate(table[i].pattern)
  BY DEF IsTable
<1>2. ASSUME NEW i \in DOMAIN table, Compiles(table[i].pattern)
      PROVE  RouteMatches(table[i].pattern, path) <=> Stands(table[i].pattern, path)
  <2>1. IsTemplate(table[i].pattern)
    BY <1>1
  <2> DEFINE t == table[i].pattern
  <2> HIDE DEF t
  <2>2. CASE t \in {AnyPath, Anything}
    <3>1. RouteMatches(t, path) /\ Stands(t, path)
      BY <2>2, RegexpsStand
    <3> QED
      BY <3>1 DEF t
  <2>3. CASE t \notin {AnyPath, Anything}
    <3>1. Tokens(t) /\ Compiles(t)
      BY <1>2, <2>1, <2>3, TokensOrRegexp DEF t
    <3>2. RouteMatches(t, path) <=> Stands(t, path)
      BY <2>3, <3>1, MatchIsReading
    <3> QED
      BY <3>2 DEF t
  <2> QED
    BY <2>2, <2>3
<1>3. \A i \in DOMAIN table : i \notin stops => ~Stands(table[i].pattern, path)
  BY <1>2
<1>4. CASE stops = {}
  <2>1. answer.result = "none"
    BY <1>4 DEF ApplyRoutingRule, NoRule
  <2>2. \A i \in DOMAIN table : ~Stands(table[i].pattern, path)
    <3> HIDE DEF stops
    <3> QED
      BY <1>3, <1>4
  <2> QED
    BY <2>1, <2>2
<1>5. CASE stops # {}
  <2>0. stops \subseteq Nat /\ stops \subseteq DOMAIN table
    BY <1>1
  <2>1. n \in stops /\ n \in DOMAIN table /\ \A i \in stops : n <= i
    <3> HIDE DEF stops
    <3> QED
      BY <1>5, <2>0, LeastPlace
  <2>2. CASE ~Compiles(table[n].pattern)
    <3>1. answer.result = "threw"
      BY <1>5, <2>2 DEF ApplyRoutingRule
    <3> QED
      BY <2>1, <2>2, <3>1
  <2>3. CASE Compiles(table[n].pattern)
    <3> DEFINE t == table[n].pattern
    <3>1. answer.result = "rule" /\ answer.rule = n /\ answer.params = ParamsOf(t, path)
      BY <1>5, <2>3 DEF ApplyRoutingRule
    <3>2. RouteMatches(t, path)
      BY <2>1, <2>3
    <3>3. \A i \in 1..n - 1 : ~Stands(table[i].pattern, path)
      <4>1. ASSUME NEW i \in 1..n - 1 PROVE i \in DOMAIN table /\ i \notin stops
        <5> HIDE DEF stops
        <5> QED
          BY <1>1, <2>1, <4>1
      <4> QED
        BY <1>3, <4>1
    <3>4. IsTemplate(t) /\ Compiles(t)
      BY <1>1, <2>1, <2>3
    <3> HIDE DEF t
    <3>5. IF t = Anything THEN Stands(t, path) ELSE Spells(t, ParamsOf(t, path), path)
      <4>1. CASE t \in {AnyPath, Anything}
        BY <4>1, RegexpsStand
      <4>2. CASE t \notin {AnyPath, Anything}
        BY <3>2, <3>4, <4>2, TokensOrRegexp, MatchIsReading
      <4> QED
        BY <4>1, <4>2
    <3> HIDE DEF answer, n, stops
    <3>6. WinsFairly(table, answer, path)
      BY <3>1, <3>3, <3>5 DEF WinsFairly, t
    <3> QED
      BY <3>1, <3>6 DEF answer
  <2> QED
    BY <2>2, <2>3
<1> QED
  BY <1>4, <1>5

\* A rule that shows no page, or a page whose own table cannot be matched.
Unmatchable(answer, nested) == answer.result # "rule" \/ (ElementAt(answer) = "page" /\ nested.result = "threw")

\* What the two tables make of a path.
Rendered(path) ==
  LET answer == ApplyRoutingRule(routes.main, path)
      nested == ApplyRoutingRule(routes.nested, path)
  IN  /\ routed = IF Unmatchable(answer, nested) THEN [result |-> "gone"] ELSE answer
      /\ scoped = IF Unmatchable(answer, nested) \/ ElementAt(answer) # "page" THEN NoRule ELSE nested

\* What is shown is what the tables say of the path the app is at.
ShownIsOfUrl ==
  \/ routed = NoRule /\ scoped = NoRule
  \/ routeUrl.path \in Seq(ToSet(routeUrl.path)) /\ routeUrl.path # <<>> /\ Rendered(routeUrl.path)

\* A render shows what the tables make of the path it is given.
LEMMA RenderShows ==
  ASSUME NEW url, url.path \in Seq(ToSet(url.path)), url.path # <<>>, NEW before,
         RenderRoute(url, before), routes' = routes
  PROVE  ShownIsOfUrl'
<1>1. routeUrl' = url
  BY DEF RenderRoute
<1>2. Rendered(url.path)'
  BY DEF RenderRoute, Rendered, Unmatchable, ElementAt
<1>3. Rendered(routeUrl.path)'
  BY <1>1, <1>2
<1> QED
  BY <1>1, <1>3 DEF ShownIsOfUrl

\* The path of a file that is redirected to is one a table may be asked about.
LEMMA FilePaths ==
  ASSUME NEW url \in FileUrls
  PROVE  url.path \in Seq(ToSet(url.path)) /\ url.path # <<>>
<1>1. PICK c \in CandidateSet, r \in RouteRefs : url = FileUrl(c, r)
  BY DEF FileUrls
<1>2. url.path = <<"files", c>>
  BY <1>1, FileUrlIs
<1>3. Len(url.path) = 2 /\ DOMAIN url.path = {1, 2} /\ url.path[1] = "files" /\ url.path[2] = c /\ url.path = <<"files", c>>
  BY <1>2
<1>4. ToSet(url.path) = {"files", c}
  BY <1>3 DEF ToSet
<1> QED
  BY <1>3, <1>4

\* Every step keeps it: what is shown and where the app is change together.
LEMMA ShownStep == RoutesInv /\ ShownIsOfUrl /\ [Next]_vars => ShownIsOfUrl'
<1> SUFFICES ASSUME RoutesInv, ShownIsOfUrl, [Next]_vars PROVE ShownIsOfUrl'
  OBVIOUS
<1>0. ASSUME UNCHANGED <<routes, routeUrl, routed, scoped>> PROVE ShownIsOfUrl'
  BY <1>0 DEF ShownIsOfUrl, Rendered, Unmatchable, ElementAt
<1>1. CASE UNCHANGED routeVars
  BY <1>0, <1>1 DEF routeVars
<1>2. ASSUME NEW path \in RoutePaths, NEW ref \in RouteRefs, RouteArrives([path |-> path, ref |-> ref])
      PROVE  ShownIsOfUrl'
  <2>1. path \in Seq(ToSet(path)) /\ path # <<>>
    BY RoutesAssumption
  <2> QED
    BY <1>2, <2>1, RenderShows DEF RouteArrives
<1>3. CASE HostFollows
  <2>1. navigations # <<>> /\ Head(navigations) \in FileUrls
    BY <1>3, FirstAndRest DEF HostFollows, RoutesInv, Redirecting
  <2>2. CASE Head(navigations) # routeUrl
    BY <1>3, <2>1, <2>2, FilePaths, RenderShows DEF HostFollows
  <2>3. CASE Head(navigations) = routeUrl
    BY <1>0, <1>3, <2>3 DEF HostFollows
  <2> QED
    BY <2>2, <2>3
<1>4. ASSUME NEW c \in CandidateSet, ProbeAnswers(c) PROVE ShownIsOfUrl'
  BY <1>0, <1>4 DEF ProbeAnswers
<1>5. CASE CandidatesChange
  BY <1>0, <1>5 DEF CandidatesChange
<1> QED
  BY <1>1, <1>2, <1>3, <1>4, <1>5, RoutesOrNot DEF RoutesNext

\* So what is shown is the first rule that stands for the path.
LEMMA ShownIsFirst == RoutesInv /\ ShownIsOfUrl => RouteIsFirst
<1> SUFFICES ASSUME RoutesInv, ShownIsOfUrl PROVE RouteIsFirst
  OBVIOUS
<1>1. CASE routed = NoRule /\ scoped = NoRule
  <2>1. routed.result = "none" /\ scoped.result = "none"
    BY <1>1 DEF NoRule
  <2>2. ElementAt(routed) # "page"
    BY <2>1 DEF ElementAt
  <2> QED
    BY <2>1, <2>2 DEF RouteIsFirst
<1>2. CASE routeUrl.path \in Seq(ToSet(routeUrl.path)) /\ routeUrl.path # <<>> /\ Rendered(routeUrl.path)
  <2> DEFINE path == routeUrl.path
             answer == ApplyRoutingRule(routes.main, path)
             nested == ApplyRoutingRule(routes.nested, path)
             bad == Unmatchable(answer, nested)
  <2>1. IsTable(routes.main) /\ IsTable(routes.nested)
    BY RoutesAssumption DEF RoutesInv
  <2>2. /\ routed = IF bad THEN [result |-> "gone"] ELSE answer
        /\ scoped = IF bad \/ ElementAt(answer) # "page" THEN NoRule ELSE nested
    BY <1>2 DEF Rendered
  <2>3. /\ answer.result \in {"rule", "none", "threw"}
        /\ answer.result = "rule" => WinsFairly(routes.main, answer, path)
        /\ answer.result = "none" => \A i \in DOMAIN routes.main : ~Stands(routes.main[i].pattern, path)
        /\ answer.result = "threw" => \E i \in DOMAIN routes.main : ~Compiles(routes.main[i].pattern)
    BY <1>2, <2>1, AppliedIsFirst
  <2>4. /\ nested.result \in {"rule", "none", "threw"}
        /\ nested.result = "rule" => WinsFairly(routes.nested, nested, path)
        /\ nested.result = "none" => \A i \in DOMAIN routes.nested : ~Stands(routes.nested[i].pattern, path)
        /\ nested.result = "threw" => \E i \in DOMAIN routes.nested : ~Compiles(routes.nested[i].pattern)
    BY <1>2, <2>1, AppliedIsFirst
  <2>5. bad <=> answer.result # "rule" \/ (ElementAt(answer) = "page" /\ nested.result = "threw")
    BY DEF Unmatchable
  <2>6. NoRule.result = "none"
    BY DEF NoRule
  <2> HIDE DEF answer, nested, bad
  <2>7. CASE bad
    <3>1. routed.result = "gone" /\ scoped.result = "none"
      BY <2>2, <2>6, <2>7
    <3>2. ElementAt(routed) # "page"
      BY <3>1 DEF ElementAt
    <3> QED
      BY <2>3, <2>4, <2>5, <2>7, <3>1, <3>2 DEF RouteIsFirst
  <2>8. CASE ~bad
    <3>1. routed = answer /\ answer.result = "rule"
      BY <2>2, <2>5, <2>8
    <3> QED
      BY <2>2, <2>3, <2>4, <2>5, <2>6, <2>8, <3>1 DEF RouteIsFirst
  <2> QED
    BY <2>7, <2>8
<1> QED
  BY <1>1, <1>2 DEF ShownIsOfUrl

\* The rule that is applied is the first of its table that stands for the path, with the
\* parameters that spell it, in the table of the app and in the one nested in it (routing.tsx:41).
THEOREM RoutesAreFirst == Spec => []RouteIsFirst
<1>1. Init => RoutesInv /\ ShownIsOfUrl
  BY RoutesInit1 DEF Init, RoutesInit, ShownIsOfUrl
<1> QED
  BY <1>1, RoutesStep, ShownStep, ShownIsFirst, PTL DEF Spec

-----------------------------------------------------------------------------
(* Metadata. *)

\* A step is one of the hook, one of the tool, or leaves the metadata alone.
LEMMA MetadataOrNot ==
  ASSUME [Next]_vars
  PROVE  \/ MetadataNext
         \/ UNCHANGED metadataVars
BY PartStep

\* What a MetadataSource may provide.
Sources == [mode : {"none", "merge", "replace"}, value : Collections]
\* The entries a query may select.
EntrySet == [path : Stored, meta : Frontmatters, extra : {1, 2}]

\* What the parts of the store hold.
MetadataTypes ==
  /\ files \in Collections /\ collection \in Collections
  /\ emitted \in Seq(Collections)
  /\ DOMAIN layers = {1, 2} /\ layers[1] \in Sources /\ layers[2] \in Sources
  /\ previous.entries \subseteq EntrySet

\* What the component shows is its query of what it sees.
EntriesAreSelected ==
  booted =>
    LET seen == StoreOf(files, layers)
    IN  /\ failed <=> Throws(query, seen)
        /\ ~failed => previous.entries = Selected(query, seen)

\* The updates on their way that name a path.
NamedIn(d) == {k \in DOMAIN emitted : emitted[k][d] # NoDocument}

\* What is on its way ends in the collection, and before the first frame the collection has it all.
UpdatesLead ==
  injected =>
    /\ ~booted => ~subscribed
    /\ ~subscribed => Len(emitted) <= 1
    /\ \A d \in Stored : booted /\ NamedIn(d) = {} => files[d] = collection[d]
    /\ \A d \in Stored : \A k \in NamedIn(d) : (\A j \in NamedIn(d) : j <= k) => emitted[k][d] = collection[d]

\* What holds of the store, the hook and the emitter in every state.
MetadataInv == MetadataTypes /\ EntriesAreSelected /\ UpdatesLead

\* What a source makes of a collection is a collection.
LEMMA ProvidedIsTyped ==
  ASSUME NEW s \in Sources, NEW base \in Collections
  PROVE  /\ Provided(s, base) \in Collections
         /\ \A d \in Stored : Provided(s, base)[d] =
              IF s.mode = "replace" \/ (s.mode = "merge" /\ s.value[d] # NoDocument) THEN s.value[d] ELSE base[d]
<1>1. s.mode \in {"none", "merge", "replace"} /\ s.value \in Collections
  BY DEF Sources
<1> HIDE DEF Collections
<1>2. CASE s.mode = "none"
  BY <1>2 DEF Provided
<1>3. CASE s.mode = "replace"
  BY <1>3, <1>1 DEF Provided
<1>4. CASE s.mode = "merge"
  <2>1. Provided(s, base) = LaidOver(base, s.value)
    BY <1>4 DEF Provided
  <2>2. LaidOver(base, s.value) \in Collections
    BY <1>1 DEF LaidOver, Collections
  <2> QED
    BY <1>4, <2>1, <2>2 DEF LaidOver
<1> QED
  BY <1>1, <1>2, <1>3, <1>4

\* What a component sees is a collection.
LEMMA StoreIsTyped ==
  ASSUME NEW base \in Collections, NEW given, given[1] \in Sources, given[2] \in Sources
  PROVE  StoreOf(base, given) \in Collections
BY ProvidedIsTyped DEF StoreOf

\* What a component sees of a path is what is in scope there.
LEMMA StoreIsScope ==
  ASSUME MetadataTypes
  PROVE  /\ StoreOf(files, layers) \in Collections
         /\ \A d \in Stored : StoreOf(files, layers)[d] = InScope(d)
<1> DEFINE outer == Provided(layers[1], files)
           seen == Provided(layers[2], outer)
<1>1. StoreOf(files, layers) = seen
  BY DEF StoreOf
<1>2. outer \in Collections /\ seen \in Collections
  BY ProvidedIsTyped DEF MetadataTypes
<1>3. /\ layers[1].mode \in {"none", "merge", "replace"} /\ layers[2].mode \in {"none", "merge", "replace"}
  BY DEF MetadataTypes, Sources
<1>4. ASSUME NEW d \in Stored PROVE seen[d] = InScope(d)
  <2>1. outer[d] = IF layers[1].mode = "replace" \/ (layers[1].mode = "merge" /\ layers[1].value[d] # NoDocument) THEN layers[1].value[d] ELSE files[d]
    BY ProvidedIsTyped DEF MetadataTypes
  <2>2. seen[d] = IF layers[2].mode = "replace" \/ (layers[2].mode = "merge" /\ layers[2].value[d] # NoDocument) THEN layers[2].value[d] ELSE outer[d]
    BY <1>2, ProvidedIsTyped DEF MetadataTypes
  <2> HIDE DEF seen, outer
  <2> QED
    BY <1>3, <2>1, <2>2 DEF InScope
<1> QED
  BY <1>1, <1>2, <1>4

\* What a query selects are entries.
LEMMA SelectedIsTyped ==
  ASSUME NEW wish, NEW store \in Collections
  PROVE  Selected(wish, store) \subseteq EntrySet
<1>1. ASSUME NEW d \in Stored, store[d] # NoDocument PROVE store[d] \in Frontmatters /\ store[d].field \in {1, 2}
  <2>1. store[d] \in Frontmatters
    BY <1>1 DEF Collections
  <2> QED
    BY <2>1 DEF Frontmatters
<1> QED
  BY <1>1 DEF Selected, EntrySet

\* Entries that compare equal are the same.
LEMMA EqualIsSame ==
  ASSUME NEW a, NEW b, a \subseteq EntrySet, b \subseteq EntrySet, EntriesEqual(a, b)
  PROVE  a = b
<1>1. ASSUME NEW x, NEW y, x \subseteq EntrySet, y \subseteq EntrySet, {e.path : e \in x} = {e.path : e \in y},
             \A e \in x, f \in y : e.path = f.path => e.meta = f.meta /\ e.extra = f.extra, NEW e \in x
      PROVE  e \in y
  <2>1. e.path \in {f.path : f \in y}
    BY <1>1
  <2>2. PICK f \in y : f.path = e.path
    BY <2>1
  <2>3. e.meta = f.meta /\ e.extra = f.extra
    BY <1>1, <2>2
  <2>4. e \in EntrySet /\ f \in EntrySet
    BY <1>1
  <2>5. e = f
    BY <2>2, <2>3, <2>4 DEF EntrySet
  <2> QED
    BY <2>5
<1>2. a \subseteq b
  BY <1>1 DEF EntriesEqual
<1>3. b \subseteq a
  <2>1. {e.path : e \in b} = {e.path : e \in a}
    BY DEF EntriesEqual
  <2>2. \A e \in b, f \in a : e.path = f.path => e.meta = f.meta /\ e.extra = f.extra
    BY DEF EntriesEqual
  <2> QED
    BY <1>1, <2>1, <2>2
<1> QED
  BY <1>2, <1>3

\* A render leaves the hook with what its query selects, or with its failure.
LEMMA RenderSelects ==
  ASSUME NEW store \in Collections, NEW given, given[1] \in Sources, given[2] \in Sources,
         previous.entries \subseteq EntrySet, Render(store, given)
  PROVE  /\ previous'.entries \subseteq EntrySet
         /\ failed' <=> Throws(query, StoreOf(store, given))
         /\ ~failed' => previous'.entries = Selected(query, StoreOf(store, given))
<1> DEFINE seen == StoreOf(store, given)
           entries == Selected(query, seen)
<1>1. entries \subseteq EntrySet
  BY StoreIsTyped, SelectedIsTyped
<1>2. CASE Throws(query, seen)
  BY <1>2 DEF Render
<1>3. CASE ~Throws(query, seen)
  <2>1. failed' = FALSE /\ previous' = IF EntriesEqual(entries, previous.entries) THEN previous ELSE [entries |-> entries, array |-> previous.array + 1]
    BY <1>3 DEF Render
  <2>2. EntriesEqual(entries, previous.entries) => entries = previous.entries
    BY <1>1, EqualIsSame
  <2>3. previous'.entries = entries
    BY <2>1, <2>2
  <2> QED
    BY <1>1, <1>3, <2>1, <2>3
<1> QED
  BY <1>2, <1>3

\* One document is a collection, and what a source may provide is one.
LEMMA OneIsCollection ==
  /\ Empty \in Collections /\ Single \subseteq Collections /\ Own \subseteq Single
  /\ \A u \in Collections, v \in Collections : LaidOver(u, v) \in Collections
<1>1. Empty \in Collections
  BY DEF Empty, Collections
<1>2. Single \subseteq Collections
  BY <1>1 DEF Single, Collections
<1> QED
  BY <1>1, <1>2 DEF Own, LaidOver, Collections

\* The app starts with an empty store and nothing on its way.
LEMMA MetadataInitially == Init => MetadataInv
<1> SUFFICES ASSUME Init PROVE MetadataInv
  OBVIOUS
<1>1. Empty \in Collections /\ NoSource \in Sources
  BY OneIsCollection DEF NoSource, Sources
<1>2. MetadataTypes
  <2>1. layers = <<NoSource, NoSource>> /\ emitted = <<>> /\ previous.entries = {} /\ files = Empty /\ collection = Empty
    BY DEF Init, MetadataInit
  <2>2. DOMAIN layers = {1, 2} /\ layers[1] = NoSource /\ layers[2] = NoSource
    BY <2>1
  <2> QED
    BY <1>1, <2>1, <2>2 DEF MetadataTypes
<1>3. ~booted /\ ~subscribed /\ emitted = <<>>
  BY DEF Init, MetadataInit
<1>4. Len(emitted) = 0 /\ \A d \in Stored : NamedIn(d) = {}
  BY <1>3 DEF NamedIn
<1> QED
  BY <1>2, <1>3, <1>4 DEF MetadataInv, EntriesAreSelected, UpdatesLead

\* An update of the bundler keeps the invariant: it is the last of what is on its way.
LEMMA UpdateKeeps ==
  ASSUME MetadataInv, NEW update \in Single, BundlerUpdates(update)
  PROVE  MetadataInv'
<1>1. update \in Collections /\ collection \in Collections /\ emitted \in Seq(Collections)
  BY OneIsCollection DEF MetadataInv, MetadataTypes
<1>2. collection' = LaidOver(collection, update) /\ UNCHANGED <<injected, booted, subscribed, files, layers, query, failed, previous>>
  BY DEF BundlerUpdates
<1>3. \A d \in Stored : collection'[d] = IF update[d] # NoDocument THEN update[d] ELSE collection[d]
  BY <1>2 DEF LaidOver
<1>4. collection' \in Collections
  BY <1>1, <1>2, OneIsCollection
<1>5. EntriesAreSelected'
  BY <1>2 DEF MetadataInv, EntriesAreSelected
<1>6. ASSUME emitted' \in Seq(Collections), injected => UpdatesLead' PROVE MetadataInv'
  BY <1>2, <1>4, <1>5, <1>6 DEF MetadataInv, MetadataTypes, UpdatesLead
<1>7. CASE subscribed
  <2>1. emitted' = Append(emitted, update)
    BY <1>7 DEF BundlerUpdates
  <2>2. emitted' \in Seq(Collections) /\ Len(emitted') = Len(emitted) + 1 /\ emitted'[Len(emitted) + 1] = update
        /\ Len(emitted) \in Nat /\ \A k \in 1..Len(emitted) : emitted'[k] = emitted[k]
    BY <1>1, <2>1
  <2>3. ASSUME injected, NEW d \in Stored
        PROVE  /\ booted /\ NamedIn(d)' = {} => files[d] = collection'[d]
               /\ \A k \in NamedIn(d)' : (\A j \in NamedIn(d)' : j <= k) => emitted'[k][d] = collection'[d]
    <3>1. DOMAIN emitted' = 1..Len(emitted) + 1 /\ DOMAIN emitted = 1..Len(emitted)
      BY <1>1, <2>2
    <3>2. CASE update[d] # NoDocument
      <4>1. Len(emitted) + 1 \in NamedIn(d)'
        BY <2>2, <3>1, <3>2 DEF NamedIn
      <4>2. \A k \in NamedIn(d)' : k \in 1..Len(emitted) + 1
        BY <3>1 DEF NamedIn
      <4>3. \A k \in NamedIn(d)' : (\A j \in NamedIn(d)' : j <= k) => k = Len(emitted) + 1
        BY <2>2, <4>1, <4>2
      <4> QED
        BY <1>3, <2>2, <3>2, <4>1, <4>3
    <3>3. CASE update[d] = NoDocument
      <4>1. \A k : k \in NamedIn(d)' <=> k \in NamedIn(d)
        BY <2>2, <3>1, <3>3 DEF NamedIn
      <4>2. NamedIn(d)' = NamedIn(d) /\ NamedIn(d) \subseteq 1..Len(emitted)
        BY <3>1, <4>1 DEF NamedIn
      <4>3. collection'[d] = collection[d]
        BY <1>3, <3>3
      <4>4. /\ booted /\ NamedIn(d) = {} => files[d] = collection[d]
            /\ \A k \in NamedIn(d) : (\A j \in NamedIn(d) : j <= k) => emitted[k][d] = collection[d]
        BY <2>3 DEF MetadataInv, UpdatesLead
      <4> QED
        BY <2>2, <4>2, <4>3, <4>4
    <3> QED
      BY <3>2, <3>3
  <2>4. injected => UpdatesLead'
    BY <1>2, <1>7, <2>3 DEF MetadataInv, UpdatesLead
  <2> QED
    BY <1>6, <2>2, <2>4
<1>8. CASE ~subscribed /\ ~injected
  BY <1>1, <1>6, <1>8 DEF BundlerUpdates
<1>9. CASE ~subscribed /\ injected
  <2> DEFINE held == IF emitted = <<>> THEN update ELSE LaidOver(emitted[1], update)
  <2>1. emitted' = <<held>>
    BY <1>9 DEF BundlerUpdates
  <2>2. Len(emitted) <= 1
    BY <1>9 DEF MetadataInv, UpdatesLead
  <2>3. emitted # <<>> => emitted[1] \in Collections /\ DOMAIN emitted = {1}
    <3>1. ASSUME emitted # <<>> PROVE Len(emitted) = 1 /\ DOMAIN emitted = 1..1 /\ 1 \in DOMAIN emitted
      <4>1. Len(emitted) \in Nat /\ Len(emitted) > 0 /\ DOMAIN emitted = 1..Len(emitted)
        BY <1>1, <3>1
      <4>2. Len(emitted) = 1
        BY <2>2, <4>1
      <4> QED
        BY <4>1, <4>2
    <3>2. ASSUME NEW k \in DOMAIN emitted PROVE emitted[k] \in Collections
      BY <1>1, <3>2
    <3> QED
      BY <3>1, <3>2
  <2>4. held \in Collections
    BY <1>1, <2>3, OneIsCollection
  <2>5. \A d \in Stored : held[d] = IF update[d] # NoDocument \/ emitted = <<>> THEN update[d] ELSE emitted[1][d]
    BY DEF LaidOver
  <2> HIDE DEF held
  <2>6. emitted' \in Seq(Collections) /\ Len(emitted') = 1 /\ DOMAIN emitted' = {1} /\ emitted'[1] = held
    BY <2>1, <2>4
  <2>7. ASSUME NEW d \in Stored
        PROVE  /\ booted /\ NamedIn(d)' = {} => files[d] = collection'[d]
               /\ \A k \in NamedIn(d)' : emitted'[k][d] = collection'[d]
    <3>1. NamedIn(d)' = {k \in {1} : held[d] # NoDocument}
      BY <2>6 DEF NamedIn
    <3>2. CASE update[d] # NoDocument
      BY <1>3, <2>5, <2>6, <3>1, <3>2
    <3>3. CASE update[d] = NoDocument
      <4>1. collection'[d] = collection[d]
        BY <1>3, <3>3
      <4>2. /\ booted /\ NamedIn(d) = {} => files[d] = collection[d]
            /\ \A k \in NamedIn(d) : (\A j \in NamedIn(d) : j <= k) => emitted[k][d] = collection[d]
        BY <1>9 DEF MetadataInv, UpdatesLead
      <4>3. CASE emitted = <<>>
        <5>1. NamedIn(d) = {} /\ NamedIn(d)' = {}
          BY <2>5, <3>1, <3>3, <4>3 DEF NamedIn
        <5> QED
          BY <4>1, <4>2, <5>1
      <4>4. CASE emitted # <<>>
        <5>1. NamedIn(d) = {k \in {1} : emitted[1][d] # NoDocument} /\ held[d] = emitted[1][d]
          BY <2>3, <2>5, <3>3, <4>4 DEF NamedIn
        <5> QED
          BY <2>6, <3>1, <4>1, <4>2, <5>1
      <4> QED
        BY <4>3, <4>4
    <3> QED
      BY <3>2, <3>3
  <2>8. UpdatesLead'
    BY <1>2, <1>9, <2>6, <2>7 DEF MetadataInv, UpdatesLead
  <2> QED
    BY <1>6, <2>6, <2>8
<1> QED
  BY <1>7, <1>8, <1>9

\* The first frame keeps it: it has the whole collection of an injected bundler.
LEMMA BootKeeps ==
  ASSUME MetadataInv, BootApp
  PROVE  MetadataInv'
<1>1. /\ MetadataTypes /\ Empty \in Collections
  BY OneIsCollection DEF MetadataInv
<1>2. /\ ~booted /\ booted' /\ files' = IF injected THEN collection ELSE Empty
      /\ UNCHANGED <<injected, collection, updates, emitted, subscribed, layers, query>>
  BY DEF BootApp
<1>3. files' \in Collections
  BY <1>1, <1>2 DEF MetadataTypes
<1>4. Render(files', layers)
  BY DEF BootApp
<1>5. /\ previous'.entries \subseteq EntrySet
      /\ failed' <=> Throws(query, StoreOf(files', layers))
      /\ ~failed' => previous'.entries = Selected(query, StoreOf(files', layers))
  BY <1>1, <1>3, <1>4, RenderSelects DEF MetadataTypes
<1>6. EntriesAreSelected'
  BY <1>2, <1>5 DEF EntriesAreSelected
<1>7. MetadataTypes'
  BY <1>1, <1>2, <1>3, <1>5 DEF MetadataTypes
<1>8. UpdatesLead'
  BY <1>2 DEF MetadataInv, UpdatesLead, NamedIn
<1> QED
  BY <1>6, <1>7, <1>8 DEF MetadataInv

\* The first update on its way keeps it: it is laid over what the app has.
LEMMA DeliveryKeeps ==
  ASSUME MetadataInv, MetadataDelivered
  PROVE  MetadataInv'
<1>1. MetadataTypes
  BY DEF MetadataInv
<1>2. /\ subscribed /\ emitted # <<>> /\ emitted' = Tail(emitted)
      /\ files' = IF UpdateAlreadyApplied(files, emitted[1]) THEN files ELSE LaidOver(files, emitted[1])
      /\ Render(files', layers)
      /\ UNCHANGED <<injected, collection, updates, booted, subscribed, layers, query>>
  BY DEF MetadataDelivered
<1>3. /\ emitted \in Seq(Collections) /\ emitted[1] \in Collections /\ emitted' \in Seq(Collections)
      /\ Len(emitted) \in Nat /\ Len(emitted) > 0 /\ DOMAIN emitted = 1..Len(emitted) /\ DOMAIN emitted' = 1..Len(emitted) - 1
      /\ \A k \in 1..Len(emitted) - 1 : emitted'[k] = emitted[k + 1]
  BY <1>1, <1>2 DEF MetadataTypes
<1>4. files' \in Collections /\ \A d \in Stored : files'[d] = IF emitted[1][d] # NoDocument THEN emitted[1][d] ELSE files[d]
  <2>1. CASE UpdateAlreadyApplied(files, emitted[1])
    BY <1>1, <1>2, <2>1 DEF MetadataTypes, UpdateAlreadyApplied
  <2>2. CASE ~UpdateAlreadyApplied(files, emitted[1])
    <3>1. files' = LaidOver(files, emitted[1])
      BY <1>2, <2>2
    <3>2. files' \in Collections
      BY <1>1, <1>3, <3>1, OneIsCollection DEF MetadataTypes
    <3> QED
      BY <3>1, <3>2 DEF LaidOver
  <2> QED
    BY <2>1, <2>2
<1>5. /\ previous'.entries \subseteq EntrySet
      /\ failed' <=> Throws(query, StoreOf(files', layers))
      /\ ~failed' => previous'.entries = Selected(query, StoreOf(files', layers))
  BY <1>1, <1>2, <1>4, RenderSelects DEF MetadataTypes
<1>6. EntriesAreSelected'
  BY <1>2, <1>5 DEF EntriesAreSelected
<1>7. MetadataTypes'
  BY <1>1, <1>2, <1>3, <1>4, <1>5 DEF MetadataTypes
<1>8. ASSUME injected, NEW d \in Stored
      PROVE  /\ booted /\ NamedIn(d)' = {} => files'[d] = collection[d]
             /\ \A k \in NamedIn(d)' : (\A j \in NamedIn(d)' : j <= k) => emitted'[k][d] = collection[d]
  <2>1. \A k \in 1..Len(emitted) - 1 : k \in NamedIn(d)' <=> k + 1 \in NamedIn(d)
    BY <1>3 DEF NamedIn
  <2>2. NamedIn(d)' \subseteq 1..Len(emitted) - 1 /\ NamedIn(d) \subseteq 1..Len(emitted)
    BY <1>3 DEF NamedIn
  <2>3. /\ booted /\ NamedIn(d) = {} => files[d] = collection[d]
        /\ \A k \in NamedIn(d) : (\A j \in NamedIn(d) : j <= k) => emitted[k][d] = collection[d]
    BY <1>8 DEF MetadataInv, UpdatesLead
  <2>4. ASSUME booted, NamedIn(d)' = {} PROVE files'[d] = collection[d]
    <3>1. \A k \in NamedIn(d) : k = 1
      <4>1. ASSUME NEW k \in NamedIn(d), k # 1 PROVE FALSE
        <5>1. k - 1 \in 1..Len(emitted) - 1 /\ k - 1 + 1 = k
          BY <1>3, <2>2, <4>1
        <5>2. k - 1 \in NamedIn(d)'
          BY <2>1, <4>1, <5>1
        <5> QED
          BY <2>4, <5>2
      <4> QED
        BY <4>1
    <3>2. CASE 1 \in NamedIn(d)
      <4>1. emitted[1][d] = collection[d] /\ emitted[1][d] # NoDocument
        BY <2>3, <3>1, <3>2 DEF NamedIn
      <4> QED
        BY <1>4, <4>1
    <3>3. CASE 1 \notin NamedIn(d)
      <4>1. NamedIn(d) = {} /\ emitted[1][d] = NoDocument
        BY <1>3, <3>1, <3>3 DEF NamedIn
      <4> QED
        BY <1>4, <2>3, <2>4, <4>1
    <3> QED
      BY <3>2, <3>3
  <2>5. ASSUME NEW k \in NamedIn(d)', \A j \in NamedIn(d)' : j <= k PROVE emitted'[k][d] = collection[d]
    <3>1. k \in 1..Len(emitted) - 1 /\ k + 1 \in NamedIn(d) /\ emitted'[k] = emitted[k + 1]
      BY <1>3, <2>1, <2>2, <2>5
    <3>2. \A j \in NamedIn(d) : j <= k + 1
      <4>1. ASSUME NEW j \in NamedIn(d), j # 1 PROVE j <= k + 1
        <5>1. j - 1 \in 1..Len(emitted) - 1 /\ j - 1 + 1 = j
          BY <1>3, <2>2, <4>1
        <5>2. j - 1 \in NamedIn(d)'
          BY <2>1, <4>1, <5>1
        <5> QED
          BY <2>5, <3>1, <5>1, <5>2
      <4>2. 1 <= k + 1
        BY <1>3, <3>1
      <4> QED
        BY <4>1, <4>2
    <3> QED
      BY <2>3, <3>1, <3>2
  <2> QED
    BY <2>4, <2>5
<1>9. UpdatesLead'
  BY <1>2, <1>8 DEF MetadataInv, UpdatesLead
<1> QED
  BY <1>6, <1>7, <1>9 DEF MetadataInv

\* A source that comes, changes or goes keeps it: the hook renders.
LEMMA SourceKeeps ==
  ASSUME MetadataInv, NEW k \in 1..2, NEW source \in Sources, ProvideSource(k, source)
  PROVE  MetadataInv'
<1>1. MetadataTypes
  BY DEF MetadataInv
<1>2. layers' = [layers EXCEPT ![k] = source] /\ UNCHANGED <<injected, collection, emitted, booted, subscribed, files, query>>
  BY DEF ProvideSource
<1>3. DOMAIN layers' = {1, 2} /\ layers'[1] \in Sources /\ layers'[2] \in Sources
  BY <1>1, <1>2 DEF MetadataTypes
<1>4. Render(files, layers')
  BY DEF ProvideSource
<1>5. /\ previous'.entries \subseteq EntrySet
      /\ failed' <=> Throws(query, StoreOf(files, layers'))
      /\ ~failed' => previous'.entries = Selected(query, StoreOf(files, layers'))
  BY <1>1, <1>3, <1>4, RenderSelects DEF MetadataTypes
<1>6. EntriesAreSelected'
  BY <1>2, <1>5 DEF EntriesAreSelected
<1>7. MetadataTypes'
  BY <1>1, <1>2, <1>3, <1>5 DEF MetadataTypes
<1>8. UpdatesLead'
  BY <1>2 DEF MetadataInv, UpdatesLead, NamedIn
<1> QED
  BY <1>6, <1>7, <1>8 DEF MetadataInv

\* Every step keeps it.
LEMMA MetadataStep == MetadataInv /\ [Next]_vars => MetadataInv'
<1> SUFFICES ASSUME MetadataInv, [Next]_vars PROVE MetadataInv'
  OBVIOUS
<1>1. CASE UNCHANGED hookVars
  BY <1>1 DEF hookVars, MetadataInv, MetadataTypes, EntriesAreSelected, UpdatesLead, NamedIn
<1>2. CASE UNCHANGED metadataVars
  BY <1>1, <1>2 DEF metadataVars, hookVars
<1>3. ASSUME NEW update \in Single, BundlerUpdates(update) PROVE MetadataInv'
  BY <1>3, UpdateKeeps
<1>4. CASE BootApp
  BY <1>4, BootKeeps
<1>5. CASE SubscribeMetadata
  BY <1>5 DEF SubscribeMetadata, MetadataInv, MetadataTypes, EntriesAreSelected, UpdatesLead, NamedIn
<1>6. CASE MetadataDelivered
  BY <1>6, DeliveryKeeps
<1>7. ASSUME NEW k \in 1..2, NEW mode \in {"merge", "replace"}, NEW value \in Own,
             ProvideSource(k, [mode |-> mode, value |-> value])
      PROVE  MetadataInv'
  <2>1. [mode |-> mode, value |-> value] \in Sources
    BY OneIsCollection DEF Sources
  <2> QED
    BY <1>7, <2>1, SourceKeeps
<1>8. ASSUME NEW k \in 1..2, ProvideSource(k, NoSource) PROVE MetadataInv'
  <2>1. NoSource \in Sources
    BY OneIsCollection DEF Sources, NoSource
  <2> QED
    BY <1>8, <2>1, SourceKeeps
<1>9. ASSUME NEW wish \in ToolQueries, NEW index \in ToolIndexes, ExecuteMetadataQuery(index, wish) PROVE MetadataInv'
  BY <1>1, <1>9 DEF ExecuteMetadataQuery
<1> QED
  BY <1>2, <1>3, <1>4, <1>5, <1>6, <1>7, <1>8, <1>9, MetadataOrNot DEF MetadataNext

\* The last of some places of a sequence.
LEMMA LastPlace ==
  ASSUME NEW n \in Nat, NEW S, S \subseteq 1..n, S # {}
  PROVE  Max(S) \in S /\ \A k \in S : k <= Max(S)
<1> DEFINE T == {n - k : k \in S}
<1>1. T \subseteq Nat /\ T # {}
  <2>1. \A k \in S : n - k \in Nat
    OBVIOUS
  <2>2. PICK k \in S : TRUE
    OBVIOUS
  <2>3. n - k \in T
    OBVIOUS
  <2> QED
    BY <2>1, <2>3
<1>2. PICK m \in T : \A j \in T : m <= j
  <2> HIDE DEF T
  <2> QED
    BY <1>1, LeastNatural
<1>3. PICK k \in S : m = n - k
  BY <1>2
<1>4. \A j \in S : j <= k
  <2>1. ASSUME NEW j \in S PROVE j <= k
    <3>1. n - j \in T
      OBVIOUS
    <3>2. n - k <= n - j
      BY <1>2, <1>3, <3>1
    <3> QED
      BY <1>3, <3>2
  <2> QED
    BY <2>1
<1> QED
  BY <1>3, <1>4 DEF Max

\* So the hook shows the scope it is in, and nothing is missed.
LEMMA MetadataAgreesThen == MetadataInv => MetadataAgrees
<1> SUFFICES ASSUME MetadataInv PROVE MetadataAgrees
  OBVIOUS
<1>1. HookShowsScope
  <2> SUFFICES ASSUME booted PROVE HookShowsScope
    BY DEF HookShowsScope
  <2> DEFINE scope == [d \in Stored |-> InScope(d)]
             seen == StoreOf(files, layers)
  <2>1. seen \in Collections /\ \A d \in Stored : seen[d] = InScope(d)
    BY StoreIsScope DEF MetadataInv
  <2>2. seen = scope
    BY <2>1 DEF Collections
  <2>3. (failed <=> Throws(query, scope)) /\ (~failed => previous.entries = Selected(query, scope))
    BY <2>2 DEF MetadataInv, EntriesAreSelected
  <2>4. ASSUME ~failed
        PROVE  /\ {e.path : e \in previous.entries} = {d \in Stored : InScope(d) # NoDocument /\ (query = "all" \/ InScope(d).field = 1)}
               /\ \A e \in previous.entries : e.meta = InScope(e.path) /\ e.extra = InScope(e.path).field
    <3> DEFINE wanting == {d \in Stored : InScope(d) # NoDocument /\ (query = "all" \/ InScope(d).field = 1)}
               entryOf(d) == [path |-> d, meta |-> InScope(d), extra |-> InScope(d).field]
    <3>1. Selected(query, seen) = {[path |-> d, meta |-> seen[d], extra |-> seen[d].field] : d \in wanting}
      BY <2>1 DEF Selected
    <3>2. \A d \in wanting : [path |-> d, meta |-> seen[d], extra |-> seen[d].field] = entryOf(d)
      BY <2>1
    <3>3. previous.entries = {entryOf(d) : d \in wanting}
      BY <2>2, <2>3, <2>4, <3>1, <3>2
    <3>4. \A d \in wanting : entryOf(d).path = d /\ entryOf(d).meta = InScope(d) /\ entryOf(d).extra = InScope(d).field
      OBVIOUS
    <3> HIDE DEF wanting, entryOf
    <3>5. {e.path : e \in previous.entries} = wanting
      BY <3>3, <3>4
    <3>6. \A e \in previous.entries : e.meta = InScope(e.path) /\ e.extra = InScope(e.path).field
      BY <3>3, <3>4
    <3> QED
      BY <3>5, <3>6 DEF wanting
  <2> QED
    BY <2>3, <2>4 DEF HookShowsScope
<1>2. NothingMissed
  <2>1. ASSUME booted, injected, NEW d \in Stored
        PROVE  collection[d] = IF NamedIn(d) = {} THEN files[d] ELSE emitted[Max(NamedIn(d))][d]
    <3>1. NamedIn(d) \subseteq 1..Len(emitted) /\ Len(emitted) \in Nat
      BY DEF MetadataInv, MetadataTypes, NamedIn
    <3>2. NamedIn(d) # {} => Max(NamedIn(d)) \in NamedIn(d) /\ \A k \in NamedIn(d) : k <= Max(NamedIn(d))
      BY <3>1, LastPlace
    <3> QED
      BY <2>1, <3>2 DEF MetadataInv, UpdatesLead
  <2> QED
    BY <2>1 DEF NothingMissed, NamedIn
<1> QED
  BY <1>1, <1>2 DEF MetadataAgrees

\* What a component shows is what its query finds now in the scope it is in, and of the
\* collection of an injected bundler nothing is missed, however the updates, the boot and the
\* sources around it interleave (hooks.ts:70, injectedBundler.ts:59).
THEOREM MetadataIsAgreed == Spec => []MetadataAgrees
<1> QED
  BY MetadataInitially, MetadataStep, MetadataAgreesThen, PTL DEF Spec

-----------------------------------------------------------------------------
(* The answers of the verbs. *)

\* A step is one of the calls, or leaves what they hold alone.
LEMMA RepliesOrNot ==
  ASSUME [Next]_vars
  PROVE  \/ RepliesNext
         \/ UNCHANGED replyVars
BY PartStep

\* What the app got for an answer, `.try` or not.
Gotten(call, reply) == IF call.try THEN WithTry(Outcome(call.verb, reply)) ELSE Outcome(call.verb, reply)

\* Calls that do not fail.
Quiet(call) == call.try \/ call.verb \in {"importSettingsFromParent", "launch"}

\* An answer was taken for what it is.
Taking(call, got, outcome) ==
  LET fails == got.ok # "true"
  IN  /\ fails => outcome.settled \in {"rejects", "tells"}
      /\ ~fails /\ got.data # <<>> /\ Needs(call.verb) \subseteq got.data[1] => outcome.settled = "resolves"
      /\ ~fails /\ call.verb \in VoidVerbs \union DataVerbs =>
           outcome.settled = "resolves" /\ (call.verb \in DataVerbs => outcome.value = got.data)
      /\ fails /\ call.verb # "launch" => outcome.code = IF got.code = "text" THEN "text" ELSE "unknown"
      /\ Quiet(call) => outcome.settled # "rejects"
      /\ outcome.wait => fails /\ got.wait = "finite"
      /\ outcome.limit => fails /\ got.limit = "number"
      /\ call.verb \in {"publishSpaceKey", "listSpaceKeys"} /\ outcome.value # <<>> => "d" \notin outcome.value[1]

\* An outcome, and what may be said of it whatever the verb.
Plain(verb, got, outcome) ==
  /\ outcome = [settled |-> outcome.settled, value |-> outcome.value, code |-> outcome.code, wait |-> outcome.wait, limit |-> outcome.limit]
  /\ outcome.wait \in BOOLEAN /\ outcome.limit \in BOOLEAN
  /\ outcome.settled \in {"resolves", "rejects", "tells"}
  /\ got.ok # "true" => outcome.settled \in {"rejects", "tells"} /\ outcome.value = <<>>
  /\ got.ok # "true" /\ verb # "launch" => outcome.code = IF got.code = "text" THEN "text" ELSE "unknown"
  /\ outcome.settled = "resolves" => ~outcome.wait /\ ~outcome.limit
  /\ outcome.wait => got.ok # "true" /\ got.wait = "finite"
  /\ outcome.limit => got.ok # "true" /\ got.limit = "number"

\* What a promise that resolves is.
LEMMA ResolvedIs ==
  ASSUME NEW value
  PROVE  Resolves(value).settled = "resolves" /\ Resolves(value).value = value
BY DEF Resolves, Settled

\* The rule of a verb for a reply that is not refused.
LEMMA RuleIs ==
  ASSUME NEW verb, NEW reply, NEW value
  PROVE  /\ Plain(verb, reply, ThrowOnRefusal(reply, value))
         /\ ~ThrowOnRefusal(reply, value).limit
         /\ reply.ok = "true" => ThrowOnRefusal(reply, value) = Resolves(value)
         /\ reply.ok # "true" => ThrowOnRefusal(reply, value).settled = "rejects"
<1>1. CASE reply.ok = "true"
  <2>1. ThrowOnRefusal(reply, value) = Resolves(value)
    BY <1>1 DEF ThrowOnRefusal
  <2>2. Resolves(value) = [settled |-> "resolves", value |-> value, code |-> Missing, wait |-> FALSE, limit |-> FALSE]
    BY DEF Resolves, Settled
  <2> QED
    BY <1>1, <2>1, <2>2 DEF Plain
<1>2. CASE reply.ok # "true"
  <2>1. ThrowOnRefusal(reply, value) = [settled |-> "rejects", value |-> <<>>, code |-> IF reply.code = "text" THEN "text" ELSE "unknown",
                                        wait |-> reply.wait = "finite", limit |-> FALSE]
    BY <1>2 DEF ThrowOnRefusal, Rejects, Settled
  <2> DEFINE outcome == ThrowOnRefusal(reply, value)
  <2>2. /\ outcome.settled = "rejects" /\ outcome.value = <<>> /\ outcome.limit = FALSE
        /\ outcome.code = IF reply.code = "text" THEN "text" ELSE "unknown"
        /\ outcome.wait = (reply.wait = "finite")
    BY <2>1
  <2>3. outcome = [settled |-> outcome.settled, value |-> outcome.value, code |-> outcome.code, wait |-> outcome.wait, limit |-> outcome.limit]
    BY <2>1
  <2> HIDE DEF outcome
  <2>4. Plain(verb, reply, outcome)
    BY <1>2, <2>2, <2>3 DEF Plain
  <2> QED
    BY <1>2, <2>2, <2>4 DEF outcome
<1> QED
  BY <1>1, <1>2

\* A field of data that is there is returned, if only as `undefined`.
LEMMA FieldResolves ==
  ASSUME NEW reply, NEW field, reply.ok = "true", reply.data # <<>>
  PROVE  /\ FieldOf(Data(reply), field).settled = "resolves"
         /\ FieldOf(Data(reply), field) = Resolves(IF field \in reply.data[1] THEN <<{field}>> ELSE <<>>)
<1>1. Data(reply) = Resolves(reply.data)
  BY RuleIs DEF Data
<1>2. FieldOf(Data(reply), field) = [Resolves(reply.data) EXCEPT !.value = IF field \in reply.data[1] THEN <<{field}>> ELSE <<>>]
  BY <1>1 DEF FieldOf, Resolves, Settled
<1>3. FieldOf(Data(reply), field) = Resolves(IF field \in reply.data[1] THEN <<{field}>> ELSE <<>>)
  BY <1>2 DEF Resolves, Settled
<1>4. FieldOf(Data(reply), field).settled = "resolves"
  BY <1>2 DEF Resolves, Settled
<1> QED
  BY <1>3, <1>4

\* What the verbs make of a field of the data.
LEMMA FieldIs ==
  ASSUME NEW verb, NEW reply, NEW field, verb # "launch"
  PROVE  /\ Plain(verb, reply, FieldOf(Data(reply), field))
         /\ reply.ok = "true" /\ reply.data # <<>> =>
              FieldOf(Data(reply), field) = Resolves(IF field \in reply.data[1] THEN <<{field}>> ELSE <<>>)
         /\ reply.ok = "true" /\ reply.data = <<>> => FieldOf(Data(reply), field).code = Missing
<1>1. CASE reply.ok = "true"
  <2>1. Data(reply) = Resolves(reply.data)
    BY <1>1, RuleIs DEF Data
  <2>2. CASE reply.data = <<>>
    BY <1>1, <2>1, <2>2 DEF FieldOf, Resolves, TypeError, Rejects, Settled, Plain
  <2>3. CASE reply.data # <<>>
    <3>1. FieldOf(Data(reply), field) = Resolves(IF field \in reply.data[1] THEN <<{field}>> ELSE <<>>)
      BY <1>1, <2>3, FieldResolves
    <3> QED
      BY <1>1, <2>3, <3>1 DEF Resolves, Settled, Plain
  <2> QED
    BY <2>2, <2>3
<1>2. CASE reply.ok # "true"
  <2>1. Data(reply).settled = "rejects" /\ Plain(verb, reply, Data(reply))
    BY <1>2, RuleIs DEF Data
  <2>2. FieldOf(Data(reply), field) = Data(reply)
    BY <2>1 DEF FieldOf
  <2> QED
    BY <1>2, <2>1, <2>2
<1> QED
  BY <1>1, <1>2

\* A read of nothing is a TypeError.
LEMMA TypeErrorIs ==
  /\ TypeError = [settled |-> "rejects", value |-> <<>>, code |-> Missing, wait |-> FALSE, limit |-> FALSE]
  /\ TypeError.settled = "rejects" /\ TypeError.value = <<>> /\ ~TypeError.wait /\ ~TypeError.limit
  /\ \A verb, reply : reply.ok = "true" => Plain(verb, reply, TypeError)
<1>1. TypeError = [settled |-> "rejects", value |-> <<>>, code |-> Missing, wait |-> FALSE, limit |-> FALSE]
  BY DEF TypeError, Rejects, Resolves, Settled
<1> QED
  BY <1>1 DEF Plain

\* Verbs with a rule of their own.
OtherVerbs == {"listRecentProjects", "bundleRead", "publishSpaceKey", "listSpaceKeys", "importSettingsFromParent", "launch"}

\* The verbs are of one kind each.
LEMMA KindsAreOwn ==
  ASSUME NEW verb
  PROVE  /\ verb \in DataVerbs => verb \notin VoidVerbs
         /\ verb \in MountVerbs => verb \notin VoidVerbs \union DataVerbs
         /\ verb \in EditorVerbs => verb \notin VoidVerbs \union DataVerbs \union MountVerbs
         /\ verb \in DOMAIN HistoryField => verb \notin VoidVerbs \union DataVerbs \union MountVerbs \union EditorVerbs
         /\ verb \in OtherVerbs => verb \notin VoidVerbs \union DataVerbs \union MountVerbs \union EditorVerbs \union DOMAIN HistoryField
<1> USE DEF DndVerbs, IpcVerbs, LinkVerbs, RepositoryVerbs, BundleVerbs, ThemeVerbs, VcsVerbs, ModeVerbs, FeedVerbs, FetchVerbs,
            SecretVerbs, TaskVerbs, SettingsVerbs, RefVerbs, SpacesVoid, SpacesData, VoidVerbs, DataVerbs
<1>1. verb \in DataVerbs => verb \notin VoidVerbs
  OBVIOUS
<1>2. verb \in MountVerbs => verb \notin VoidVerbs \union DataVerbs
  BY DEF MountVerbs
<1>3. verb \in EditorVerbs => verb \notin VoidVerbs \union DataVerbs \union MountVerbs
  BY DEF MountVerbs, EditorVerbs
<1>4. DOMAIN HistoryField = {"bundleHead", "bundleLog", "bundleIsAncestor", "bundleDiffPaths", "bundleCanWrite"}
  BY DEF HistoryField
<1>5. verb \in DOMAIN HistoryField => verb \notin VoidVerbs \union DataVerbs \union MountVerbs \union EditorVerbs
  BY <1>4 DEF MountVerbs, EditorVerbs
<1>6. verb \in OtherVerbs => verb \notin VoidVerbs \union DataVerbs \union MountVerbs \union EditorVerbs \union DOMAIN HistoryField
  BY <1>4 DEF MountVerbs, EditorVerbs, OtherVerbs
<1> QED
  BY <1>1, <1>2, <1>3, <1>5, <1>6

\* The outcome of a verb is its rule, or the refusal it threw on.
LEMMA OutcomeIs ==
  ASSUME NEW verb, NEW reply
  PROVE  /\ verb \in VoidVerbs => Outcome(verb, reply) = NoValue(reply)
         /\ verb \in DataVerbs => Outcome(verb, reply) = Data(reply)
         /\ verb \in MountVerbs => Outcome(verb, reply) = Within(Data(reply))
         /\ verb \in EditorVerbs => Outcome(verb, reply) = EditorRequest(reply)
         /\ verb \in DOMAIN HistoryField => Outcome(verb, reply) = FieldOf(Data(reply), HistoryField[verb])
         /\ verb = "listRecentProjects" => Outcome(verb, reply) = RecentsRequest(reply)
         /\ verb = "bundleRead" => Outcome(verb, reply) = BundleRead(reply)
         /\ verb = "publishSpaceKey" => Outcome(verb, reply) = PublishSpaceKey(reply)
         /\ verb = "listSpaceKeys" => Outcome(verb, reply) = ListSpaceKeys(reply)
         /\ verb = "importSettingsFromParent" => Outcome(verb, reply) = ImportSettings(reply)
         /\ verb = "launch" => Outcome(verb, reply) = LaunchReply(reply)
<1>1. CASE verb \notin OtherVerbs
  BY <1>1, KindsAreOwn DEF Outcome, OtherVerbs
<1>2. CASE verb \in OtherVerbs
  BY <1>2, KindsAreOwn DEF Outcome, OtherVerbs
<1> QED
  BY <1>1, <1>2

\* `.try` resolves in any case, and tells what it would have thrown.
LEMMA WithTryIs ==
  ASSUME NEW verb, NEW reply, NEW outcome, Plain(verb, reply, outcome), verb # "launch"
  PROVE  /\ Plain(verb, reply, WithTry(outcome)) /\ WithTry(outcome).settled # "rejects"
         /\ outcome.settled = "resolves" => WithTry(outcome) = outcome
<1>1. CASE outcome.settled # "rejects"
  BY <1>1 DEF WithTry
<1>2. CASE outcome.settled = "rejects"
  <2>1. WithTry(outcome) = [settled |-> "tells", value |-> <<>>, code |-> IF outcome.code = Missing THEN "unknown" ELSE outcome.code,
                            wait |-> FALSE, limit |-> FALSE]
    BY <1>2 DEF WithTry, Tells, Settled
  <2>2. reply.ok # "true" => outcome.code = (IF reply.code = "text" THEN "text" ELSE "unknown") /\ outcome.code # Missing
    BY DEF Plain, Missing
  <2> DEFINE told == WithTry(outcome)
  <2>3. /\ told.settled = "tells" /\ told.value = <<>> /\ told.limit = FALSE /\ told.wait = FALSE
        /\ told.code = IF outcome.code = Missing THEN "unknown" ELSE outcome.code
        /\ told = [settled |-> told.settled, value |-> told.value, code |-> told.code, wait |-> told.wait, limit |-> told.limit]
    BY <2>1
  <2> HIDE DEF told
  <2>4. Plain(verb, reply, told)
    BY <2>2, <2>3 DEF Plain
  <2> QED
    BY <1>2, <2>3, <2>4 DEF told
<1> QED
  BY <1>1, <1>2

\* What may be said of the outcome of a verb, before `.try`.
Sound(verb, got, outcome) ==
  /\ Plain(verb, got, outcome)
  /\ got.ok = "true" /\ got.data # <<>> /\ Needs(verb) \subseteq got.data[1] => outcome.settled = "resolves"
  /\ got.ok = "true" /\ verb \in VoidVerbs \union DataVerbs =>
       outcome.settled = "resolves" /\ (verb \in DataVerbs => outcome.value = got.data)
  /\ verb \in {"importSettingsFromParent", "launch"} => outcome.settled # "rejects"
  /\ verb \in {"publishSpaceKey", "listSpaceKeys"} /\ outcome.value # <<>> => "d" \notin outcome.value[1]

\* A verb that resolves, whatever it got.
LEMMA ResolvesIs ==
  ASSUME NEW verb, NEW reply, NEW value, reply.ok = "true"
  PROVE  Resolves(value).settled = "resolves" /\ Resolves(value).value = value /\ Plain(verb, reply, Resolves(value))
BY RuleIs DEF Resolves, Settled, Plain

\* A verb without a result.
LEMMA VoidIsSound ==
  ASSUME NEW verb \in VoidVerbs \union DataVerbs, NEW reply
  PROVE  Sound(verb, reply, Outcome(verb, reply))
<1>1. verb \notin OtherVerbs
  BY KindsAreOwn
<1>2. /\ verb \in DataVerbs => Outcome(verb, reply) = ThrowOnRefusal(reply, reply.data)
      /\ verb \notin DataVerbs => Outcome(verb, reply) = ThrowOnRefusal(reply, <<>>)
  BY KindsAreOwn, OutcomeIs DEF Data, NoValue
<1>3. CASE verb \in DataVerbs
  <2>1. Outcome(verb, reply) = ThrowOnRefusal(reply, reply.data)
    BY <1>2, <1>3
  <2>2. Plain(verb, reply, Outcome(verb, reply)) /\ (reply.ok = "true" => Outcome(verb, reply) = Resolves(reply.data))
    BY <2>1, RuleIs
  <2> QED
    BY <1>1, <1>3, <2>2, ResolvesIs DEF Sound, OtherVerbs
<1>4. CASE verb \notin DataVerbs
  <2>1. Outcome(verb, reply) = ThrowOnRefusal(reply, <<>>)
    BY <1>2, <1>4
  <2>2. Plain(verb, reply, Outcome(verb, reply)) /\ (reply.ok = "true" => Outcome(verb, reply) = Resolves(<<>>))
    BY <2>1, RuleIs
  <2> QED
    BY <1>1, <1>4, <2>2, ResolvesIs DEF Sound, OtherVerbs
<1> QED
  BY <1>3, <1>4

\* A verb that looks into the data, and fails without it.
LEMMA WithinIsSound ==
  ASSUME NEW verb, verb # "launch", NEW reply, NEW outcome, Plain(verb, reply, outcome)
  PROVE  /\ Plain(verb, reply, Within(outcome))
         /\ outcome.settled = "resolves" /\ outcome.value # <<>> => Within(outcome) = outcome
<1>1. CASE outcome.settled = "resolves" /\ outcome.value = <<>>
  <2>1. reply.ok = "true"
    BY <1>1 DEF Plain
  <2>2. Within(outcome) = TypeError
    BY <1>1 DEF Within
  <2> QED
    BY <1>1, <2>1, <2>2, TypeErrorIs
<1>2. CASE ~(outcome.settled = "resolves" /\ outcome.value = <<>>)
  <2>1. Within(outcome) = outcome
    BY <1>2 DEF Within
  <2> QED
    BY <1>2, <2>1
<1> QED
  BY <1>1, <1>2

\* With the data, `Within` changes nothing.
LEMMA DataIs ==
  ASSUME NEW verb, NEW reply
  PROVE  /\ Plain(verb, reply, Data(reply))
         /\ reply.ok = "true" => Data(reply) = Resolves(reply.data)
         /\ reply.ok # "true" => Data(reply).settled = "rejects"
BY RuleIs DEF Data

\* A verb that makes a mount of its answer.
LEMMA MountIsSound ==
  ASSUME NEW verb \in MountVerbs, NEW reply
  PROVE  Sound(verb, reply, Outcome(verb, reply))
<1>1. verb \notin OtherVerbs /\ verb \notin VoidVerbs \union DataVerbs /\ Outcome(verb, reply) = Within(Data(reply))
  BY KindsAreOwn, OutcomeIs
<1>2. verb \notin {"importSettingsFromParent", "launch", "publishSpaceKey", "listSpaceKeys"}
  BY <1>1 DEF OtherVerbs
<1>3. Plain(verb, reply, Within(Data(reply)))
  BY <1>2, DataIs, WithinIsSound
<1>4. ASSUME reply.ok = "true", reply.data # <<>> PROVE Within(Data(reply)).settled = "resolves"
  <2>1. Data(reply).settled = "resolves" /\ Data(reply).value = reply.data
    BY <1>4, DataIs, ResolvedIs
  <2>2. Within(Data(reply)) = Data(reply)
    BY <1>4, <2>1 DEF Within
  <2> QED
    BY <2>1, <2>2
<1> QED
  BY <1>1, <1>2, <1>3, <1>4 DEF Sound

\* requestEdit.
LEMMA EditIsSound ==
  ASSUME NEW verb \in EditorVerbs, NEW reply
  PROVE  Sound(verb, reply, Outcome(verb, reply))
<1>1. verb \notin OtherVerbs /\ verb \notin VoidVerbs \union DataVerbs /\ Outcome(verb, reply) = EditorRequest(reply)
  BY KindsAreOwn, OutcomeIs
<1>2. verb \notin {"importSettingsFromParent", "launch", "publishSpaceKey", "listSpaceKeys"}
  BY <1>1 DEF OtherVerbs
<1> DEFINE before == ThrowOnRefusal(reply, <<>>)
           after == EditorRequest(reply)
<1>3. Plain(verb, reply, before) /\ before.limit = FALSE /\ (reply.ok = "true" => before = Resolves(<<>>))
  BY RuleIs DEF Plain
<1>4. after = [before EXCEPT !.limit = before.limit \/ (reply.ok = "false" /\ reply.limit = "number")]
  BY DEF EditorRequest, NoValue
<1> HIDE DEF before, after
<1>5. before = [settled |-> before.settled, value |-> before.value, code |-> before.code, wait |-> before.wait, limit |-> before.limit]
  BY <1>3 DEF Plain
<1>6. /\ after.settled = before.settled /\ after.value = before.value /\ after.code = before.code /\ after.wait = before.wait
      /\ after.limit = (before.limit \/ (reply.ok = "false" /\ reply.limit = "number"))
      /\ after = [settled |-> after.settled, value |-> after.value, code |-> after.code, wait |-> after.wait, limit |-> after.limit]
  BY <1>4, <1>5
<1>7. after.limit = (reply.ok = "false" /\ reply.limit = "number")
  BY <1>3, <1>6
<1>8. Plain(verb, reply, after)
  BY <1>3, <1>6, <1>7 DEF Plain
<1>9. reply.ok = "true" => after.settled = "resolves"
  BY <1>3, <1>6, ResolvesIs
<1> QED
  BY <1>1, <1>2, <1>8, <1>9 DEF Sound, after

\* A verb that returns a field.
LEMMA FieldIsSound ==
  ASSUME NEW verb \in DOMAIN HistoryField \union {"listRecentProjects"}, NEW reply
  PROVE  Sound(verb, reply, Outcome(verb, reply))
<1>1. verb \notin OtherVerbs \ {"listRecentProjects"} /\ verb \notin VoidVerbs \union DataVerbs
  BY KindsAreOwn DEF OtherVerbs
<1>2. verb \notin {"importSettingsFromParent", "launch", "publishSpaceKey", "listSpaceKeys"}
  BY <1>1 DEF OtherVerbs
<1>3. PICK field : Outcome(verb, reply) = FieldOf(Data(reply), field)
  BY OutcomeIs DEF RecentsRequest
<1>4. Plain(verb, reply, FieldOf(Data(reply), field))
  BY <1>2, FieldIs
<1>5. reply.ok = "true" /\ reply.data # <<>> => FieldOf(Data(reply), field).settled = "resolves"
  BY FieldResolves
<1> QED
  BY <1>1, <1>2, <1>3, <1>4, <1>5 DEF Sound

\* bundleRead.
LEMMA BundleIsSound ==
  ASSUME NEW reply
  PROVE  Sound("bundleRead", reply, Outcome("bundleRead", reply))
<1> DEFINE verb == "bundleRead"
           field == FieldOf(Data(reply), "files")
<1>1. verb \notin VoidVerbs \union DataVerbs /\ Outcome(verb, reply) = Within(field)
  BY KindsAreOwn, OutcomeIs DEF OtherVerbs, BundleRead
<1>2. Plain(verb, reply, field)
  BY FieldIs
<1>3. Plain(verb, reply, Within(field))
  BY <1>2, WithinIsSound
<1>4. ASSUME reply.ok = "true", reply.data # <<>>, "files" \in reply.data[1]
      PROVE  Within(field).settled = "resolves"
  <2>1. field = Resolves(<<{"files"}>>)
    BY <1>4, FieldIs
  <2>2. field.settled = "resolves" /\ field.value = <<{"files"}>>
    BY <1>4, <2>1, ResolvesIs
  <2>3. <<{"files"}>> # <<>>
    OBVIOUS
  <2> HIDE DEF field
  <2>4. Within(field) = field
    BY <1>2, <2>2, <2>3, WithinIsSound
  <2> QED
    BY <2>2, <2>4
<1>5. Needs(verb) = {"files"}
  BY DEF Needs
<1> HIDE DEF field
<1> QED
  BY <1>1, <1>3, <1>4, <1>5 DEF Sound

\* publishSpaceKey and listSpaceKeys.
LEMMA KeysAreSound ==
  ASSUME NEW verb \in {"publishSpaceKey", "listSpaceKeys"}, NEW reply
  PROVE  Sound(verb, reply, Outcome(verb, reply))
<1> DEFINE kept == IF verb = "publishSpaceKey" THEN {"kid", "created"} ELSE RowFields
           outcome == Outcome(verb, reply)
<1>1. verb \notin VoidVerbs \union DataVerbs /\ verb # "launch" /\ verb # "importSettingsFromParent" /\ "d" \notin kept
  BY KindsAreOwn DEF OtherVerbs, RowFields
<1>2. CASE reply.ok # "true"
  <2>1. outcome = Data(reply)
    BY <1>2, OutcomeIs, DataIs DEF PublishSpaceKey, ListSpaceKeys
  <2>2. Plain(verb, reply, outcome)
    BY <2>1, DataIs
  <2>3. outcome.value = <<>>
    BY <1>2, <2>2 DEF Plain
  <2> HIDE DEF outcome
  <2>4. Sound(verb, reply, outcome)
    BY <1>1, <1>2, <2>2, <2>3 DEF Sound
  <2> QED
    BY <2>4 DEF outcome
<1>3. CASE reply.ok = "true"
  <2>1. Data(reply).settled = "resolves" /\ Data(reply).value = reply.data
    BY <1>3, DataIs, ResolvesIs
  <2>2. outcome = IF reply.data = <<>> \/ (verb = "listSpaceKeys" /\ "pub" \notin reply.data[1]) THEN TypeError
                  ELSE Resolves(<<reply.data[1] \intersect kept>>)
    BY <2>1, OutcomeIs DEF PublishSpaceKey, ListSpaceKeys
  <2>3. verb = "listSpaceKeys" => Needs(verb) = {"pub"}
    BY DEF Needs
  <2> HIDE DEF outcome, kept
  <2>4. CASE outcome = TypeError /\ (reply.data = <<>> \/ (verb = "listSpaceKeys" /\ "pub" \notin reply.data[1]))
    <3>1. Plain(verb, reply, outcome) /\ outcome.settled = "rejects" /\ outcome.value = <<>>
      BY <1>3, <2>4, TypeErrorIs
    <3>2. reply.data # <<>> => ~(Needs(verb) \subseteq reply.data[1])
      BY <2>3, <2>4
    <3>3. Sound(verb, reply, outcome)
      BY <1>1, <3>1, <3>2 DEF Sound
    <3> QED
      BY <3>3 DEF outcome
  <2>5. CASE outcome = Resolves(<<reply.data[1] \intersect kept>>)
    <3> DEFINE fields == reply.data[1] \intersect kept
    <3>1. "d" \notin fields
      BY <1>1
    <3> HIDE DEF fields
    <3>2. Plain(verb, reply, outcome) /\ outcome.settled = "resolves" /\ outcome.value = <<fields>>
      BY <1>3, <2>5, ResolvesIs DEF fields
    <3>3. outcome.value[1] = fields
      BY <3>2
    <3>4. Sound(verb, reply, outcome)
      BY <1>1, <3>1, <3>2, <3>3 DEF Sound
    <3> QED
      BY <3>4 DEF outcome
  <2> QED
    BY <2>2, <2>4, <2>5
<1> QED
  BY <1>2, <1>3

\* importSettingsFromParent.
LEMMA ImportIsSound ==
  ASSUME NEW reply
  PROVE  Sound("importSettingsFromParent", reply, Outcome("importSettingsFromParent", reply))
<1> DEFINE verb == "importSettingsFromParent"
           field == FieldOf(Data(reply), "copied")
<1>1. verb \notin VoidVerbs \union DataVerbs /\ Outcome(verb, reply) = WithTry(field)
  BY KindsAreOwn, OutcomeIs DEF OtherVerbs, ImportSettings
<1>2. Plain(verb, reply, field) /\ (reply.ok = "true" /\ reply.data # <<>> => field.settled = "resolves")
  BY FieldIs, FieldResolves
<1> HIDE DEF field
<1>3. Plain(verb, reply, WithTry(field)) /\ WithTry(field).settled # "rejects" /\ (field.settled = "resolves" => WithTry(field) = field)
  BY <1>2, WithTryIs
<1> QED
  BY <1>1, <1>2, <1>3 DEF Sound

\* launch.
LEMMA LaunchIsSound ==
  ASSUME NEW reply
  PROVE  Sound("launch", reply, Outcome("launch", reply))
<1> DEFINE verb == "launch"
           outcome == LaunchReply(reply)
           good == reply.ok = "true" /\ reply.data # <<>> /\ "launchId" \in reply.data[1]
<1>1. verb \notin VoidVerbs \union DataVerbs /\ Outcome(verb, reply) = LaunchReply(reply) /\ Needs(verb) = {"launchId"}
  BY KindsAreOwn, OutcomeIs DEF OtherVerbs, Needs
<1>2. CASE good
  <2>1. outcome = Resolves(<<{"launchId"}>>)
    BY <1>2 DEF LaunchReply
  <2>2. Plain(verb, reply, outcome) /\ outcome.settled = "resolves"
    BY <1>2, <2>1, ResolvesIs
  <2> HIDE DEF outcome
  <2>3. Sound(verb, reply, outcome)
    BY <1>1, <2>2 DEF Sound
  <2> QED
    BY <1>1, <2>3 DEF outcome
<1>3. CASE ~good
  <2>1. PICK code : outcome = [settled |-> "tells", value |-> <<>>, code |-> code, wait |-> FALSE, limit |-> FALSE]
    BY <1>3 DEF LaunchReply, Tells, Settled
  <2> HIDE DEF outcome
  <2>2. outcome.settled = "tells" /\ outcome.value = <<>> /\ outcome.wait = FALSE /\ outcome.limit = FALSE
        /\ outcome = [settled |-> outcome.settled, value |-> outcome.value, code |-> outcome.code, wait |-> outcome.wait, limit |-> outcome.limit]
    BY <2>1
  <2>3. Plain(verb, reply, outcome)
    BY <2>2 DEF Plain
  <2>4. Sound(verb, reply, outcome)
    BY <1>1, <1>3, <2>2, <2>3 DEF Sound
  <2> QED
    BY <1>1, <2>4 DEF outcome
<1> QED
  BY <1>2, <1>3

\* The outcome of every verb is sound.
LEMMA OutcomeIsSound ==
  ASSUME NEW call \in Calls, NEW reply
  PROVE  Sound(call.verb, reply, Outcome(call.verb, reply))
<1>1. \/ call.verb \in VoidVerbs \union DataVerbs \/ call.verb \in MountVerbs \/ call.verb \in EditorVerbs
      \/ call.verb \in DOMAIN HistoryField \union {"listRecentProjects"} \/ call.verb \in {"publishSpaceKey", "listSpaceKeys"}
      \/ call.verb = "bundleRead" \/ call.verb = "importSettingsFromParent" \/ call.verb = "launch"
  BY DEF Calls, EditorVerbs, DataVerbs, VoidVerbs
<1> QED
  BY <1>1, VoidIsSound, MountIsSound, EditIsSound, FieldIsSound, KeysAreSound, BundleIsSound, ImportIsSound, LaunchIsSound

\* What a call is.
LEMMA CallsAre ==
  ASSUME NEW call \in Calls
  PROVE  call.try \in BOOLEAN /\ (call.try => call.verb \in SpacesVoid \union SpacesData)
BY DEF Calls

\* So what the app got for an answer was taken for what it is.
LEMMA GottenIsTaken ==
  ASSUME NEW call \in Calls, NEW reply
  PROVE  Taking(call, reply, Gotten(call, reply))
<1> DEFINE before == Outcome(call.verb, reply)
           after == Gotten(call, reply)
<1>1. Sound(call.verb, reply, before)
  BY OutcomeIsSound
<1>2. after = IF call.try THEN WithTry(before) ELSE before
  BY DEF Gotten
<1>3. call.verb \in SpacesVoid \union SpacesData => call.verb \notin OtherVerbs
  BY KindsAreOwn DEF VoidVerbs, DataVerbs
<1> HIDE DEF before, after
<1>4. Plain(call.verb, reply, before)
  BY <1>1 DEF Sound
<1>5. /\ Plain(call.verb, reply, after)
      /\ before.settled = "resolves" => after = before
      /\ Quiet(call) => after.settled # "rejects"
      /\ ~call.try => after = before
  <2>1. CASE call.try
    <3>1. call.verb \notin OtherVerbs
      BY <1>3, <2>1, CallsAre
    <3>2. call.verb # "launch"
      BY <3>1 DEF OtherVerbs
    <3> QED
      BY <1>2, <1>4, <2>1, <3>2, WithTryIs
  <2>2. CASE ~call.try
    BY <1>1, <1>2, <1>4, <2>2 DEF Quiet, Sound
  <2> QED
    BY <2>1, <2>2
<1>6. call.try => call.verb \notin {"publishSpaceKey", "listSpaceKeys"}
  BY <1>3, CallsAre DEF OtherVerbs
<1>7. Taking(call, reply, after)
  <2>1. /\ reply.ok = "true" /\ reply.data # <<>> /\ Needs(call.verb) \subseteq reply.data[1] => after.settled = "resolves"
        /\ reply.ok = "true" /\ call.verb \in VoidVerbs \union DataVerbs =>
             after.settled = "resolves" /\ (call.verb \in DataVerbs => after.value = reply.data)
    BY <1>1, <1>5 DEF Sound
  <2>2. call.verb \in {"publishSpaceKey", "listSpaceKeys"} /\ after.value # <<>> => "d" \notin after.value[1]
    BY <1>1, <1>5, <1>6 DEF Sound
  <2>3. /\ reply.ok # "true" => after.settled \in {"rejects", "tells"}
        /\ reply.ok # "true" /\ call.verb # "launch" => after.code = IF reply.code = "text" THEN "text" ELSE "unknown"
        /\ after.wait => reply.ok # "true" /\ reply.wait = "finite"
        /\ after.limit => reply.ok # "true" /\ reply.limit = "number"
    BY <1>5 DEF Plain
  <2> QED
    BY <1>5, <2>1, <2>2, <2>3 DEF Taking
<1> QED
  BY <1>7 DEF after

\* A call is refused here, waits, or has what its answer makes.
CallIsAtHand ==
  \/ replyCall = <<>> /\ ~replySent /\ replyGot = <<>>
  \/ \E call \in Calls :
       /\ replyCall = <<call>>
       /\ replySent <=> RefusedHere(call) = <<>>
       /\ ~replySent => replyOutcome.settled = "rejects"
       /\ replyGot # <<>> => \E reply : replyGot = <<reply>> /\ replyOutcome = Gotten(call, reply)

\* Every step keeps it.
LEMMA CallStep == CallIsAtHand /\ [Next]_vars => CallIsAtHand'
<1> SUFFICES ASSUME CallIsAtHand, [Next]_vars PROVE CallIsAtHand'
  OBVIOUS
<1>1. CASE UNCHANGED replyVars
  BY <1>1 DEF replyVars, CallIsAtHand
<1>2. ASSUME NEW call \in Calls, CallVerb(call) PROVE CallIsAtHand'
  <2>1. replyCall = <<>> /\ replyGot = <<>> /\ replyGot' = <<>> /\ replyCall' = <<call>> /\ (replySent' <=> RefusedHere(call) = <<>>)
    BY <1>2 DEF CallVerb, CallIsAtHand
  <2>2. ~replySent' => replyOutcome'.settled = "rejects"
    BY <1>2 DEF CallVerb, Rejects, Settled
  <2> QED
    BY <2>1, <2>2 DEF CallIsAtHand
<1>3. ASSUME NEW reply \in Envelopes, HostAnswersCall(reply) PROVE CallIsAtHand'
  <2>1. replySent /\ replyGot' = <<reply>> /\ replyCall' = replyCall /\ replySent' = replySent
    BY <1>3 DEF HostAnswersCall
  <2>2. PICK call \in Calls : replyCall = <<call>> /\ (replySent <=> RefusedHere(call) = <<>>)
    BY <2>1 DEF CallIsAtHand
  <2>3. replyCall[1] = call
    BY <2>2
  <2>4. replyOutcome' = Gotten(call, reply)
    BY <1>3, <2>3 DEF HostAnswersCall, Gotten
  <2> QED
    BY <2>1, <2>2, <2>4 DEF CallIsAtHand
<1> QED
  BY <1>1, <1>2, <1>3, RepliesOrNot DEF RepliesNext

\* So every answer is taken for what it is.
LEMMA AtHandIsTaken == CallIsAtHand => ReplyIsTaken
<1> SUFFICES ASSUME CallIsAtHand, replyCall # <<>> PROVE ReplyIsTaken
  BY DEF ReplyIsTaken
<1>1. PICK call \in Calls :
       /\ replyCall = <<call>>
       /\ replySent <=> RefusedHere(call) = <<>>
       /\ ~replySent => replyOutcome.settled = "rejects"
       /\ replyGot # <<>> => \E reply : replyGot = <<reply>> /\ replyOutcome = Gotten(call, reply)
  BY DEF CallIsAtHand
<1>2. replyCall[1] = call
  BY <1>1
<1>3. call.verb = "requestEdit" /\ Cardinality(call.names) > 1 => ~replySent
  <2>1. ASSUME call.verb = "requestEdit", Cardinality(call.names) > 1 PROVE RefusedHere(call) # <<>>
    BY <2>1 DEF RefusedHere
  <2> QED
    BY <1>1, <2>1
<1>4. CASE replyGot = <<>>
  BY <1>1, <1>2, <1>3, <1>4 DEF ReplyIsTaken
<1>5. CASE replyGot # <<>>
  <2>1. PICK reply : replyGot = <<reply>> /\ replyOutcome = Gotten(call, reply)
    BY <1>1, <1>5
  <2>2. replyGot[1] = reply
    BY <2>1
  <2>3. Taking(call, reply, replyOutcome)
    BY <2>1, GottenIsTaken
  <2> QED
    BY <1>1, <1>2, <1>3, <2>2, <2>3 DEF ReplyIsTaken, Taking, Quiet
<1> QED
  BY <1>4, <1>5

\* Every verb takes the answer of the host for what it is: a refusal throws with its code,
\* `.try` tells it, and no data that a verb needs is made up (protocolRefusal.ts:180).
THEOREM RepliesAreTaken == Spec => []ReplyIsTaken
<1>1. Init => CallIsAtHand
  BY DEF Init, RepliesInit, CallIsAtHand
<1> QED
  BY <1>1, CallStep, AtHandIsTaken, PTL DEF Spec

-----------------------------------------------------------------------------
(* Links. *)

\* A step is one of the links, or leaves what they hold alone.
LEMMA LinksOrNot ==
  ASSUME [Next]_vars
  PROVE  \/ LinksNext
         \/ UNCHANGED linkVars
BY PartStep

\* What was written a segment at a time is read as one path.
LEMMA FlattenedIsPath ==
  ASSUME NEW S, NEW path \in Seq(S)
  PROVE  FlattenSeq(Parts1(path)) = path
<1> DEFINE seqs == Parts1(path)
           body(f) == [i \in 1..Len(seqs) |-> IF i = 1 THEN seqs[i] ELSE f[i - 1] \o seqs[i]]
           read == [i \in 1..Len(seqs) |-> SubSeq(path, 1, i)]
<1>1. Len(seqs) = Len(path) /\ Len(path) \in Nat /\ DOMAIN path = 1..Len(path) /\ seqs \in Seq(Seq(S)) /\ \A i \in 1..Len(path) : seqs[i] = <<path[i]>>
  <2>1. Len(path) \in Nat /\ DOMAIN path = 1..Len(path)
    OBVIOUS
  <2>2. seqs = [k \in 1..Len(path) |-> <<path[k]>>]
    BY <2>1 DEF Parts1
  <2>3. \A k \in 1..Len(path) : <<path[k]>> \in Seq(S)
    OBVIOUS
  <2>4. seqs \in [1..Len(path) -> Seq(S)]
    BY <2>2, <2>3
  <2> HIDE DEF seqs
  <2>5. seqs \in Seq(Seq(S)) /\ Len(seqs) = Len(path)
    BY <2>1, <2>4
  <2> QED
    BY <2>1, <2>2, <2>5
<1>2. ASSUME NEW i \in 1..Len(path), i # 1
      PROVE  SubSeq(path, 1, i - 1) \o <<path[i]>> = SubSeq(path, 1, i)
  BY <1>1, <1>2
<1>3. 1 \in 1..Len(path) => SubSeq(path, 1, 1) = <<path[1]>>
  <2>1. \A m \in 1..Len(path) : <<path[m]>> = SubSeq(path, m, m)
    OBVIOUS
  <2> QED
    BY <2>1
<1> HIDE DEF seqs
<1>4. read = body(read)
  <2>1. \A i \in 1..Len(path) : read[i] = SubSeq(path, 1, i)
    BY <1>1
  <2>2. ASSUME NEW i \in 1..Len(path) PROVE read[i] = IF i = 1 THEN seqs[i] ELSE read[i - 1] \o seqs[i]
    <3>1. CASE i = 1
      BY <1>1, <1>3, <2>1, <3>1
    <3>2. CASE i # 1
      <4>1. i - 1 \in 1..Len(path)
        BY <1>1, <3>2
      <4> HIDE DEF read
      <4> QED
        BY <1>1, <1>2, <2>1, <3>2, <4>1
    <3> QED
      BY <3>1, <3>2
  <2>3. read = [i \in 1..Len(seqs) |-> read[i]]
    OBVIOUS
  <2> HIDE DEF read
  <2> QED
    BY <1>1, <2>2, <2>3
<1> HIDE DEF read, body
<1> DEFINE flatten == CHOOSE f : f = body(f)
<1>5. flatten = body(flatten)
  BY <1>4
<1> HIDE DEF flatten
<1>6. \A i \in 1..Len(path) : flatten[i] = IF i = 1 THEN seqs[i] ELSE flatten[i - 1] \o seqs[i]
  BY <1>1, <1>5 DEF body
<1>7. \A i \in 1..Len(path) : flatten[i] = SubSeq(path, 1, i)
  <2> DEFINE odd == {i \in 1..Len(path) : flatten[i] # SubSeq(path, 1, i)}
  <2>1. ASSUME odd # {} PROVE FALSE
    <3>0. odd \subseteq Nat
      OBVIOUS
    <3>1. PICK n \in odd : \A m \in odd : n <= m
      <4> HIDE DEF odd
      <4> QED
        BY <2>1, <3>0, LeastNatural
    <3>2. n # 1
      BY <1>1, <1>3, <1>6, <3>1
    <3>3. n \in 1..Len(path) /\ n - 1 \in 1..Len(path)
      BY <1>1, <3>1, <3>2
    <3>4. n - 1 \notin odd
      <4> HIDE DEF odd
      <4> QED
        BY <3>1, <3>3
    <3>5. flatten[n - 1] = SubSeq(path, 1, n - 1)
      BY <3>3, <3>4
    <3> QED
      BY <1>1, <1>2, <1>6, <3>1, <3>2, <3>3, <3>5
  <2> QED
    BY <2>1
<1>8. FlattenSeq(seqs) = IF Len(seqs) = 0 THEN seqs ELSE flatten[Len(seqs)]
  BY DEF FlattenSeq, flatten, body
<1>9. CASE Len(path) = 0
  BY <1>1, <1>8, <1>9 DEF seqs, Parts1
<1>10. CASE Len(path) # 0
  <2>1. Len(path) \in 1..Len(path) /\ SubSeq(path, 1, Len(path)) = path
    BY <1>1, <1>10
  <2> QED
    BY <1>1, <1>7, <1>8, <1>10, <2>1 DEF seqs
<1> QED
  BY <1>9, <1>10

\* A sequence in front of another: its elements come first, and the rest is the other.
LEMMA Joined ==
  ASSUME NEW T, NEW a \in Seq(T), NEW b \in Seq(T)
  PROVE  /\ a \o b \in Seq(T) /\ Len(a \o b) = Len(a) + Len(b)
         /\ \A i \in 1..Len(a) : (a \o b)[i] = a[i]
<1>1. Len(a) \in Nat /\ Len(b) \in Nat
  OBVIOUS
<1>2. a \o b \in Seq(T) /\ Len(a \o b) = Len(a) + Len(b)
  OBVIOUS
<1>3. \A i \in 1..Len(a) : (a \o b)[i] = a[i]
  OBVIOUS
<1> QED
  BY <1>2, <1>3

\* What follows the first elements of a joined sequence.
LEMMA JoinedRest ==
  ASSUME NEW T, NEW a \in Seq(T), NEW b \in Seq(T), NEW n, n = Len(a)
  PROVE  /\ \A i \in 1..Len(b) : (a \o b)[n + i] = b[i]
         /\ SubSeq(a \o b, n + 1, Len(a \o b)) = b
<1>1. Len(a) \in Nat /\ Len(b) \in Nat
  OBVIOUS
<1>2. a \o b \in Seq(T) /\ Len(a \o b) = Len(a) + Len(b)
  OBVIOUS
<1>4. \A i \in 1..Len(b) : (a \o b)[Len(a) + i] = b[i]
  OBVIOUS
<1>5. SubSeq(a \o b, Len(a) + 1, Len(a \o b)) = b
  BY <1>1, <1>2
<1> QED
  BY <1>4, <1>5

\* The URL of a page, segment by segment.
LEMMA UrlIs ==
  ASSUME NEW nav, NEW S, nav.sandboxPath \in Seq(S)
  PROVE  LET url == ConstructUrl(nav)
         IN  /\ url.segs \in Seq({<<nav.repository>>, nav.ref} \union ToSet(Parts1(nav.sandboxPath)))
             /\ Len(url.segs) = 2 + Len(nav.sandboxPath)
             /\ url.segs[1] = <<nav.repository>> /\ url.segs[2] = nav.ref
             /\ SubSeq(url.segs, 3, Len(url.segs)) = Parts1(nav.sandboxPath)
             /\ url.slash = (nav.sandboxPath = <<>>) /\ url.hash = nav.hash
<1> DEFINE head == << <<nav.repository>> >>
           second == <<nav.ref>>
           tail == Parts1(nav.sandboxPath)
           url == ConstructUrl(nav)
           T == {<<nav.repository>>, nav.ref} \union ToSet(tail)
<1>1. url.segs = head \o second \o tail /\ url.slash = (nav.sandboxPath = <<>>) /\ url.hash = nav.hash
  BY DEF ConstructUrl, EncodeRef
<1>2. DOMAIN nav.sandboxPath = 1..Len(nav.sandboxPath) /\ Len(nav.sandboxPath) \in Nat
  OBVIOUS
<1>3. tail \in Seq(T) /\ Len(tail) = Len(nav.sandboxPath)
  <2>1. tail = [k \in 1..Len(nav.sandboxPath) |-> <<nav.sandboxPath[k]>>]
    BY <1>2 DEF Parts1
  <2>2. \A k \in 1..Len(nav.sandboxPath) : tail[k] \in ToSet(tail)
    BY <2>1 DEF ToSet
  <2>3. tail \in [1..Len(nav.sandboxPath) -> T]
    BY <2>1, <2>2
  <2> HIDE DEF tail, T
  <2> QED
    BY <1>2, <2>3
<1>4. head \in Seq(T) /\ second \in Seq(T) /\ Len(head) = 1 /\ Len(second) = 1 /\ head[1] = <<nav.repository>> /\ second[1] = nav.ref
  <2> HIDE DEF tail
  <2> QED
    OBVIOUS
<1> HIDE DEF head, second, tail, T, url
<1> DEFINE start == head \o second
<1>5. start \in Seq(T) /\ Len(start) = 2 /\ start[1] = <<nav.repository>> /\ start[2] = nav.ref
  <2>1. head \o second \in Seq(T) /\ Len(head \o second) = Len(head) + Len(second)
    BY <1>4, Joined
  <2>2. \A i \in 1..Len(head) : (head \o second)[i] = head[i]
    BY <1>4, Joined
  <2>3. (head \o second)[2] = second[1]
    <3>1. SubSeq(head \o second, 1 + 1, Len(head \o second)) = second
      BY <1>4, JoinedRest
    <3> QED
      BY <1>4, <2>1, <3>1
  <2> QED
    BY <1>4, <2>1, <2>2, <2>3
<1> HIDE DEF start
<1>6. start \o tail \in Seq(T) /\ Len(start \o tail) = 2 + Len(tail) /\ (start \o tail)[1] = start[1] /\ (start \o tail)[2] = start[2]
  <2>1. start \o tail \in Seq(T) /\ Len(start \o tail) = Len(start) + Len(tail)
    BY <1>3, <1>5, Joined
  <2>2. \A i \in 1..Len(start) : (start \o tail)[i] = start[i]
    BY <1>3, <1>5, Joined
  <2> QED
    BY <1>5, <2>1, <2>2
<1>7. SubSeq(start \o tail, 3, Len(start \o tail)) = tail
  <2>1. SubSeq(start \o tail, 2 + 1, Len(start \o tail)) = tail
    BY <1>3, <1>5, JoinedRest
  <2> QED
    BY <1>5, <2>1
<1> QED
  BY <1>1, <1>3, <1>5, <1>6, <1>7 DEF start, url, tail, T

\* A path as URLs write it, which writing it again leaves alone.
LEMMA UrlPath ==
  /\ \A path \in LinkPaths : /\ path \in Seq(LinkNames) /\ DOMAIN path = 1..Len(path)
                             /\ InUrl(path) \in BoundedSeq(UrlNames, MaxLinkSegments)
  /\ \A path \in BoundedSeq(UrlNames, MaxLinkSegments) : path \in LinkPaths /\ InUrl(path) = path
<1>1. ASSUME NEW path \in LinkPaths
      PROVE  /\ path \in Seq(LinkNames) /\ DOMAIN path = 1..Len(path)
             /\ InUrl(path) \in BoundedSeq(UrlNames, MaxLinkSegments)
  <2>1. PICK m \in 0..MaxLinkSegments : path \in [1..m -> LinkNames]
    BY DEF LinkPaths, BoundedSeq, SeqOf
  <2>2. m \in Nat
    OBVIOUS
  <2>3. InUrl(path) \in [1..m -> UrlNames]
    BY <2>1, LinksAssumption DEF InUrl, UrlForm, UrlNames
  <2> QED
    BY <2>1, <2>2, <2>3 DEF BoundedSeq, SeqOf
<1>2. ASSUME NEW path \in BoundedSeq(UrlNames, MaxLinkSegments)
      PROVE  path \in LinkPaths /\ InUrl(path) = path
  <2>1. PICK m \in 0..MaxLinkSegments : path \in [1..m -> UrlNames]
    BY DEF BoundedSeq, SeqOf
  <2>2. path \in [1..m -> LinkNames]
    BY <2>1 DEF UrlNames
  <2> QED
    BY <2>1, <2>2 DEF LinkPaths, BoundedSeq, SeqOf, InUrl, UrlForm, UrlNames
<1> QED
  BY <1>1, <1>2

\* What a page is made of.
LEMMA PageIs ==
  ASSUME NEW nav, nav \in Pages \/ nav \in LinkedPages
  PROVE  /\ nav = [repository |-> nav.repository, ref |-> nav.ref, sandboxPath |-> nav.sandboxPath, hash |-> nav.hash]
         /\ nav.repository \in Repositories /\ nav.ref \in Refs /\ nav.hash \in Hashes
         /\ nav.sandboxPath \in LinkPaths /\ nav.sandboxPath \in Seq(LinkNames)
BY UrlPath DEF Pages, LinkedPages

\* parseHref gives back the page constructUrl was given, with or without its slash, whatever
\* is in its ref, the path as URLs write it.
LEMMA PageIsRead ==
  ASSUME NEW S, NEW nav, nav.sandboxPath \in Seq(S),
         NEW url, url.segs = ConstructUrl(nav).segs, url.hash = ConstructUrl(nav).hash
  PROVE  ParseHref(url) = [repository |-> nav.repository, ref |-> nav.ref, sandboxPath |-> InUrl(nav.sandboxPath), hash |-> nav.hash]
<1> DEFINE path == nav.sandboxPath
<1>1. path \in Seq(S)
  OBVIOUS
<1>2. /\ Len(url.segs) = 2 + Len(path) /\ url.segs[1] = <<nav.repository>> /\ url.segs[2] = nav.ref
      /\ SubSeq(url.segs, 3, Len(url.segs)) = Parts1(path) /\ url.hash = nav.hash
  BY UrlIs
<1> HIDE DEF path
<1>3. ~(Len(url.segs) < 2)
  BY <1>1, <1>2
<1>4. url.segs[1][1] = nav.repository
  BY <1>2
<1>5. ParseHref(url) = [repository |-> nav.repository, ref |-> nav.ref, sandboxPath |-> InUrl(FlattenSeq(Parts1(path))), hash |-> nav.hash]
  BY <1>2, <1>3, <1>4 DEF ParseHref
<1>6. FlattenSeq(Parts1(path)) = path
  BY <1>1, FlattenedIsPath
<1> QED
  BY <1>5, <1>6 DEF path

\* Two segments are in front of a URL exactly if they are its first two.
LEMMA TwoInFront ==
  ASSUME NEW T, NEW U, NEW s \in Seq(T), NEW t \in Seq(U), Len(s) = 2, Len(t) >= 2
  PROVE  IsPrefix(s, t) <=> s[1] = t[1] /\ s[2] = t[2]
<1> DEFINE a == SubSeq(s, 1, 2)
           b == SubSeq(t, 1, 2)
<1>1. Len(a) = 2 /\ a[1] = s[1] /\ a[2] = s[2] /\ a = [i \in 1..2 |-> s[i]]
  OBVIOUS
<1>2. Len(b) = 2 /\ b[1] = t[1] /\ b[2] = t[2] /\ b = [i \in 1..2 |-> t[i]]
  OBVIOUS
<1>3. IsPrefix(s, t) <=> a = b
  BY DEF IsPrefix
<1> HIDE DEF a, b
<1>4. s[1] = t[1] /\ s[2] = t[2] => a = b
  BY <1>1, <1>2
<1> QED
  BY <1>1, <1>2, <1>3, <1>4

\* isInternalHref tells the pages of this repository and ref from all others, if there is a slash
\* behind the ref.
LEMMA InternalIs ==
  ASSUME NEW other, other \in LinkedPages, NEW nav \in Pages, NEW slash \in BOOLEAN, other.sandboxPath # <<>> => slash
  PROVE  IsInternalHref([ConstructUrl(other) EXCEPT !.slash = @ /\ slash], nav)
           <=> other.repository = nav.repository /\ other.ref = nav.ref /\ slash
<1> DEFINE top == [nav EXCEPT !.sandboxPath = <<>>, !.hash = NoText]
           prefix == ConstructUrl(top)
           whole == ConstructUrl(other)
           url == [whole EXCEPT !.slash = @ /\ slash]
<1>1. top.repository = nav.repository /\ top.ref = nav.ref /\ top.sandboxPath = <<>>
  BY PageIs DEF Pages
<1> HIDE DEF top
<1>2. top.sandboxPath \in Seq(LinkNames) /\ Len(top.sandboxPath) = 0
  BY <1>1
<1>3. /\ prefix.segs \in Seq({<<top.repository>>, top.ref} \union ToSet(Parts1(top.sandboxPath)))
      /\ Len(prefix.segs) = 2 /\ prefix.segs[1] = <<top.repository>> /\ prefix.segs[2] = top.ref
  <2>1. prefix.segs \in Seq({<<top.repository>>, top.ref} \union ToSet(Parts1(top.sandboxPath)))
    BY <1>2, UrlIs
  <2>2. Len(prefix.segs) = 2 + Len(top.sandboxPath) /\ prefix.segs[1] = <<top.repository>> /\ prefix.segs[2] = top.ref
    BY <1>2, UrlIs
  <2> HIDE DEF prefix
  <2> QED
    BY <1>2, <2>1, <2>2
<1>4. other.sandboxPath \in Seq(LinkNames)
  BY PageIs
<1>5. /\ url.segs \in Seq({<<other.repository>>, other.ref} \union ToSet(Parts1(other.sandboxPath)))
      /\ Len(url.segs) = 2 + Len(other.sandboxPath)
      /\ url.segs[1] = <<other.repository>> /\ url.segs[2] = other.ref
      /\ url.slash = ((other.sandboxPath = <<>>) /\ slash)
  <2>1. url.segs = whole.segs /\ url.slash = (whole.slash /\ slash)
    BY DEF ConstructUrl
  <2> HIDE DEF url
  <2> QED
    BY <1>4, <2>1, UrlIs
<1> HIDE DEF prefix, url
<1>6. Len(url.segs) >= 2
  BY <1>4, <1>5
<1>7. Len(url.segs) = Len(prefix.segs) <=> other.sandboxPath = <<>>
  BY <1>3, <1>4, <1>5
<1>8. IsPrefix(prefix.segs, url.segs) <=> prefix.segs[1] = url.segs[1] /\ prefix.segs[2] = url.segs[2]
  BY <1>3, <1>5, <1>6, TwoInFront
<1>9. prefix.segs[1] = url.segs[1] <=> nav.repository = other.repository
  BY <1>1, <1>3, <1>5
<1>10. prefix.segs[2] = url.segs[2] <=> nav.ref = other.ref
  BY <1>1, <1>3, <1>5
<1>11. IsInternalHref(url, nav) <=> IsPrefix(prefix.segs, url.segs) /\ (Len(url.segs) = Len(prefix.segs) => url.slash)
  BY DEF IsInternalHref, RepositoryPrefixURL, prefix, top
<1> QED
  BY <1>5, <1>7, <1>8, <1>9, <1>10, <1>11 DEF url

\* Another path and fragment on a page.
LEMMA OtherPath ==
  ASSUME NEW nav \in Pages, NEW path, NEW hash
  PROVE  [nav EXCEPT !.sandboxPath = path, !.hash = hash]
           = [repository |-> nav.repository, ref |-> nav.ref, sandboxPath |-> path, hash |-> hash]
<1> DEFINE there == [nav EXCEPT !.sandboxPath = path, !.hash = hash]
<1>1. there \in [repository : Repositories, ref : Refs, sandboxPath : LinkPaths \union {path}, hash : Hashes \union {hash}]
  BY DEF Pages
<1>2. there.repository = nav.repository /\ there.ref = nav.ref /\ there.sandboxPath = path /\ there.hash = hash
  BY DEF Pages
<1> HIDE DEF there
<1>3. there = [repository |-> nav.repository, ref |-> nav.ref, sandboxPath |-> path, hash |-> hash]
  BY <1>1, <1>2
<1> QED
  BY <1>3 DEF there

\* The URL of an absolute target is read as that target, on this page's repository and ref.
LEMMA AbsoluteIsRead ==
  ASSUME NEW nav \in Pages, NEW path \in LinkPaths, NEW hash \in Hashes
  PROVE  ParseHref(ConstructOuterUrl([path |-> path, hash |-> hash], nav))
           = [repository |-> nav.repository, ref |-> nav.ref, sandboxPath |-> <<FilesPrefix>> \o InUrl(path), hash |-> hash]
<1> DEFINE below == <<FilesPrefix>> \o path
           there == [nav EXCEPT !.sandboxPath = below, !.hash = hash]
           S == LinkNames \union {FilesPrefix}
<1>1. path \in Seq(S)
  BY UrlPath
<1>2. <<FilesPrefix>> \in Seq(S)
  OBVIOUS
<1> HIDE DEF S
<1>3. below \in Seq(S)
  BY <1>1, <1>2, Joined
<1> HIDE DEF below
<1>4. there = [repository |-> nav.repository, ref |-> nav.ref, sandboxPath |-> below, hash |-> hash]
  BY OtherPath
<1>6. ParseHref(ConstructUrl(there))
        = [repository |-> nav.repository, ref |-> nav.ref, sandboxPath |-> InUrl(below), hash |-> hash]
  <2> HIDE DEF there
  <2>1. there.repository = nav.repository /\ there.ref = nav.ref /\ there.sandboxPath = below /\ there.hash = hash
    BY <1>4
  <2> QED
    BY <1>3, <2>1, PageIsRead
<1>7. InUrl(below) = <<FilesPrefix>> \o InUrl(path)
  BY UrlPath, LinksAssumption DEF below, InUrl, UrlForm
<1> QED
  BY <1>6, <1>7 DEF ConstructOuterUrl, below

\* A link that was looked at is a link of the page, and its answer is what the code makes of it.
LinkIsAtHand ==
    /\ page \in Pages
    /\ linkAsked.kind = "url" =>
         /\ linkAsked.other \in LinkedPages /\ linkAsked.slash \in BOOLEAN
         /\ linkAsked.other.sandboxPath # <<>> => linkAsked.slash
         /\ linkAnswer.url = [ConstructUrl(linkAsked.other) EXCEPT !.slash = @ /\ linkAsked.slash]
         /\ linkAnswer.internal = IsInternalHref(linkAnswer.url, page)
    /\ linkAsked.kind = "absolute" =>
         /\ linkAsked.path \in LinkPaths /\ linkAsked.hash \in Hashes
         /\ linkAnswer = ConstructOuterUrl([path |-> linkAsked.path, hash |-> linkAsked.hash], page)
    /\ linkAsked.kind = "wiki" => linkAnswer.state = WikiState(linkAsked.link)
    /\ linkAsked.kind = "click" => linkAnswer.by = ClickedBy(linkAsked.anchor, linkAsked.click)

\* Every step keeps it.
LEMMA LinkStep == LinkIsAtHand /\ [Next]_vars => LinkIsAtHand'
<1> SUFFICES ASSUME LinkIsAtHand, [Next]_vars PROVE LinkIsAtHand'
  OBVIOUS
<1>1. CASE UNCHANGED linkVars
  BY <1>1 DEF linkVars, LinkIsAtHand
<1>2. CASE LinksNext
  <2>0. page' = page /\ page \in Pages
    BY <1>2 DEF LinksNext, LinkIsAtHand
  <2>1. ASSUME NEW other \in LinkedPages, NEW slash \in BOOLEAN, LookAtUrl(other, slash) PROVE LinkIsAtHand'
    BY <2>0, <2>1 DEF LookAtUrl, LinkIsAtHand
  <2>2. ASSUME NEW path \in LinkPaths, NEW hash \in Hashes, FollowAbsolute(path, hash) PROVE LinkIsAtHand'
    BY <2>0, <2>2 DEF FollowAbsolute, LinkIsAtHand
  <2>3. ASSUME NEW href \in Hrefs, FollowInBundle(href) PROVE LinkIsAtHand'
    BY <2>0, <2>3 DEF FollowInBundle, LinkIsAtHand
  <2>4. ASSUME NEW link \in WikiLinks, DrawWikiLink(link) PROVE LinkIsAtHand'
    BY <2>0, <2>4 DEF DrawWikiLink, LinkIsAtHand
  <2>5. ASSUME NEW anchor \in {"fragment", "internal", "platform", "plain"}, NEW click \in Clicks, ClickAnchor(anchor, click)
        PROVE  LinkIsAtHand'
    BY <2>0, <2>5 DEF ClickAnchor, LinkIsAtHand
  <2> QED
    BY <1>2, <2>1, <2>2, <2>3, <2>4, <2>5 DEF LinksNext
<1> QED
  BY <1>1, <1>2, LinksOrNot

\* So the URL of a page leads back to it.
LEMMA AtHandLeadsBack == LinkIsAtHand => UrlLeadsBack
<1> SUFFICES ASSUME LinkIsAtHand PROVE UrlLeadsBack
  OBVIOUS
<1>0. page \in Pages
  BY DEF LinkIsAtHand
<1>1. CASE linkAsked.kind = "url"
  <2> DEFINE other == linkAsked.other
             slash == linkAsked.slash
             read == [repository |-> other.repository, ref |-> other.ref, sandboxPath |-> InUrl(other.sandboxPath), hash |-> other.hash]
  <2>1. /\ other \in LinkedPages /\ slash \in BOOLEAN /\ (other.sandboxPath # <<>> => slash)
        /\ linkAnswer.url = [ConstructUrl(other) EXCEPT !.slash = @ /\ slash]
        /\ linkAnswer.internal = IsInternalHref(linkAnswer.url, page)
    BY <1>1 DEF LinkIsAtHand
  <2> HIDE DEF other, slash
  <2>2. /\ other = [repository |-> other.repository, ref |-> other.ref, sandboxPath |-> other.sandboxPath, hash |-> other.hash]
        /\ other.repository \in Repositories /\ other.ref \in Refs /\ other.hash \in Hashes
        /\ other.sandboxPath \in LinkPaths /\ other.sandboxPath \in Seq(LinkNames)
    BY <2>1, PageIs
  <2>3. linkAnswer.url.segs = ConstructUrl(other).segs /\ linkAnswer.url.hash = ConstructUrl(other).hash
    BY <2>1 DEF ConstructUrl
  <2>4. ParseHref(linkAnswer.url) = read
    BY <2>2, <2>3, PageIsRead
  <2>5. read = [other EXCEPT !.sandboxPath = InUrl(@)] /\ read \in Pages
    BY <2>1, <2>2, UrlPath DEF Pages, LinkedPages
  <2>6. other \in Pages => read = other
    BY <2>2, UrlPath DEF Pages
  <2>7. linkAnswer.internal <=> SameApp(other) /\ slash
    BY <1>0, <2>1, InternalIs DEF SameApp
  <2> HIDE DEF read
  <2> QED
    BY <1>1, <2>4, <2>5, <2>6, <2>7 DEF UrlLeadsBack, other, slash
<1>2. CASE linkAsked.kind = "absolute"
  <2>1. /\ linkAsked.path \in LinkPaths /\ linkAsked.hash \in Hashes
        /\ linkAnswer = ConstructOuterUrl([path |-> linkAsked.path, hash |-> linkAsked.hash], page)
    BY <1>2 DEF LinkIsAtHand
  <2>2. ParseHref(linkAnswer) = [page EXCEPT !.sandboxPath = <<FilesPrefix>> \o InUrl(linkAsked.path), !.hash = linkAsked.hash]
    <3> DEFINE path == linkAsked.path
               hash == linkAsked.hash
    <3>1. path \in LinkPaths /\ hash \in Hashes /\ linkAnswer = ConstructOuterUrl([path |-> path, hash |-> hash], page)
      BY <2>1
    <3> HIDE DEF path, hash
    <3>2. ParseHref(ConstructOuterUrl([path |-> path, hash |-> hash], page)) = [repository |-> page.repository, ref |-> page.ref, sandboxPath |-> <<FilesPrefix>> \o InUrl(path), hash |-> hash]
      BY <1>0, <3>1, AbsoluteIsRead
    <3>3. [page EXCEPT !.sandboxPath = <<FilesPrefix>> \o InUrl(path), !.hash = hash]
            = [repository |-> page.repository, ref |-> page.ref, sandboxPath |-> <<FilesPrefix>> \o InUrl(path), hash |-> hash]
      BY <1>0, OtherPath
    <3> QED
      BY <3>1, <3>2, <3>3 DEF path, hash
  <2> QED
    BY <1>2, <2>2 DEF UrlLeadsBack
<1>3. CASE linkAsked.kind # "url" /\ linkAsked.kind # "absolute"
  BY <1>3 DEF UrlLeadsBack
<1> QED
  BY <1>1, <1>2, <1>3

\* So a link is drawn and clicked as it stands.
LEMMA AtHandAgree == LinkIsAtHand => LinkStatesAgree
<1> SUFFICES ASSUME LinkIsAtHand PROVE LinkStatesAgree
  OBVIOUS
<1>1. CASE linkAsked.kind = "wiki"
  BY <1>1 DEF LinkIsAtHand, LinkStatesAgree, WikiState
<1>2. CASE linkAsked.kind = "click"
  BY <1>2 DEF LinkIsAtHand, LinkStatesAgree, ClickedBy
<1>3. CASE linkAsked.kind # "wiki" /\ linkAsked.kind # "click"
  BY <1>3 DEF LinkStatesAgree
<1> QED
  BY <1>1, <1>2, <1>3

\* No link was looked at before the first step.
LEMMA LinkInitially == Init => LinkIsAtHand
BY DEF Init, LinksInit, LinkIsAtHand, NoLink

\* The URL of a page leads back to it, slashes in its ref and all, its path as URLs write it
\* (urlUtils.ts:205), and of the URLs with a slash behind the ref those of the same repository
\* and ref are told from all others (urlUtils.ts:87).
THEOREM UrlsLeadBack == Spec => []UrlLeadsBack
<1> QED
  BY LinkInitially, LinkStep, AtHandLeadsBack, PTL DEF Spec

\* A link that leads nowhere is drawn broken, and no plain click on an in-app or platform link
\* has the browser move the app's frame (WikiLink.tsx:48, Link.tsx:42, platformLink.tsx:33).
THEOREM LinkStatesAreAgreed == Spec => []LinkStatesAgree
<1> QED
  BY LinkInitially, LinkStep, AtHandAgree, PTL DEF Spec

-----------------------------------------------------------------------------
(* The state the host pushes. *)

\* A step is one of the pushes, or leaves what they hold alone.
LEMMA SnapshotsOrNot ==
  ASSUME [Next]_vars
  PROVE  \/ SnapshotsNext
         \/ UNCHANGED snapshotVars
BY PartStep

\* A rule that lets through what the interface allows, keeps a good field and refuses a push
\* for a field only that must be there.
Lawful(rule, allowed) == \A raw \in Raws : rule[raw] = "refused" \/ rule[raw] \in allowed
\* A rule that keeps a good field.
Keeping(rule) == rule["valid"] = "valid"
\* A rule that refuses a push for a field only that must be there.
Sparing(rule, allowed) == \A raw \in Raws : rule[raw] = "refused" => raw \notin allowed /\ "absent" \notin allowed
\* A rule that fits what the interface allows.
Fitting(rule, allowed) == Lawful(rule, allowed) /\ Keeping(rule) /\ Sparing(rule, allowed) /\ "valid" \in allowed

\* The rules that look at what they are given fit.
LEMMA RulesFit ==
  /\ Fitting(Required, Must) /\ Fitting(RequiredOrNull, OrNull) /\ Fitting(Optional, OrAbsent)
  /\ Fitting(Optional, Maybe) /\ Fitting(OptionalOrNull, Maybe) /\ Fitting(Nulled, OrNull)
  /\ Fitting(Defaulted, Must) /\ Fitting(Deciding, {"valid", "off"}) /\ Fitting(Usable, OrAbsent)
<1> USE DEF Fitting, Lawful, Keeping, Sparing, Rule, Raws, Missed, Must, OrNull, OrAbsent, Maybe
<1>1. Fitting(Required, Must)
  BY DEF Required
<1>2. Fitting(RequiredOrNull, OrNull)
  BY DEF RequiredOrNull
<1>3. Fitting(Optional, OrAbsent)
  BY DEF Optional
<1>4. Fitting(Optional, Maybe)
  BY DEF Optional
<1>5. Fitting(OptionalOrNull, Maybe)
  BY DEF OptionalOrNull
<1>6. Fitting(Nulled, OrNull)
  BY DEF Nulled
<1>7. Fitting(Defaulted, Must)
  BY DEF Defaulted
<1>8. Fitting(Deciding, {"valid", "off"})
  BY DEF Deciding
<1>9. Fitting(Usable, OrAbsent)
  BY DEF Usable
<1> QED
  BY <1>1, <1>2, <1>3, <1>4, <1>5, <1>6, <1>7, <1>8, <1>9

\* What a rule keeps without a look, it keeps if it is good and spares if it is not.
LEMMA UnreadRules ==
  /\ Keeping(NulledUnread) /\ Sparing(NulledUnread, OrNull)
  /\ Keeping(DefaultedUnread) /\ Sparing(DefaultedUnread, Must)
  /\ Keeping(RequiredUnread) /\ Sparing(RequiredUnread, Must)
  /\ Keeping(RequiredForeign) /\ Sparing(RequiredForeign, Must)
  /\ Keeping(AsSent) /\ Sparing(AsSent, Must)
  /\ Keeping(RequiredString) /\ Sparing(RequiredString, Must)
  /\ Lawful(AbsentOrRefused, OrAbsent) /\ Keeping(AbsentOrRefused)
<1> USE DEF Lawful, Keeping, Sparing, Rule, Raws, Missed, Must, OrNull, OrAbsent
<1>1. Keeping(NulledUnread) /\ Sparing(NulledUnread, OrNull)
  BY DEF NulledUnread
<1>2. Keeping(DefaultedUnread) /\ Sparing(DefaultedUnread, Must)
  BY DEF DefaultedUnread
<1>3. Keeping(RequiredUnread) /\ Sparing(RequiredUnread, Must)
  BY DEF RequiredUnread
<1>4. Keeping(RequiredForeign) /\ Sparing(RequiredForeign, Must)
  BY DEF RequiredForeign
<1>5. Keeping(AsSent) /\ Sparing(AsSent, Must)
  BY DEF AsSent
<1>6. Lawful(AbsentOrRefused, OrAbsent) /\ Keeping(AbsentOrRefused)
  BY DEF AbsentOrRefused
<1>7. Keeping(RequiredString) /\ Sparing(RequiredString, Must)
  BY DEF RequiredString
<1> QED
  BY <1>1, <1>2, <1>3, <1>4, <1>5, <1>6, <1>7

\* What may be said of the rule of a field.
FieldIsGood(shape, f, rule, allowed) ==
  /\ Keeping(rule) /\ "valid" \in allowed
  /\ <<shape, f>> \notin Unchecked => Lawful(rule, allowed)
  /\ shape \notin AllOrNothing => Sparing(rule, allowed)

\* The fields no parser looks into.
LEMMA UncheckedAre ==
  /\ <<"VcsChange", "status">> \in Unchecked
  /\ \A f \in {"branch", "prs"} : <<"VcsState", f>> \in Unchecked
  /\ \A f \in {"buildErrors", "consoleEntries", "provenance"} : <<"Diagnostics", f>> \in Unchecked
  /\ \A f \in {"providerId", "hostVouched", "features"} : <<"ChatProviderInfo", f>> \in Unchecked
BY DEF Unchecked

\* A good field is always allowed.
LEMMA ValidIsAllowed == "valid" \in Must /\ "valid" \in OrNull /\ "valid" \in OrAbsent /\ "valid" \in Maybe
BY DEF Must, OrNull, OrAbsent, Maybe

\* The parser of the VCS state.
LEMMA VcsIsGood ==
  /\ DOMAIN VcsRules = DOMAIN VcsDeclared
  /\ \A f \in DOMAIN VcsDeclared : FieldIsGood("VcsState", f, VcsRules[f], VcsDeclared[f])
<1> USE DEF VcsRules, VcsDeclared
<1>1. DOMAIN VcsRules = DOMAIN VcsDeclared
  OBVIOUS
<1>2. \A f \in DOMAIN VcsDeclared \ {"branch", "prs"} : Fitting(VcsRules[f], VcsDeclared[f])
  BY RulesFit
<1>3. \A f \in {"branch", "prs"} : Keeping(VcsRules[f]) /\ Sparing(VcsRules[f], VcsDeclared[f]) /\ "valid" \in VcsDeclared[f]
  BY UnreadRules, ValidIsAllowed
<1> HIDE DEF VcsRules, VcsDeclared
<1> QED
  BY <1>1, <1>2, <1>3, UncheckedAre DEF FieldIsGood, Fitting

\* The shapes every field of which has a rule that fits.
TableFits(rules, declared) == DOMAIN rules = DOMAIN declared /\ \A f \in DOMAIN declared : Fitting(rules[f], declared[f])

\* The parsers that look at every field.
LEMMA TablesFit ==
  /\ TableFits(SelectionRules, SelectionDeclared)
  /\ TableFits(ThemeCatalogEntryRules, ThemeCatalogEntryDeclared)
  /\ TableFits(WorkspaceRules, WorkspaceDeclared)
  /\ TableFits(FsChangeRules, FsChangeDeclared)
  /\ TableFits(AuthRules, AuthDeclared)
  /\ TableFits(FormFactorRules, FormFactorDeclared)
  /\ TableFits(ChromeRules, ChromeDeclared)
  /\ TableFits(EditorContextRules, EditorContextDeclared)
  /\ TableFits(HostAttentionRules, HostAttentionDeclared)
  /\ TableFits(ModelInfoRules, ModelInfoDeclared)
  /\ TableFits(FeaturesRules, FeaturesDeclared)
  /\ TableFits(KindModelRules, KindModelDeclared)
  /\ TableFits(ChoiceRules, ChoiceDeclared)
  /\ TableFits(VcsPartsRules.VcsTarget, VcsPartsDeclared.VcsTarget)
  /\ TableFits(SpacesRules.SpacesModeState, SpacesDeclared.SpacesModeState)
  /\ TableFits(SpacesRules.SpacesModeSpace, SpacesDeclared.SpacesModeSpace)
<1>1. TableFits(SelectionRules, SelectionDeclared)
  BY RulesFit DEF TableFits, SelectionRules, SelectionDeclared
<1>2. TableFits(ThemeCatalogEntryRules, ThemeCatalogEntryDeclared)
  BY RulesFit DEF TableFits, ThemeCatalogEntryRules, ThemeCatalogEntryDeclared
<1>3. TableFits(WorkspaceRules, WorkspaceDeclared)
  BY RulesFit DEF TableFits, WorkspaceRules, WorkspaceDeclared
<1>4. TableFits(FsChangeRules, FsChangeDeclared)
  BY RulesFit DEF TableFits, FsChangeRules, FsChangeDeclared
<1>5. TableFits(AuthRules, AuthDeclared)
  BY RulesFit DEF TableFits, AuthRules, AuthDeclared
<1>6. TableFits(FormFactorRules, FormFactorDeclared)
  BY RulesFit DEF TableFits, FormFactorRules, FormFactorDeclared
<1>7. TableFits(ChromeRules, ChromeDeclared)
  BY RulesFit DEF TableFits, ChromeRules, ChromeDeclared
<1>8. TableFits(EditorContextRules, EditorContextDeclared)
  BY RulesFit DEF TableFits, EditorContextRules, EditorContextDeclared
<1>9. TableFits(HostAttentionRules, HostAttentionDeclared)
  BY RulesFit DEF TableFits, HostAttentionRules, HostAttentionDeclared
<1>10. TableFits(ModelInfoRules, ModelInfoDeclared)
  BY RulesFit DEF TableFits, ModelInfoRules, ModelInfoDeclared
<1>11. TableFits(FeaturesRules, FeaturesDeclared)
  BY RulesFit DEF TableFits, FeaturesRules, FeaturesDeclared
<1>12. TableFits(KindModelRules, KindModelDeclared)
  BY RulesFit DEF TableFits, KindModelRules, KindModelDeclared
<1>13. TableFits(ChoiceRules, ChoiceDeclared)
  BY RulesFit DEF TableFits, ChoiceRules, ChoiceDeclared
<1>14. TableFits(VcsPartsRules.VcsTarget, VcsPartsDeclared.VcsTarget)
  BY RulesFit DEF TableFits, VcsPartsRules, VcsPartsDeclared
<1>15. TableFits(SpacesRules.SpacesModeState, SpacesDeclared.SpacesModeState)
  BY RulesFit DEF TableFits, SpacesRules, SpacesDeclared
<1>16. TableFits(SpacesRules.SpacesModeSpace, SpacesDeclared.SpacesModeSpace)
  BY RulesFit DEF TableFits, SpacesRules, SpacesDeclared
<1> QED
  BY <1>1, <1>2, <1>3, <1>4, <1>5, <1>6, <1>7, <1>8, <1>9, <1>10, <1>11, <1>12, <1>13, <1>14, <1>15, <1>16

\* The fields of a shape are good, and its table tells of each of them.
ShapeIsGood(shape, rules, declared) ==
  /\ DOMAIN rules = DOMAIN declared
  /\ \A f \in DOMAIN declared : FieldIsGood(shape, f, rules[f], declared[f])

\* They are good.
LEMMA FitIsGood ==
  ASSUME NEW shape, NEW rules, NEW declared, TableFits(rules, declared)
  PROVE  ShapeIsGood(shape, rules, declared)
BY DEF TableFits, ShapeIsGood, FieldIsGood, Fitting

\* The shapes that are refused for a field that may be left out.
LEMMA AllOrNothingAre == "SpacesRoute" \in AllOrNothing /\ "VcsAgentSession" \in AllOrNothing
BY DEF AllOrNothing

\* Those parsers are good all the same.
LEMMA WholesAreGood ==
  /\ ShapeIsGood("VcsAgentSession", VcsPartsRules.VcsAgentSession, VcsPartsDeclared.VcsAgentSession)
  /\ ShapeIsGood("SpacesRoute", SpacesRules.SpacesRoute, SpacesDeclared.SpacesRoute)
<1>1. ShapeIsGood("VcsAgentSession", VcsPartsRules.VcsAgentSession, VcsPartsDeclared.VcsAgentSession)
  <2> DEFINE rules == VcsPartsRules.VcsAgentSession
  <2> DEFINE declared == VcsPartsDeclared.VcsAgentSession
  <2>1. DOMAIN rules = DOMAIN declared /\ "updatedAt" \in DOMAIN declared
    BY DEF VcsPartsRules, VcsPartsDeclared
  <2>2. \A f \in DOMAIN declared \ {"updatedAt"} : Fitting(rules[f], declared[f])
    BY RulesFit DEF VcsPartsRules, VcsPartsDeclared
  <2>3. rules["updatedAt"] = AbsentOrRefused /\ declared["updatedAt"] = OrAbsent
    BY DEF VcsPartsRules, VcsPartsDeclared
  <2> HIDE DEF rules, declared
  <2>4. ShapeIsGood("VcsAgentSession", rules, declared)
    BY <2>1, <2>2, <2>3, UnreadRules, ValidIsAllowed, AllOrNothingAre DEF ShapeIsGood, FieldIsGood, Fitting
  <2> QED
    BY <2>4 DEF rules, declared
<1>2. ShapeIsGood("SpacesRoute", SpacesRules.SpacesRoute, SpacesDeclared.SpacesRoute)
  <2> DEFINE rules == SpacesRules.SpacesRoute
  <2> DEFINE declared == SpacesDeclared.SpacesRoute
  <2>1. DOMAIN rules = DOMAIN declared
    BY DEF SpacesRules, SpacesDeclared
  <2>2. \A f \in DOMAIN declared \ {"path", "roomId", "member", "section"} : Fitting(rules[f], declared[f])
    BY RulesFit DEF SpacesRules, SpacesDeclared
  <2>3. \A f \in {"path", "roomId", "member", "section"} : rules[f] = AbsentOrRefused /\ declared[f] = OrAbsent
    BY DEF SpacesRules, SpacesDeclared
  <2> HIDE DEF rules, declared
  <2>4. ShapeIsGood("SpacesRoute", rules, declared)
    BY <2>1, <2>2, <2>3, UnreadRules, ValidIsAllowed, AllOrNothingAre DEF ShapeIsGood, FieldIsGood, Fitting
  <2> QED
    BY <2>4 DEF rules, declared
<1> QED
  BY <1>1, <1>2

\* The parser of a change.
LEMMA ChangeIsGood == ShapeIsGood("VcsChange", VcsPartsRules.VcsChange, VcsPartsDeclared.VcsChange)
<1> DEFINE rules == VcsPartsRules.VcsChange
           declared == VcsPartsDeclared.VcsChange
<1>1. DOMAIN rules = {"path", "status"} /\ DOMAIN declared = {"path", "status"}
  BY DEF VcsPartsRules, VcsPartsDeclared
<1>2. rules["path"] = Required /\ rules["status"] = RequiredString /\ declared["path"] = Must /\ declared["status"] = Must
  BY DEF VcsPartsRules, VcsPartsDeclared
<1> HIDE DEF rules, declared
<1>3. ShapeIsGood("VcsChange", rules, declared)
  BY <1>1, <1>2, RulesFit, UnreadRules, UncheckedAre, ValidIsAllowed DEF ShapeIsGood, FieldIsGood, Fitting
<1> QED
  BY <1>3 DEF rules, declared

\* The parser of the diagnostics.
LEMMA DiagnosticsAreGood == ShapeIsGood("Diagnostics", DiagnosticsRules, DiagnosticsDeclared)
<1> USE DEF DiagnosticsRules, DiagnosticsDeclared
<1>1. DOMAIN DiagnosticsRules = DOMAIN DiagnosticsDeclared
  OBVIOUS
<1>2. \A f \in DOMAIN DiagnosticsDeclared : f \in {"buildErrors", "consoleEntries", "provenance"}
  OBVIOUS
<1>3. \A f \in DOMAIN DiagnosticsDeclared :
        Keeping(DiagnosticsRules[f]) /\ Sparing(DiagnosticsRules[f], DiagnosticsDeclared[f]) /\ "valid" \in DiagnosticsDeclared[f]
  BY UnreadRules, ValidIsAllowed
<1> HIDE DEF DiagnosticsRules, DiagnosticsDeclared
<1> QED
  BY <1>1, <1>2, <1>3, UncheckedAre DEF ShapeIsGood, FieldIsGood

\* The parser of the chat provider.
LEMMA ProviderIsGood == ShapeIsGood("ChatProviderInfo", ProviderRules, ProviderDeclared)
<1> USE DEF ProviderRules, ProviderDeclared
<1>1. DOMAIN ProviderRules = DOMAIN ProviderDeclared
  OBVIOUS
<1>2. \A f \in DOMAIN ProviderDeclared \ {"providerId", "hostVouched", "features"} : Fitting(ProviderRules[f], ProviderDeclared[f])
  BY RulesFit
<1>3. \A f \in {"providerId", "hostVouched", "features"} :
        Keeping(ProviderRules[f]) /\ Sparing(ProviderRules[f], ProviderDeclared[f]) /\ "valid" \in ProviderDeclared[f]
  BY UnreadRules, ValidIsAllowed
<1> HIDE DEF ProviderRules, ProviderDeclared
<1> QED
  BY <1>1, <1>2, <1>3, UncheckedAre DEF ShapeIsGood, FieldIsGood, Fitting

\* Every parser is good.
LEMMA EveryShapeIsGood ==
  /\ DOMAIN Rules = DOMAIN Declared
  /\ \A shape \in DOMAIN Declared : ShapeIsGood(shape, Rules[shape], Declared[shape])
<1>1. DOMAIN Rules = DOMAIN Declared
  BY DEF Rules, Declared
<1>2. ASSUME NEW shape \in DOMAIN Declared
      PROVE  ShapeIsGood(shape, Rules[shape], Declared[shape])
  <2> USE DEF Rules, Declared
  <2>1. CASE shape = "HostThemeSelection"
    BY <2>1, TablesFit, FitIsGood
  <2>2. CASE shape = "ThemeCatalogEntry"
    BY <2>2, TablesFit, FitIsGood
  <2>3. CASE shape = "Workspace"
    BY <2>3, TablesFit, FitIsGood
  <2>4. CASE shape = "FsChange"
    BY <2>4, TablesFit, FitIsGood
  <2>5. CASE shape = "AuthState"
    BY <2>5, TablesFit, FitIsGood
  <2>6. CASE shape = "FormFactor"
    BY <2>6, TablesFit, FitIsGood
  <2>7. CASE shape = "ChromeState"
    BY <2>7, TablesFit, FitIsGood
  <2>8. CASE shape = "EditorContext"
    BY <2>8, TablesFit, FitIsGood
  <2>9. CASE shape = "HostAttention"
    BY <2>9, TablesFit, FitIsGood
  <2>10. CASE shape = "ChatModelInfo"
    BY <2>10, TablesFit, FitIsGood
  <2>11. CASE shape = "ChatFeatures"
    BY <2>11, TablesFit, FitIsGood
  <2>12. CASE shape = "KindModelInfo"
    BY <2>12, TablesFit, FitIsGood
  <2>13. CASE shape = "ChatProviderChoice"
    BY <2>13, TablesFit, FitIsGood
  <2>14. CASE shape = "VcsChange"
    BY <2>14, ChangeIsGood
  <2>15. CASE shape = "VcsTarget"
    BY <2>15, TablesFit, FitIsGood
  <2>16. CASE shape = "SpacesModeState"
    BY <2>16, TablesFit, FitIsGood
  <2>17. CASE shape = "SpacesModeSpace"
    BY <2>17, TablesFit, FitIsGood
  <2>18. CASE shape = "VcsAgentSession"
    BY <2>18, WholesAreGood
  <2>19. CASE shape = "SpacesRoute"
    BY <2>19, WholesAreGood
  <2>20. CASE shape = "VcsState"
    BY <2>20, VcsIsGood DEF ShapeIsGood
  <2>21. CASE shape = "Diagnostics"
    BY <2>21, DiagnosticsAreGood
  <2>22. CASE shape = "ChatProviderInfo"
    BY <2>22, ProviderIsGood
  <2> QED
    BY <2>1, <2>2, <2>3, <2>4, <2>5, <2>6, <2>7, <2>8, <2>9, <2>10, <2>11, <2>12, <2>13, <2>14, <2>15, <2>16, <2>17, <2>18, <2>19, <2>20, <2>21, <2>22
<1> QED
  BY <1>1, <1>2

\* What is not awaited is null, and may be.
LEMMA NullIsAllowed ==
  \A f \in DOMAIN Declared["HostAttention"] : f # "awaiting" => "null" \in Declared["HostAttention"][f]
<1>1. Declared["HostAttention"] = HostAttentionDeclared
  BY DEF Declared
<1>2. \A f \in DOMAIN HostAttentionDeclared : f # "awaiting" => HostAttentionDeclared[f] = OrNull
  BY DEF HostAttentionDeclared
<1> QED
  BY <1>1, <1>2 DEF OrNull

\* What a push of this shape decides, what its value is, and what it lacks.
Decided(shape, raw) == shape = "HostAttention" /\ raw["awaiting"] = "off"
\* Every field that was looked at is what its interface declares.
IsLawful(shape, raw) == \A f \in DOMAIN raw : <<shape, f>> \notin Unchecked => Parsed(shape, raw)[f] \in Declared[shape][f]
\* Every good field is kept.
KeepsGood(shape, raw) == \A f \in DOMAIN raw : raw[f] = "valid" => (Parsed(shape, raw)[f] = "valid" \/ Decided(shape, raw))
\* A field that must be there is not.
LacksOne(shape, raw) == \E f \in DOMAIN raw : raw[f] \notin Declared[shape][f] /\ "absent" \notin Declared[shape][f]

\* What a parser makes of a push is lawful and keeps what is good, and it refuses the push
\* only for what must be there, or if it is all or nothing.
LEMMA ParsedIsFair ==
  ASSUME NEW shape \in DOMAIN Declared, NEW raw, DOMAIN raw = DOMAIN Declared[shape],
         \A f \in DOMAIN raw : raw[f] \in Raws
  PROVE  /\ DOMAIN Parsed(shape, raw) = DOMAIN raw
         /\ ~IsRefused(shape, raw) => IsLawful(shape, raw) /\ KeepsGood(shape, raw)
         /\ IsRefused(shape, raw) => shape \in AllOrNothing \/ LacksOne(shape, raw)
<1> USE DEF Decided
<1> DEFINE off(f) == f # "awaiting" /\ Decided(shape, raw)
<1>1. DOMAIN Parsed(shape, raw) = DOMAIN raw
  BY DEF Parsed
<1>2. \A f \in DOMAIN raw : off(f) => Parsed(shape, raw)[f] = "null"
  BY DEF Parsed
<1>3. \A f \in DOMAIN raw : ~off(f) => Parsed(shape, raw)[f] = Rules[shape][f][raw[f]]
  BY DEF Parsed
<1>4. \A f \in DOMAIN raw : FieldIsGood(shape, f, Rules[shape][f], Declared[shape][f])
  BY EveryShapeIsGood DEF ShapeIsGood
<1>5. ASSUME ~IsRefused(shape, raw), NEW f \in DOMAIN raw
      PROVE  /\ <<shape, f>> \notin Unchecked => Parsed(shape, raw)[f] \in Declared[shape][f]
             /\ raw[f] = "valid" => (Parsed(shape, raw)[f] = "valid" \/ Decided(shape, raw))
  <2>1. CASE off(f)
    BY <2>1, <1>2, NullIsAllowed
  <2>2. CASE ~off(f)
    <3> HIDE DEF off
    <3>1. Parsed(shape, raw)[f] # "refused"
      BY <1>5 DEF IsRefused
    <3>2. Parsed(shape, raw)[f] = Rules[shape][f][raw[f]]
      BY <2>2, <1>3
    <3> QED
      BY <3>1, <3>2, <1>4 DEF FieldIsGood, Lawful, Keeping
  <2> QED
    BY <2>1, <2>2
<1>6. ASSUME IsRefused(shape, raw), shape \notin AllOrNothing
      PROVE  \E f \in DOMAIN raw : raw[f] \notin Declared[shape][f] /\ "absent" \notin Declared[shape][f]
  <2>1. PICK f \in DOMAIN raw : Parsed(shape, raw)[f] = "refused"
    BY <1>6 DEF IsRefused
  <2>2. ~off(f)
    BY <2>1, <1>2
  <2>3. Rules[shape][f][raw[f]] = "refused"
    BY <2>1, <2>2, <1>3
  <2> HIDE DEF off
  <2> QED
    BY <2>3, <1>4, <1>6 DEF FieldIsGood, Sparing
<1> HIDE DEF off
<1> QED
  BY <1>1, <1>5, <1>6 DEF IsLawful, KeepsGood, LacksOne

\* What holds of the pushed state in every state.
SnapshotInv ==
  /\ snapshotShape \in DOMAIN Declared
  /\ DOMAIN snapshotPushed = DOMAIN Declared[snapshotShape]
  /\ DOMAIN snapshotHeld = DOMAIN Declared[snapshotShape]
  /\ FaultCostsItself

\* The app starts with a good state.
LEMMA SnapshotsInitially == ASSUME Init PROVE SnapshotInv
<1>1. SnapshotsInit
  BY DEF Init
<1>2. snapshotShape \in DOMAIN Declared
  BY <1>1, SnapshotsAssumption DEF SnapshotsInit
<1>3. \A f \in DOMAIN Declared[snapshotShape] : "valid" \in Declared[snapshotShape][f]
  BY <1>2, EveryShapeIsGood DEF ShapeIsGood, FieldIsGood
<1>4. /\ DOMAIN snapshotPushed = DOMAIN Declared[snapshotShape]
      /\ DOMAIN snapshotHeld = DOMAIN Declared[snapshotShape]
      /\ \A f \in DOMAIN Declared[snapshotShape] : snapshotHeld[f] = "valid"
      /\ snapshotTaken = TRUE
  BY <1>1 DEF SnapshotsInit, AllValid
<1> QED
  BY <1>2, <1>3, <1>4 DEF SnapshotInv, FaultCostsItself

\* What a field may be in a push.
LEMMA MissedAreRaws == Missed \subseteq Raws /\ "valid" \in Raws
BY DEF Raws

\* A push that misses the fields F.
PushOf(F, tokens) ==
  /\ snapshotPushed' = [f \in DOMAIN Declared[snapshotShape] |-> IF f \in F THEN tokens[f] ELSE "valid"]
  /\ snapshotTaken' = ~IsRefused(snapshotShape, snapshotPushed')
  /\ snapshotHeld' = IF snapshotTaken' THEN Parsed(snapshotShape, snapshotPushed') ELSE snapshotHeld

\* Every step keeps it.
LEMMA SnapshotsStep == ASSUME SnapshotInv, [Next]_vars PROVE SnapshotInv'
<1>1. CASE PushSnapshot
  <2>1. PICK n \in 0..(MaxFaults - snapshotFaults) : \E F \in kSubset(n, DOMAIN Declared[snapshotShape]) :
          \E tokens \in [F -> Missed] : PushOf(F, tokens)
    BY <1>1 DEF PushSnapshot, PushOf
  <2>2. PICK F \in kSubset(n, DOMAIN Declared[snapshotShape]) : \E tokens \in [F -> Missed] : PushOf(F, tokens)
    BY <2>1
  <2>3. PICK tokens \in [F -> Missed] : PushOf(F, tokens)
    BY <2>2
  <2>4. /\ snapshotPushed' = [f \in DOMAIN Declared[snapshotShape] |-> IF f \in F THEN tokens[f] ELSE "valid"]
        /\ snapshotTaken' = ~IsRefused(snapshotShape, snapshotPushed')
        /\ snapshotHeld' = IF snapshotTaken' THEN Parsed(snapshotShape, snapshotPushed') ELSE snapshotHeld
    BY <2>3 DEF PushOf
  <2>5. snapshotShape' = snapshotShape
    BY <1>1 DEF PushSnapshot
  <2>6. DOMAIN snapshotPushed' = DOMAIN Declared[snapshotShape]
    BY <2>4
  <2>7. \A f \in DOMAIN snapshotPushed' : snapshotPushed'[f] \in Raws
    BY <2>4, MissedAreRaws
  <2>8. snapshotShape \in DOMAIN Declared
    BY DEF SnapshotInv
  <2> DEFINE raw == snapshotPushed'
  <2> DEFINE shape == snapshotShape
  <2>9. /\ DOMAIN Parsed(shape, raw) = DOMAIN raw
        /\ ~IsRefused(shape, raw) => IsLawful(shape, raw) /\ KeepsGood(shape, raw)
        /\ IsRefused(shape, raw) => shape \in AllOrNothing \/ LacksOne(shape, raw)
    BY <2>6, <2>7, <2>8, ParsedIsFair
  <2>10. CASE snapshotTaken'
    <3>1. snapshotHeld' = Parsed(shape, raw) /\ ~IsRefused(shape, raw)
      BY <2>4, <2>10
    <3> QED
      BY <3>1, <2>5, <2>6, <2>8, <2>9, <2>10 DEF SnapshotInv, FaultCostsItself, IsLawful, KeepsGood, Decided
  <2>11. CASE ~snapshotTaken'
    <3>1. snapshotHeld' = snapshotHeld /\ IsRefused(shape, raw)
      BY <2>4, <2>11
    <3> QED
      BY <3>1, <2>5, <2>6, <2>8, <2>9, <2>11 DEF SnapshotInv, FaultCostsItself, LacksOne
  <2> QED
    BY <2>10, <2>11
<1>2. CASE PushModels
  BY <1>2 DEF PushModels, SnapshotInv, FaultCostsItself
<1>3. CASE UNCHANGED snapshotVars
  BY <1>3 DEF snapshotVars, SnapshotInv, FaultCostsItself
<1> QED
  BY <1>1, <1>2, <1>3, SnapshotsOrNot DEF SnapshotsNext

\* A field of a push that is not what it should be costs itself: what is held of the others is
\* what was sent, what was looked at is what its interface declares, and a whole push is dropped
\* only for a field that must be there, or where the parser is all or nothing (vcs.ts:148).
THEOREM FaultsCostThemselves == Spec => []FaultCostsItself
<1>1. Init => SnapshotInv
  BY SnapshotsInitially
<1>2. SnapshotInv /\ [Next]_vars => SnapshotInv'
  BY SnapshotsStep
<1>3. SnapshotInv => FaultCostsItself
  BY DEF SnapshotInv
<1> QED
  BY <1>1, <1>2, <1>3, PTL DEF Spec

-----------------------------------------------------------------------------
(* Files: what is kept of a sequence. *)

\* A step is one of the calls of files, or leaves what they hold alone.
LEMMA FilesOrNot ==
  ASSUME [Next]_vars
  PROVE  \/ FilesNext
         \/ UNCHANGED fileVars
BY PartStep

\* What is kept of the first k elements.
Sifts(g, s, keep, n) ==
  /\ g[0] = <<>>
  /\ \A k \in 1..n : g[k] = IF s[k] \in keep THEN Append(g[k - 1], s[k]) ELSE g[k - 1]

\* What is kept is what is kept of all of them.
LEMMA FilterIsThere ==
  ASSUME NEW T, NEW s \in Seq(T), NEW keep
  PROVE  \E g : Sifts(g, s, keep, Len(s)) /\ Kept(s, keep) = g[Len(s)]
<1> DEFINE step(g, k) == IF k = 0 THEN <<>> ELSE IF s[k] \in keep THEN Append(g[k - 1], s[k]) ELSE g[k - 1]
<1> DEFINE odd == {n \in 0..Len(s) : ~\E g : g = [k \in 0..n |-> step(g, k)]}
<1>1. ASSUME odd # {} PROVE FALSE
  <2>1. odd \subseteq Nat
    OBVIOUS
  <2>2. PICK n \in odd : \A m \in odd : n <= m
    <3> HIDE DEF odd
    <3> QED
      BY <1>1, <2>1, LeastNatural
  <2>3. n \in 0..Len(s) /\ ~\E g : g = [k \in 0..n |-> step(g, k)]
    BY <2>2
  <2>4. CASE n = 0
    <3>1. [k \in 0..0 |-> <<>>] = [k \in 0..0 |-> step([j \in 0..0 |-> <<>>], k)]
      OBVIOUS
    <3> QED
      BY <3>1, <2>3, <2>4
  <2>5. CASE n # 0
    <3>1. n - 1 \in 0..Len(s) /\ ~(n <= n - 1)
      BY <2>3, <2>5
    <3>2. n - 1 \notin odd
      <4> HIDE DEF odd
      <4> QED
        BY <2>2, <3>1
    <3>3. PICK g : g = [k \in 0..(n - 1) |-> step(g, k)]
      BY <3>1, <3>2
    <3> DEFINE h == [k \in 0..n |-> IF k = n THEN step(g, n) ELSE g[k]]
    <3>4. \A k \in 0..n : h[k] = step(h, k)
      <4>1. \A k \in 0..(n - 1) : h[k] = g[k]
        BY <2>3
      <4>2. \A k \in 0..(n - 1) : k # 0 => k - 1 \in 0..(n - 1)
        BY <2>3
      <4>3. \A k \in 0..(n - 1) : step(h, k) = step(g, k)
        BY <4>1, <4>2
      <4>4. \A k \in 0..(n - 1) : g[k] = step(g, k)
        BY <3>3
      <4>5. h[n] = step(g, n)
        BY <2>3
      <4>6. step(h, n) = step(g, n)
        BY <2>3, <2>5, <4>1
      <4> HIDE DEF h, step
      <4> QED
        BY <4>1, <4>3, <4>4, <4>5, <4>6, <2>3
    <3>5. h = [k \in 0..n |-> step(h, k)]
      BY <3>4
    <3> HIDE DEF h
    <3> QED
      BY <3>5, <2>3
  <2> QED
    BY <2>4, <2>5
<1>2. \E g : g = [k \in 0..Len(s) |-> step(g, k)]
  BY <1>1
<1> DEFINE f == CHOOSE g : g = [k \in 0..Len(s) |-> step(g, k)]
<1>3. f = [k \in 0..Len(s) |-> step(f, k)]
  <2> HIDE DEF step
  <2> QED
    BY <1>2
<1>4. Kept(s, keep) = f[Len(s)]
  BY DEF Kept
<1>5. Sifts(f, s, keep, Len(s))
  <2> HIDE DEF f
  <2> QED
    <3>1. 0 \in 0..Len(s) /\ \A k \in 1..Len(s) : k \in 0..Len(s) /\ k # 0
      OBVIOUS
    <3>2. \A k \in 0..Len(s) : f[k] = step(f, k)
      BY <1>3
    <3>3. f[0] = <<>>
      BY <3>1, <3>2
    <3>4. \A k \in 1..Len(s) : f[k] = IF s[k] \in keep THEN Append(f[k - 1], s[k]) ELSE f[k - 1]
      BY <3>1, <3>2
    <3> QED
      BY <3>3, <3>4 DEF Sifts
<1> QED
  BY <1>4, <1>5

\* What is kept of the first n elements: every one of them that is to be, and nothing else.
SiftedTo(g, s, keep, n) ==
  /\ \A i \in DOMAIN g[n] : g[n][i] \in keep /\ \E k \in 1..n : g[n][i] = s[k]
  /\ \A k \in 1..n : s[k] \in keep => \E i \in DOMAIN g[n] : g[n][i] = s[k]
  /\ (\A k \in 1..n : s[k] \notin keep) => g[n] = <<>>
  /\ (\A k \in 1..n : s[k] \in keep) => Len(g[n]) = n /\ \A k \in 1..n : g[n][k] = s[k]

\* So it is, however many there are.
LEMMA SiftsTo ==
  ASSUME NEW T, NEW s \in Seq(T), NEW keep, NEW g, Sifts(g, s, keep, Len(s))
  PROVE  \A n \in 0..Len(s) : g[n] \in Seq(T) /\ SiftedTo(g, s, keep, n)
<1> DEFINE odd == {n \in 0..Len(s) : ~(g[n] \in Seq(T) /\ SiftedTo(g, s, keep, n))}
<1>1. ASSUME odd # {} PROVE FALSE
  <2>1. odd \subseteq Nat
    OBVIOUS
  <2>2. PICK n \in odd : \A m \in odd : n <= m
    <3> HIDE DEF odd
    <3> QED
      BY <1>1, <2>1, LeastNatural
  <2>3. n \in 0..Len(s) /\ ~(g[n] \in Seq(T) /\ SiftedTo(g, s, keep, n))
    BY <2>2
  <2>4. CASE n = 0
    <3>1. g[0] = <<>>
      BY DEF Sifts
    <3>2. DOMAIN g[0] = {} /\ Len(g[0]) = 0 /\ g[0] \in Seq(T) /\ 1..0 = {}
      BY <3>1
    <3>3. SiftedTo(g, s, keep, 0)
      BY <3>1, <3>2 DEF SiftedTo
    <3> QED
      BY <3>2, <3>3, <2>3, <2>4
  <2>5. CASE n # 0
    <3>1. n - 1 \in 0..Len(s) /\ ~(n <= n - 1) /\ n \in 1..Len(s)
      BY <2>3, <2>5
    <3>2. n - 1 \notin odd
      <4> HIDE DEF odd
      <4> QED
        BY <2>2, <3>1
    <3>3. g[n - 1] \in Seq(T) /\ SiftedTo(g, s, keep, n - 1)
      BY <3>1, <3>2
    <3>4. g[n] = IF s[n] \in keep THEN Append(g[n - 1], s[n]) ELSE g[n - 1]
      BY <3>1 DEF Sifts
    <3>5. s[n] \in T
      BY <3>1
    <3>6. \A k \in 1..n : k = n \/ k \in 1..(n - 1)
      BY <3>1
    <3>7. \A k \in 1..(n - 1) : k \in 1..n
      BY <3>1
    <3> DEFINE a == g[n - 1]
    <3> DEFINE b == g[n]
    <3>8. CASE s[n] \in keep
      <4>1. b = Append(a, s[n]) /\ a \in Seq(T) /\ Len(a) \in Nat
        BY <3>3, <3>4, <3>8
      <4> HIDE DEF a, b
      <4>2. b \in Seq(T) /\ Len(b) = Len(a) + 1 /\ b[Len(a) + 1] = s[n] /\ \A i \in 1..Len(a) : b[i] = a[i]
        BY <4>1, <3>5
      <4>3. \A i \in 1..Len(b) : i = Len(a) + 1 \/ i \in 1..Len(a)
        BY <4>1, <4>2
      <4>4. 1..Len(a) \subseteq 1..Len(b) /\ Len(a) + 1 \in 1..Len(b)
        BY <4>1, <4>2
      <4>5. DOMAIN a = 1..Len(a) /\ DOMAIN b = 1..Len(b)
        BY <4>1, <4>2
      <4>6. \A i \in DOMAIN b : b[i] \in keep /\ \E k \in 1..n : b[i] = s[k]
        <5> TAKE i \in DOMAIN b
        <5>1. CASE i = Len(a) + 1
          <6>1. n \in 1..n
            BY <3>1
          <6> QED
            BY <5>1, <6>1, <4>2, <3>8
        <5>2. CASE i \in 1..Len(a)
          <6>1. a[i] \in keep /\ \E k \in 1..(n - 1) : a[i] = s[k]
            BY <5>2, <4>5, <3>3 DEF SiftedTo, a
          <6> QED
            BY <5>2, <6>1, <4>2, <3>7
        <5> QED
          BY <5>1, <5>2, <4>3, <4>5
      <4>7. \A k \in 1..n : s[k] \in keep => \E i \in DOMAIN b : b[i] = s[k]
        BY <4>2, <4>4, <4>5, <3>3, <3>6 DEF SiftedTo, a
      <4>8. ~\A k \in 1..n : s[k] \notin keep
        BY <3>1, <3>8
      <4>9. (\A k \in 1..n : s[k] \in keep) => Len(b) = n /\ \A k \in 1..n : b[k] = s[k]
        <5> HAVE \A k \in 1..n : s[k] \in keep
        <5>1. Len(a) = n - 1 /\ \A k \in 1..(n - 1) : a[k] = s[k]
          BY <3>3, <3>7 DEF SiftedTo, a
        <5> QED
          BY <5>1, <4>2, <3>1, <3>6
      <4>10. SiftedTo(g, s, keep, n)
        BY <4>6, <4>7, <4>8, <4>9 DEF SiftedTo, b
      <4> QED
        BY <4>2, <4>10, <2>3 DEF b
    <3>9. CASE s[n] \notin keep
      <4>1. g[n] = g[n - 1]
        BY <3>4, <3>9
      <4>2. n \in 1..n
        BY <3>1
      <4>3. SiftedTo(g, s, keep, n)
        <5>1. /\ \A i \in DOMAIN a : a[i] \in keep /\ \E k \in 1..(n - 1) : a[i] = s[k]
              /\ \A k \in 1..(n - 1) : s[k] \in keep => \E i \in DOMAIN a : a[i] = s[k]
              /\ (\A k \in 1..(n - 1) : s[k] \notin keep) => a = <<>>
          BY <3>3 DEF SiftedTo
        <5>2. b = a
          BY <4>1
        <5> HIDE DEF a, b
        <5>3. /\ \A i \in DOMAIN b : b[i] \in keep /\ \E k \in 1..n : b[i] = s[k]
              /\ \A k \in 1..n : s[k] \in keep => \E i \in DOMAIN b : b[i] = s[k]
              /\ (\A k \in 1..n : s[k] \notin keep) => b = <<>>
          BY <5>1, <5>2, <3>6, <3>7, <3>9
        <5>4. ~\A k \in 1..n : s[k] \in keep
          BY <4>2, <3>9
        <5> QED
          BY <5>3, <5>4 DEF SiftedTo, b
      <4> QED
        BY <4>1, <4>3, <3>3, <2>3
    <3> QED
      BY <3>8, <3>9
  <2> QED
    BY <2>4, <2>5
<1> QED
  BY <1>1

\* What is kept of a sequence: every element of it that is to be, and nothing else.
LEMMA KeptAre ==
  ASSUME NEW T, NEW s \in Seq(T), NEW keep
  PROVE  /\ Kept(s, keep) \in Seq(T \intersect keep)
         /\ ToSet(Kept(s, keep)) = ToSet(s) \intersect keep
         /\ (\A x \in ToSet(s) : x \notin keep) => Kept(s, keep) = <<>>
         /\ (\A x \in ToSet(s) : x \in keep) => Kept(s, keep) = s
<1>1. PICK g : Sifts(g, s, keep, Len(s)) /\ Kept(s, keep) = g[Len(s)]
  BY FilterIsThere
<1> DEFINE b == Kept(s, keep)
<1>2. Len(s) \in 0..Len(s) /\ DOMAIN s = 1..Len(s) /\ Len(s) \in Nat
  OBVIOUS
<1>3. b \in Seq(T) /\ SiftedTo(g, s, keep, Len(s)) /\ g[Len(s)] = b
  BY <1>1, <1>2, SiftsTo
<1> HIDE DEF b
<1>4. /\ \A i \in DOMAIN b : b[i] \in keep /\ \E k \in 1..Len(s) : b[i] = s[k]
      /\ \A k \in 1..Len(s) : s[k] \in keep => \E i \in DOMAIN b : b[i] = s[k]
      /\ (\A k \in 1..Len(s) : s[k] \notin keep) => b = <<>>
      /\ (\A k \in 1..Len(s) : s[k] \in keep) => Len(b) = Len(s) /\ \A k \in 1..Len(s) : b[k] = s[k]
  BY <1>3 DEF SiftedTo
<1>5. b \in Seq(T \intersect keep)
  <2>1. Len(b) \in Nat /\ DOMAIN b = 1..Len(b) /\ b = [i \in 1..Len(b) |-> b[i]]
    BY <1>3
  <2>2. \A i \in 1..Len(b) : b[i] \in T \intersect keep
    BY <1>3, <1>4, <2>1
  <2> QED
    BY <2>1, <2>2
<1>6. ToSet(b) = ToSet(s) \intersect keep
  <2>1. ASSUME NEW x \in ToSet(b) PROVE x \in ToSet(s) \intersect keep
    BY <1>2, <1>4 DEF ToSet
  <2>2. ASSUME NEW x \in ToSet(s) \intersect keep PROVE x \in ToSet(b)
    BY <1>2, <1>4 DEF ToSet
  <2> QED
    BY <2>1, <2>2
<1>7. (\A x \in ToSet(s) : x \notin keep) => b = <<>>
  BY <1>2, <1>4 DEF ToSet
<1>8. (\A x \in ToSet(s) : x \in keep) => b = s
  <2> HAVE \A x \in ToSet(s) : x \in keep
  <2>1. Len(b) = Len(s) /\ \A k \in 1..Len(s) : b[k] = s[k]
    BY <1>2, <1>4 DEF ToSet
  <2> QED
    BY <2>1, <1>3
<1> QED
  BY <1>5, <1>6, <1>7, <1>8 DEF b

\* One more behind two sequences is one more behind the second of them.
AppendsBehind(a, b, x) == Append(a \o b, x) = a \o Append(b, x)

\* It is.
LEMMA AppendToJoined ==
  ASSUME NEW T, NEW a \in Seq(T), NEW b \in Seq(T), NEW x \in T
  PROVE  AppendsBehind(a, b, x)
<1> DEFINE p == Append(a \o b, x)
<1> DEFINE c == Append(b, x)
<1> DEFINE q == a \o c
<1>1. Len(a) \in Nat /\ Len(b) \in Nat /\ a \o b \in Seq(T)
  OBVIOUS
<1>2. c \in Seq(T) /\ Len(c) = Len(b) + 1 /\ c[Len(b) + 1] = x /\ \A i \in 1..Len(b) : c[i] = b[i]
  OBVIOUS
<1>3. Len(a \o b) = Len(a) + Len(b)
  OBVIOUS
<1>4. p \in Seq(T) /\ Len(p) = Len(a) + Len(b) + 1 /\ p[Len(a) + Len(b) + 1] = x
      /\ \A i \in 1..(Len(a) + Len(b)) : p[i] = (a \o b)[i]
  BY <1>1, <1>3
<1> HIDE DEF c
<1>5. q \in Seq(T) /\ Len(q) = Len(a) + Len(b) + 1
  BY <1>1, <1>2
<1>6. (\A i \in 1..Len(a) : (a \o b)[i] = a[i] /\ q[i] = a[i]) /\ (\A i \in 1..Len(b) : (a \o b)[Len(a) + i] = b[i])
      /\ \A i \in 1..Len(c) : q[Len(a) + i] = c[i]
  BY <1>2, Joined, JoinedRest
<1> HIDE DEF p, q
<1>7. ASSUME NEW i \in 1..(Len(a) + Len(b) + 1) PROVE p[i] = q[i]
  <2>1. CASE i \in 1..Len(a)
    BY <2>1, <1>1, <1>4, <1>6
  <2>2. CASE i = Len(a) + Len(b) + 1
    <3>1. Len(b) + 1 \in 1..Len(c) /\ i = Len(a) + (Len(b) + 1)
      BY <2>2, <1>1, <1>2
    <3>2. q[i] = x
      BY <3>1, <1>2, <1>6
    <3> QED
      BY <3>2, <2>2, <1>4
  <2>3. CASE i \notin 1..Len(a) /\ i # Len(a) + Len(b) + 1
    <3> DEFINE j == i - Len(a)
    <3>1. j \in 1..Len(b) /\ j \in 1..Len(c) /\ i = Len(a) + j /\ i \in 1..(Len(a) + Len(b))
      BY <2>3, <1>1, <1>2
    <3> HIDE DEF j
    <3>2. p[i] = b[j]
      BY <3>1, <1>4, <1>6
    <3>3. q[i] = b[j]
      BY <3>1, <1>2, <1>6
    <3> QED
      BY <3>2, <3>3
  <2> QED
    BY <2>1, <2>2, <2>3
<1> QED
  BY <1>4, <1>5, <1>7 DEF AppendsBehind, p, q, c

\* What is kept of two sequences is what is kept of the first and of the second.
LEMMA KeptOfJoined ==
  ASSUME NEW T, NEW u \in Seq(T), NEW v \in Seq(T), NEW keep
  PROVE  Kept(u \o v, keep) = Kept(u, keep) \o Kept(v, keep)
<1> DEFINE s == u \o v
<1>1. s \in Seq(T) /\ Len(s) = Len(u) + Len(v) /\ Len(u) \in Nat /\ Len(v) \in Nat
  OBVIOUS
<1>2. (\A i \in 1..Len(u) : s[i] = u[i]) /\ (\A i \in 1..Len(v) : s[Len(u) + i] = v[i])
  BY Joined, JoinedRest
<1> HIDE DEF s
<1>3. PICK gs : Sifts(gs, s, keep, Len(s)) /\ Kept(s, keep) = gs[Len(s)]
  BY <1>1, FilterIsThere
<1>4. PICK gu : Sifts(gu, u, keep, Len(u)) /\ Kept(u, keep) = gu[Len(u)]
  BY FilterIsThere
<1>5. PICK gv : Sifts(gv, v, keep, Len(v)) /\ Kept(v, keep) = gv[Len(v)]
  BY FilterIsThere
<1>6. \A n \in 0..Len(u) : gs[n] = gu[n]
  <2> DEFINE odd == {n \in 0..Len(u) : gs[n] # gu[n]}
  <2>1. ASSUME odd # {} PROVE FALSE
    <3>1. odd \subseteq Nat
      OBVIOUS
    <3>2. PICK n \in odd : \A m \in odd : n <= m
      <4> HIDE DEF odd
      <4> QED
        BY <2>1, <3>1, LeastNatural
    <3>3. n \in 0..Len(u) /\ gs[n] # gu[n]
      BY <3>2
    <3>4. n # 0
      BY <3>3, <1>3, <1>4 DEF Sifts
    <3>5. n - 1 \in 0..Len(u) /\ ~(n <= n - 1) /\ n \in 1..Len(u) /\ n \in 1..Len(s)
      BY <3>3, <3>4, <1>1
    <3>6. n - 1 \notin odd
      <4> HIDE DEF odd
      <4> QED
        BY <3>2, <3>5
    <3>7. gs[n - 1] = gu[n - 1]
      BY <3>5, <3>6
    <3> QED
      BY <3>3, <3>5, <3>7, <1>2, <1>3, <1>4 DEF Sifts
  <2> QED
    BY <2>1
<1>7. gu[Len(u)] \in Seq(T) /\ \A n \in 0..Len(v) : gv[n] \in Seq(T)
  BY <1>1, <1>4, <1>5, SiftsTo
<1>8. \A n \in 0..Len(v) : gs[Len(u) + n] = gu[Len(u)] \o gv[n]
  <2> DEFINE odd == {n \in 0..Len(v) : gs[Len(u) + n] # gu[Len(u)] \o gv[n]}
  <2>1. ASSUME odd # {} PROVE FALSE
    <3>1. odd \subseteq Nat
      <4>1. 0..Len(v) \subseteq Nat
        BY <1>1
      <4> QED
        BY <4>1
    <3>2. PICK n \in odd : \A m \in odd : n <= m
      <4> HIDE DEF odd
      <4> QED
        BY <2>1, <3>1, LeastNatural
    <3>3. n \in 0..Len(v) /\ gs[Len(u) + n] # gu[Len(u)] \o gv[n]
      BY <3>2
    <3>4. CASE n = 0
      <4>1. gv[0] = <<>> /\ gs[Len(u)] = gu[Len(u)] /\ Len(u) + n = Len(u)
        BY <3>4, <1>1, <1>5, <1>6 DEF Sifts
      <4>2. gu[Len(u)] \o <<>> = gu[Len(u)]
        BY <1>7
      <4> QED
        BY <3>3, <3>4, <4>1, <4>2
    <3>5. CASE n # 0
      <4>1. /\ n - 1 \in 0..Len(v) /\ ~(n <= n - 1) /\ n \in 1..Len(v)
            /\ Len(u) + n \in 1..Len(s) /\ (Len(u) + n) - 1 = Len(u) + (n - 1)
        BY <3>3, <3>5, <1>1
      <4>2. n - 1 \notin odd
        <5> HIDE DEF odd
        <5> QED
          BY <3>2, <4>1
      <4>3. gs[Len(u) + (n - 1)] = gu[Len(u)] \o gv[n - 1]
        BY <4>1, <4>2
      <4>4. s[Len(u) + n] = v[n] /\ v[n] \in T
        BY <4>1, <1>2
      <4>5. gv[n] = IF v[n] \in keep THEN Append(gv[n - 1], v[n]) ELSE gv[n - 1]
        BY <4>1, <1>5 DEF Sifts
      <4>6. gs[Len(u) + n] = IF v[n] \in keep THEN Append(gs[Len(u) + (n - 1)], v[n]) ELSE gs[Len(u) + (n - 1)]
        BY <4>1, <4>4, <1>3 DEF Sifts
      <4> DEFINE a == gu[Len(u)]
      <4> DEFINE b == gv[n - 1]
      <4>7. a \in Seq(T) /\ b \in Seq(T)
        BY <4>1, <1>7
      <4> HIDE DEF a, b
      <4>8. Append(a \o b, v[n]) = a \o Append(b, v[n])
        <5>1. PICK x \in T : x = v[n]
          BY <4>4
        <5>2. AppendsBehind(a, b, x)
          BY <4>7, AppendToJoined
        <5> QED
          BY <5>1, <5>2 DEF AppendsBehind
      <4> QED
        BY <4>3, <4>5, <4>6, <4>8, <3>3 DEF a, b
    <3> QED
      BY <3>4, <3>5
  <2> QED
    BY <2>1
<1>9. Len(v) \in 0..Len(v)
  BY <1>1
<1>10. Kept(s, keep) = Kept(u, keep) \o Kept(v, keep)
  BY <1>1, <1>3, <1>4, <1>5, <1>8, <1>9
<1> QED
  BY <1>10 DEF s

-----------------------------------------------------------------------------
(* Files: paths and what they name. *)

\* Names are real names, and what a segment may be besides them is not.
LEMMA NamesAre ==
  /\ Names \subseteq Named /\ ToSet(AppRoot) \subseteq Named
  /\ NoName \notin Named
  /\ Segments \intersect Named \subseteq Names \union {".."}
  /\ ".." \notin Names /\ NoName \notin Names /\ ".." \notin ToSet(AppRoot)
  /\ AppRoot \in Seq(ToSet(AppRoot))
<1>1. AppRoot \in Seq(ToSet(AppRoot) \ {NoName, ".", ".."})
  BY FilesAssumption
<1>2. Len(AppRoot) \in Nat /\ DOMAIN AppRoot = 1..Len(AppRoot) /\ \A k \in 1..Len(AppRoot) : AppRoot[k] \in ToSet(AppRoot) \ {NoName, ".", ".."}
  <2>1. \A S : AppRoot \in Seq(S) => Len(AppRoot) \in Nat /\ DOMAIN AppRoot = 1..Len(AppRoot) /\ \A k \in 1..Len(AppRoot) : AppRoot[k] \in S
    OBVIOUS
  <2> QED
    BY <1>1, <2>1
<1>3. ToSet(AppRoot) \intersect {NoName, ".", ".."} = {}
  BY <1>2 DEF ToSet
<1>4. Names \subseteq Named /\ ToSet(AppRoot) \subseteq Named /\ NoName \notin Named /\ Segments \intersect Named \subseteq Names \union {".."}
  <2>1. Names \intersect {NoName, ".", ".."} = {}
    BY FilesAssumption
  <2>2. Names \subseteq Segments
    BY DEF Segments
  <2> QED
    BY <1>3, <2>1, <2>2 DEF Named, Segments
<1>5. ".." \notin Names /\ NoName \notin Names
  BY FilesAssumption
<1>6. AppRoot \in Seq(ToSet(AppRoot))
  <2>1. \A S, U : S \subseteq U /\ AppRoot \in Seq(S) => AppRoot \in Seq(U)
    OBVIOUS
  <2>2. ToSet(AppRoot) \ {NoName, ".", ".."} \subseteq ToSet(AppRoot)
    OBVIOUS
  <2> QED
    BY <1>1, <2>1, <2>2
<1> QED
  BY <1>3, <1>4, <1>5, <1>6

\* What is begun with is a prefix.
LEMMA FirstIsPrefix ==
  ASSUME NEW T, NEW a \in Seq(T), NEW b \in Seq(T)
  PROVE  IsPrefix(a, a \o b)
<1> DEFINE s == a \o b
<1>1. s \in Seq(T) /\ Len(s) = Len(a) + Len(b) /\ \A i \in 1..Len(a) : s[i] = a[i]
  BY Joined
<1>2. Len(a) \in Nat /\ Len(b) \in Nat
  OBVIOUS
<1> HIDE DEF s
<1>3. SubSeq(s, 1, Len(a)) = [i \in 1..Len(a) |-> s[i]]
  BY <1>1, <1>2
<1>4. SubSeq(a, 1, Len(a)) = [i \in 1..Len(a) |-> a[i]]
  BY <1>2
<1>5. SubSeq(s, 1, Len(a)) = SubSeq(a, 1, Len(a))
  BY <1>1, <1>3, <1>4
<1> QED
  BY <1>1, <1>2, <1>5 DEF IsPrefix, s

\* What an accepted path names is below the root and made of names.
LEMMA UnderTheRoot ==
  ASSUME NEW rel, rel.segs \in Seq(Segments), Accepted(rel)
  PROVE  LET path == ResolveUnder(AppRoot, rel)
         IN  /\ IsPrefix(AppRoot, path)
             /\ \A k \in DOMAIN path : path[k] \in Names \union ToSet(AppRoot)
<1> DEFINE names == Kept(rel.segs, Named)
<1> DEFINE path == AppRoot \o names
<1> DEFINE T == Names \union ToSet(AppRoot)
<1>1. names \in Seq(Segments \intersect Named) /\ ToSet(names) = ToSet(rel.segs) \intersect Named
  BY KeptAre
<1>2. ".." \notin ToSet(rel.segs)
  <2>1. DOMAIN rel.segs = 1..Len(rel.segs)
    OBVIOUS
  <2> QED
    BY <2>1 DEF Accepted, Contains, ToSet
<1> HIDE DEF names
<1>3. Len(names) \in Nat /\ DOMAIN names = 1..Len(names) /\ names = [i \in 1..Len(names) |-> names[i]]
      /\ \A i \in 1..Len(names) : names[i] \in Segments \intersect Named /\ names[i] \in ToSet(names)
  BY <1>1 DEF ToSet
<1>4. \A i \in 1..Len(names) : names[i] \in T
  BY <1>1, <1>2, <1>3, NamesAre
<1>5. names \in Seq(T) /\ AppRoot \in Seq(T)
  <2>1. names \in Seq(T)
    BY <1>3, <1>4
  <2>2. ToSet(AppRoot) \subseteq T
    OBVIOUS
  <2>3. \A S, U : S \subseteq U /\ AppRoot \in Seq(S) => AppRoot \in Seq(U)
    OBVIOUS
  <2> QED
    BY <2>1, <2>2, <2>3, NamesAre
<1> HIDE DEF T
<1>6. path \in Seq(T) /\ IsPrefix(AppRoot, path)
  BY <1>5, Joined, FirstIsPrefix
<1>7. path = ResolveUnder(AppRoot, rel)
  BY DEF ResolveUnder, names
<1> HIDE DEF path
<1> QED
  BY <1>6, <1>7 DEF T

\* The empty segment is not the one that leads up.
LEMMA NoNameIsNoStep == NoName # ".."
BY Zenon DEF NoName

\* What a sequence begins with and the rest of it, and that it is both of them.
IsInTwo(T, s, n) ==
  /\ SubSeq(s, 1, n) \in Seq(T) /\ Len(SubSeq(s, 1, n)) = n
  /\ \A i \in 1..n : SubSeq(s, 1, n)[i] = s[i]
  /\ SubSeq(s, n + 1, Len(s)) \in Seq(T) /\ Len(SubSeq(s, n + 1, Len(s))) = Len(s) - n
  /\ \A i \in 1..(Len(s) - n) : SubSeq(s, n + 1, Len(s))[i] = s[n + i]
  /\ s = SubSeq(s, 1, n) \o SubSeq(s, n + 1, Len(s))

\* A sequence is what it begins with and the rest.
LEMMA InTwo ==
  ASSUME NEW T, NEW s \in Seq(T), NEW n \in 0..Len(s)
  PROVE  IsInTwo(T, s, n)
<1> DEFINE a == SubSeq(s, 1, n)
<1> DEFINE b == SubSeq(s, n + 1, Len(s))
<1>1. Len(s) \in Nat /\ n \in Nat /\ n <= Len(s) /\ DOMAIN s = 1..Len(s)
  OBVIOUS
<1>2. a \in Seq(T) /\ Len(a) = n /\ \A i \in 1..n : a[i] = s[i]
  <2>1. a = [i \in 1..n |-> s[i]]
    BY <1>1
  <2>2. \A i \in 1..n : s[i] \in T
    BY <1>1
  <2> HIDE DEF a
  <2> QED
    BY <1>1, <2>1, <2>2
<1>3. b \in Seq(T) /\ Len(b) = Len(s) - n /\ \A i \in 1..(Len(s) - n) : b[i] = s[n + i]
  <2>1. b = [i \in 1..(Len(s) - n) |-> s[n + i]]
    BY <1>1
  <2>2. \A i \in 1..(Len(s) - n) : s[n + i] \in T
    BY <1>1
  <2>3. Len(s) - n \in Nat
    BY <1>1
  <2> HIDE DEF b
  <2> QED
    BY <2>1, <2>2, <2>3
<1> HIDE DEF a, b
<1> DEFINE c == a \o b
<1>4. c \in Seq(T) /\ Len(c) = Len(s)
  <2>1. c \in Seq(T) /\ Len(c) = Len(a) + Len(b)
    BY <1>2, <1>3, Joined
  <2>2. n + (Len(s) - n) = Len(s)
    BY <1>1
  <2> HIDE DEF c
  <2> QED
    BY <2>1, <2>2, <1>2, <1>3
<1>5. (\A i \in 1..Len(a) : c[i] = a[i]) /\ \A i \in 1..Len(b) : c[Len(a) + i] = b[i]
  BY <1>2, <1>3, Joined, JoinedRest
<1> HIDE DEF c
<1>6. ASSUME NEW i \in 1..Len(s) PROVE c[i] = s[i]
  <2>1. CASE i \in 1..n
    BY <2>1, <1>2, <1>5
  <2>2. CASE i \notin 1..n
    <3> DEFINE j == i - n
    <3>1. j \in 1..Len(b) /\ i = n + j
      BY <2>2, <1>1, <1>3
    <3> HIDE DEF j
    <3> QED
      BY <3>1, <1>2, <1>3, <1>5
  <2> QED
    BY <2>1, <2>2
<1>7. s = c
  BY <1>4, <1>6
<1> QED
  BY <1>2, <1>3, <1>7 DEF a, b, c, IsInTwo

\* The slashes in front of a path are not of what it names.
LEMMA SlashesAreNothing ==
  ASSUME NEW T, NEW s \in Seq(T)
  PROVE  /\ WithoutSlashes(s) \in Seq(T)
         /\ Kept(WithoutSlashes(s), Named) = Kept(s, Named)
         /\ Contains(WithoutSlashes(s), "..") <=> Contains(s, "..")
<1> DEFINE named == {k \in DOMAIN s : s[k] # NoName}
<1>1. Len(s) \in Nat /\ DOMAIN s = 1..Len(s)
  OBVIOUS
<1>2. CASE named = {}
  <2>1. WithoutSlashes(s) = <<>>
    BY <1>2 DEF WithoutSlashes
  <2>2. \A k \in 1..Len(s) : s[k] = NoName
    BY <1>1, <1>2
  <2>3. Kept(s, Named) = <<>>
    <3>1. \A x \in ToSet(s) : x \notin Named
      BY <1>1, <2>2, NamesAre DEF ToSet
    <3> QED
      BY <3>1, KeptAre
  <2>4. Kept(<<>>, Named) = <<>>
    <3> DEFINE e == <<>>
    <3>1. e \in Seq(T) /\ e = <<>> /\ ToSet(e) = {}
      BY DEF ToSet
    <3> HIDE DEF e
    <3>2. \A x \in ToSet(e) : x \notin Named
      BY <3>1
    <3>3. Kept(e, Named) = <<>>
      BY <3>1, <3>2, KeptAre
    <3> QED
      BY <3>1, <3>3
  <2>5. ~Contains(s, "..") /\ ~Contains(<<>>, "..")
    BY <2>2, NoNameIsNoStep DEF Contains
  <2> QED
    BY <2>1, <2>3, <2>4, <2>5
<1>3. CASE named # {}
  <2>1. named \subseteq Nat
    BY <1>1
  <2> DEFINE m == CHOOSE k \in named : \A j \in named : k <= j
  <2>2. m \in named /\ \A j \in named : m <= j
    <3> HIDE DEF named
    <3>1. \E k \in named : \A j \in named : k <= j
      BY <1>3, <2>1, LeastNatural
    <3> QED
      BY <3>1
  <2>3. WithoutSlashes(s) = SubSeq(s, m, Len(s))
    BY <1>3 DEF WithoutSlashes
  <2> HIDE DEF m
  <2>4. m \in 1..Len(s) /\ s[m] # NoName /\ \A j \in 1..(m - 1) : s[j] = NoName
    BY <1>1, <2>2
  <2> DEFINE n == m - 1
  <2>5. n \in 0..Len(s) /\ m = n + 1 /\ n < Len(s)
    BY <1>1, <2>4
  <2>6. \A j \in 1..n : s[j] = NoName
    BY <2>4
  <2> HIDE DEF n
  <2> DEFINE a == SubSeq(s, 1, n)
  <2> DEFINE b == SubSeq(s, n + 1, Len(s))
  <2>7a. IsInTwo(T, s, n)
    BY <2>5, InTwo
  <2>7. /\ a \in Seq(T) /\ Len(a) = n /\ \A i \in 1..n : a[i] = s[i]
        /\ b \in Seq(T) /\ Len(b) = Len(s) - n /\ \A i \in 1..(Len(s) - n) : b[i] = s[n + i]
        /\ s = a \o b
    BY <2>7a DEF IsInTwo
  <2>8. WithoutSlashes(s) = b
    BY <2>3, <2>5
  <2> HIDE DEF a, b
  <2>9. Kept(a, Named) = <<>>
    <3>1. \A x \in ToSet(a) : x \notin Named
      BY <2>6, <2>7, NamesAre DEF ToSet
    <3> QED
      BY <3>1, <2>7, KeptAre
  <2>10. Kept(a \o b, Named) = Kept(a, Named) \o Kept(b, Named)
    BY <2>7, KeptOfJoined
  <2>11. Kept(b, Named) \in Seq(T \intersect Named)
    BY <2>7, KeptAre
  <2>12. <<>> \o Kept(b, Named) = Kept(b, Named)
    BY <2>11
  <2>13. Kept(s, Named) = Kept(b, Named)
    BY <2>7, <2>9, <2>10, <2>12
  <2>14. Contains(b, "..") <=> Contains(s, "..")
    <3>1. ASSUME NEW i \in 1..Len(b), b[i] = ".." PROVE Contains(s, "..")
      <4>1. n + i \in 1..Len(s) /\ s[n + i] = ".."
        BY <3>1, <1>1, <2>5, <2>7
      <4> QED
        BY <4>1 DEF Contains
    <3>2. ASSUME NEW i \in 1..Len(s), s[i] = ".." PROVE Contains(b, "..")
      <4>1. i \notin 1..n
        BY <3>2, <2>6, NoNameIsNoStep
      <4> DEFINE j == i - n
      <4>2. j \in 1..Len(b) /\ j \in 1..(Len(s) - n) /\ i = n + j
        BY <4>1, <1>1, <2>5, <2>7
      <4> HIDE DEF j
      <4>3. b[j] = ".."
        BY <4>2, <3>2, <2>7
      <4> QED
        BY <4>2, <4>3 DEF Contains
    <3> QED
      BY <3>1, <3>2 DEF Contains
  <2> QED
    BY <2>7, <2>8, <2>13, <2>14
<1> QED
  BY <1>2, <1>3

\* What a path without its slashes in front names, and whether it is accepted.
LEMMA RelativeIsRead ==
  ASSUME NEW T, NEW q \in Seq(T), NEW root, NEW rel, rel = [absolute |-> FALSE, segs |-> WithoutSlashes(q)]
  PROVE  /\ Accepted(rel) <=> ~Contains(q, "..")
         /\ ResolveUnder(root, rel) = root \o Kept(q, Named)
<1>1. rel.absolute = FALSE /\ rel.segs = WithoutSlashes(q)
  OBVIOUS
<1>2. Kept(WithoutSlashes(q), Named) = Kept(q, Named) /\ (Contains(WithoutSlashes(q), "..") <=> Contains(q, ".."))
  BY SlashesAreNothing
<1> QED
  BY <1>1, <1>2 DEF Accepted, ResolveUnder

\* What an include is asked for.
IncludeTypes(p) == p.absolute \in BOOLEAN /\ p.segs \in Seq(Segments \union ToSet(AppRoot))

\* So an include reads what it names, or nothing.
LEMMA IncludeIsRead ==
  ASSUME IncludeTypes(included)
  PROVE  IncludeReadsNamed
<1> DEFINE p == included
<1> DEFINE T == Segments \union ToSet(AppRoot)
<1> DEFINE s == included.segs
<1> DEFINE names == Kept(s, Named)
<1> DEFINE meant == IF p.absolute THEN names ELSE AppRoot \o names
<1> DEFINE read == ReadInterpreted(p)
<1>1. s \in Seq(T) /\ p.absolute \in BOOLEAN
  BY DEF IncludeTypes
<1>2. AppRoot \in Seq(T) /\ names \in Seq(T \intersect Named)
  <2>1. ToSet(AppRoot) \subseteq T
    OBVIOUS
  <2>2. \A S, U : S \subseteq U /\ AppRoot \in Seq(S) => AppRoot \in Seq(U)
    OBVIOUS
  <2> QED
    BY <1>1, <2>1, <2>2, NamesAre, KeptAre
<1>3. Kept(AppRoot, Named) = AppRoot
  BY <1>2, NamesAre, KeptAre
<1> HIDE DEF T
<1>4. CASE UnderAppRoot(p)
  <2> DEFINE n == Len(AppRoot)
  <2> DEFINE rest == SubSeq(s, n + 1, Len(s))
  <2>1. p.absolute /\ n \in 0..Len(s) /\ SubSeq(AppRoot, 1, n) = SubSeq(s, 1, n)
    BY <1>1, <1>2, <1>4 DEF UnderAppRoot, IsStrictPrefix, IsPrefix
  <2>2. SubSeq(AppRoot, 1, n) = AppRoot
    BY <1>2
  <2> HIDE DEF n
  <2>3. rest \in Seq(T) /\ s = AppRoot \o rest
    BY <1>1, <2>1, <2>2, InTwo DEF IsInTwo
  <2>4. read = [ok |-> Accepted([absolute |-> FALSE, segs |-> WithoutSlashes(rest)]),
                path |-> ResolveUnder(AppRoot, [absolute |-> FALSE, segs |-> WithoutSlashes(rest)])]
    BY <1>4 DEF ReadInterpreted, IsForeignMountPath, AppMountRelative, n
  <2> HIDE DEF rest
  <2>5. names = AppRoot \o Kept(rest, Named)
    <3>1. Kept(AppRoot \o rest, Named) = Kept(AppRoot, Named) \o Kept(rest, Named)
      BY <2>3, <1>2, KeptOfJoined
    <3> QED
      BY <3>1, <2>3, <1>3
  <2>6. read.path = AppRoot \o Kept(rest, Named) /\ (read.ok <=> ~Contains(rest, ".."))
    <3> DEFINE rel == [absolute |-> FALSE, segs |-> WithoutSlashes(rest)]
    <3>1. (Accepted(rel) <=> ~Contains(rest, "..")) /\ ResolveUnder(AppRoot, rel) = AppRoot \o Kept(rest, Named)
      BY <2>3, RelativeIsRead
    <3> HIDE DEF read
    <3> QED
      BY <2>4, <3>1
  <2>7. Contains(rest, "..") <=> Contains(s, "..")
    <3>1. Len(AppRoot) \in Nat /\ Len(rest) \in Nat /\ Len(s) = Len(AppRoot) + Len(rest)
      BY <1>2, <2>3, Joined
    <3>2. (\A i \in 1..Len(AppRoot) : s[i] = AppRoot[i]) /\ \A i \in 1..Len(rest) : s[Len(AppRoot) + i] = rest[i]
      BY <1>2, <2>3, Joined, JoinedRest
    <3>3. \A i \in 1..Len(AppRoot) : AppRoot[i] # ".."
      <4>1. DOMAIN AppRoot = 1..Len(AppRoot)
        BY <1>2
      <4> QED
        BY <4>1, NamesAre DEF ToSet
    <3>4. ASSUME NEW i \in 1..Len(rest), rest[i] = ".." PROVE Contains(s, "..")
      <4>1. Len(AppRoot) + i \in 1..Len(s) /\ s[Len(AppRoot) + i] = ".."
        BY <3>1, <3>2, <3>4
      <4> HIDE DEF s
      <4> QED
        BY <4>1 DEF Contains
    <3>5. ASSUME NEW i \in 1..Len(s), s[i] = ".." PROVE Contains(rest, "..")
      <4>1. i \notin 1..Len(AppRoot)
        BY <3>2, <3>3, <3>5
      <4> DEFINE j == i - Len(AppRoot)
      <4>2. j \in 1..Len(rest) /\ i = Len(AppRoot) + j
        BY <4>1, <3>1
      <4> HIDE DEF j
      <4> QED
        BY <4>2, <3>2, <3>5 DEF Contains
    <3> QED
      BY <3>4, <3>5 DEF Contains
  <2> QED
    BY <2>1, <2>5, <2>6, <2>7 DEF IncludeReadsNamed
<1>5. CASE ~UnderAppRoot(p) /\ p.absolute /\ s # AppRoot
  <2>1. read = [ok |-> Accepted([absolute |-> FALSE, segs |-> WithoutSlashes(s)]),
                path |-> ResolveUnder(<<>>, [absolute |-> FALSE, segs |-> WithoutSlashes(s)])]
    BY <1>5 DEF ReadInterpreted, IsForeignMountPath
  <2>2. <<>> \o names = names
    BY <1>2
  <2>3. read.path = names /\ (read.ok <=> ~Contains(s, ".."))
    <3> DEFINE rel == [absolute |-> FALSE, segs |-> WithoutSlashes(s)]
    <3>1. (Accepted(rel) <=> ~Contains(s, "..")) /\ ResolveUnder(<<>>, rel) = <<>> \o names
      BY <1>1, RelativeIsRead
    <3> HIDE DEF read
    <3> QED
      BY <2>1, <2>2, <3>1
  <2> QED
    BY <1>5, <2>3 DEF IncludeReadsNamed
<1>6. CASE ~UnderAppRoot(p) /\ (~p.absolute \/ s = AppRoot)
  <2>1. read = [ok |-> Accepted([absolute |-> FALSE, segs |-> WithoutSlashes(s)]),
                path |-> ResolveUnder(AppRoot, [absolute |-> FALSE, segs |-> WithoutSlashes(s)])]
    BY <1>6 DEF ReadInterpreted, IsForeignMountPath, AppMountRelative
  <2>2. read.path = AppRoot \o names /\ (read.ok <=> ~Contains(s, ".."))
    <3> DEFINE rel == [absolute |-> FALSE, segs |-> WithoutSlashes(s)]
    <3>1. (Accepted(rel) <=> ~Contains(s, "..")) /\ ResolveUnder(AppRoot, rel) = AppRoot \o names
      BY <1>1, RelativeIsRead
    <3> HIDE DEF read
    <3> QED
      BY <2>1, <3>1
  <2> QED
    BY <1>3, <1>6, <2>2 DEF IncludeReadsNamed
<1> QED
  BY <1>1, <1>4, <1>5, <1>6

-----------------------------------------------------------------------------
(* Files: the rule that decides. *)

\* A sequence is a prefix of itself.
LEMMA ItselfIsPrefix == ASSUME NEW T, NEW s \in Seq(T) PROVE IsPrefix(s, s)
BY DEF IsPrefix

\* The rules around a file.
Around(rules, path) ==
  {r \in ToSet(rules) : r.segs = <<>> \/ (IsPrefix(r.segs, path) /\ (r.slash => r.segs # path))}

\* The rules that govern a path are the ones around it.
LEMMA GoverningAreAround ==
  ASSUME NEW rules \in Seq(MountRules), NEW path, path \in Seq(Segments)
  PROVE  {r \in ToSet(rules) : Governs(r, path)} = Around(rules, path)
<1>1. IsPrefix(path, path)
  BY ItselfIsPrefix
<1>2. \A r \in ToSet(rules) : r.slash \in BOOLEAN
  <2>1. \A r \in ToSet(rules) : r \in MountRules
    BY DEF ToSet
  <2> QED
    BY <2>1 DEF MountRules
<1>3. ASSUME NEW r \in ToSet(rules)
      PROVE  Governs(r, path) <=> (r.segs = <<>> \/ (IsPrefix(r.segs, path) /\ (r.slash => r.segs # path)))
  BY <1>1, <1>2 DEF Governs, IsStrictPrefix
<1> QED
  BY <1>3 DEF Around

\* The first of the longest is as long as any.
LEMMA LongestIsDeepest ==
  ASSUME NEW rules \in Seq(MountRules), rules # <<>>
  PROVE  LET r == LongestOf(rules)
         IN  r \in ToSet(rules) /\ \A q \in ToSet(rules) : Len(q.segs) <= Len(r.segs)
<1>1. Len(rules) \in Nat /\ Len(rules) # 0 /\ DOMAIN rules = 1..Len(rules)
  OBVIOUS
<1>2. \A k \in DOMAIN rules : rules[k] \in MountRules
  OBVIOUS
<1> DEFINE length(k) == SubtreeLength(rules[k])
<1> DEFINE most == 2 * MaxSegments + 1
<1>3. MaxSegments \in Nat /\ most \in Nat
  BY FilesAssumption
<1>4. \A r \in MountRules : /\ Len(r.segs) \in Nat /\ Len(r.segs) <= MaxSegments
                            /\ SubtreeLength(r) \in Nat /\ SubtreeLength(r) <= most
                            /\ 2 * Len(r.segs) <= SubtreeLength(r) /\ SubtreeLength(r) <= 2 * Len(r.segs) + 1
  <2> TAKE r \in MountRules
  <2>1. r.segs \in RealPaths /\ r.slash \in BOOLEAN
    BY DEF MountRules
  <2>2. PICK m \in 0..MaxSegments : r.segs \in [1..m -> Names]
    BY <2>1 DEF RealPaths, BoundedSeq, SeqOf
  <2>3. Len(r.segs) = m /\ m \in Nat /\ m <= MaxSegments
    BY <2>2, <1>3
  <2>4. SubtreeLength(r) = 2 * m + (IF r.slash THEN 1 ELSE 0)
    BY <2>3 DEF SubtreeLength
  <2>5. SubtreeLength(r) = 2 * m \/ SubtreeLength(r) = 2 * m + 1
    BY <2>1, <2>4
  <2> QED
    BY <2>3, <2>5, <1>3
<1>5. \A k \in DOMAIN rules : length(k) \in Nat /\ length(k) <= most
  BY <1>2, <1>4
<1> DEFINE longest == {k \in DOMAIN rules : \A j \in DOMAIN rules : length(j) <= length(k)}
<1> DEFINE short == {most - length(k) : k \in DOMAIN rules}
<1>6. short \subseteq Nat /\ short # {}
  <2> HIDE DEF length, most
  <2>1. \A k \in DOMAIN rules : most - length(k) \in Nat
    BY <1>3, <1>5
  <2>2. 1 \in DOMAIN rules
    BY <1>1
  <2> QED
    BY <2>1, <2>2
<1>7. longest # {}
  <2>1. PICK n \in short : \A m \in short : n <= m
    <3> HIDE DEF short
    <3> QED
      BY <1>6, LeastNatural
  <2>2. PICK k \in DOMAIN rules : n = most - length(k)
    BY <2>1
  <2> HIDE DEF length, most
  <2>3. \A j \in DOMAIN rules : most - length(k) <= most - length(j)
    BY <2>1, <2>2
  <2>4. \A j \in DOMAIN rules : length(j) <= length(k)
    BY <2>3, <1>3, <1>5
  <2> QED
    BY <2>4
<1>8. longest \subseteq Nat
  BY <1>1
<1> DEFINE first == CHOOSE k \in longest : \A j \in longest : k <= j
<1>9. first \in longest
  <2> HIDE DEF longest
  <2>1. \E k \in longest : \A j \in longest : k <= j
    BY <1>7, <1>8, LeastNatural
  <2> QED
    BY <2>1
<1>10. LongestOf(rules) = rules[first]
  BY DEF LongestOf
<1> HIDE DEF first
<1>11. first \in DOMAIN rules /\ \A j \in DOMAIN rules : length(j) <= length(first)
  BY <1>9
<1>12. \A j \in DOMAIN rules : Len(rules[j].segs) <= Len(rules[first].segs)
  <2> TAKE j \in DOMAIN rules
  <2>1. SubtreeLength(rules[j]) <= SubtreeLength(rules[first])
    BY <1>11
  <2>2. rules[j] \in MountRules /\ rules[first] \in MountRules
    BY <1>2, <1>11
  <2> DEFINE a == rules[j]
  <2> DEFINE b == rules[first]
  <2>3. /\ Len(a.segs) \in Nat /\ SubtreeLength(a) \in Nat /\ 2 * Len(a.segs) <= SubtreeLength(a)
        /\ Len(b.segs) \in Nat /\ SubtreeLength(b) \in Nat /\ SubtreeLength(b) <= 2 * Len(b.segs) + 1
    BY <2>2, <1>4
  <2> HIDE DEF a, b
  <2>4. Len(a.segs) <= Len(b.segs)
    <3>1. SubtreeLength(a) <= SubtreeLength(b)
      BY <2>1 DEF a, b
    <3> QED
      BY <2>3, <3>1
  <2> QED
    BY <2>4 DEF a, b
<1> QED
  BY <1>10, <1>11, <1>12 DEF ToSet

\* So the deepest rule around a file decides whether it is written.
LEMMA RuleIsDeepest ==
  ASSUME fileAsked.rel.segs \in Seq(Segments), fileAsked.mount.rules \in Seq(MountRules),
         fileAnswer.writable = WritableAt(fileAsked.mount, fileAsked.rel)
  PROVE  WriteRuleIsDeepest
<1> DEFINE path == Kept(fileAsked.rel.segs, Named)
<1> DEFINE rules == fileAsked.mount.rules
<1> DEFINE around == Around(rules, path)
<1> DEFINE matching == Kept(rules, around)
<1>1. path \in Seq(Segments)
  <2>1. path \in Seq(Segments \intersect Named)
    BY KeptAre
  <2>2. \A S, U, s : S \subseteq U /\ s \in Seq(S) => s \in Seq(U)
    OBVIOUS
  <2> QED
    BY <2>1, <2>2
<1>2. {r \in ToSet(rules) : Governs(r, path)} = around
  BY <1>1, GoverningAreAround
<1>3. fileAnswer.writable = IF matching # <<>> THEN LongestOf(matching).mode = "rw" ELSE fileAsked.mount.mode = "rw"
  BY <1>2 DEF WritableAt
<1>4. matching \in Seq(MountRules) /\ ToSet(matching) = around
  <2>1. matching \in Seq(MountRules \intersect around) /\ ToSet(matching) = ToSet(rules) \intersect around
    <3> HIDE DEF around
    <3> QED
      BY KeptAre
  <2>2. around \subseteq ToSet(rules)
    BY DEF Around
  <2>3. \A S, U, s : S \subseteq U /\ s \in Seq(S) => s \in Seq(U)
    OBVIOUS
  <2> HIDE DEF around, rules, matching
  <2> QED
    BY <2>1, <2>2, <2>3
<1>5. around = {r \in ToSet(rules) : r.segs = <<>> \/ (IsPrefix(r.segs, path) /\ (r.slash => r.segs # path))}
  BY DEF Around
<1> HIDE DEF matching, around
<1>6. CASE matching = <<>>
  <2>1. around = {}
    BY <1>4, <1>6 DEF ToSet
  <2> QED
    BY <2>1, <1>3, <1>5, <1>6 DEF WriteRuleIsDeepest
<1>7. CASE matching # <<>>
  <2> DEFINE r == LongestOf(matching)
  <2>1. r \in around /\ \A q \in around : Len(q.segs) <= Len(r.segs)
    BY <1>4, <1>7, LongestIsDeepest
  <2>2. fileAnswer.writable <=> r.mode = "rw"
    BY <1>3, <1>7
  <2> HIDE DEF r
  <2> QED
    BY <2>1, <2>2, <1>5 DEF WriteRuleIsDeepest
<1> QED
  BY <1>6, <1>7

-----------------------------------------------------------------------------
(* Files: what is below a root. *)

\* Everything a path of a document may be made of.
Pieces == (UNION {ToSet(root) : root \in MountRoots \union Siblings}) \union Names \union {NoName, "elsewhere"}

\* A sequence of some is a sequence of more.
LEMMA MoreIsTyped ==
  ASSUME NEW S, NEW U, S \subseteq U, NEW s \in Seq(S)
  PROVE  s \in Seq(U)
OBVIOUS

\* Roots are made of real names.
LEMMA RootsAre ==
  \A r \in MountRoots \union Siblings \union {<<>>} : r \in Seq(Pieces) /\ \A k \in 1..Len(r) : r[k] # NoName
<1> TAKE r \in MountRoots \union Siblings \union {<<>>}
<1>1. CASE r = <<>>
  BY <1>1
<1>2. CASE r # <<>>
  <2>1. r \in Seq(ToSet(r) \ {NoName, ".", ".."})
    BY <1>2, FilesAssumption
  <2>2. ToSet(r) \ {NoName, ".", ".."} \subseteq Pieces
    BY <1>2 DEF Pieces
  <2>3. \A S : r \in Seq(S) => \A k \in 1..Len(r) : r[k] \in S
    OBVIOUS
  <2>4. \A k \in 1..Len(r) : r[k] \in ToSet(r) \ {NoName, ".", ".."}
    BY <2>1, <2>3
  <2> QED
    BY <2>1, <2>2, <2>4, MoreIsTyped
<1> QED
  BY <1>1, <1>2

\* Paths of documents are paths, and none is a root.
LEMMA DocumentsAre ==
  \A p \in DocumentPaths : p \in Seq(Pieces) /\ \A r \in MountRoots \union {<<>>} : p # r
<1> TAKE p \in DocumentPaths
<1>1. PICK root \in MountRoots \union Siblings, n \in Names : p = root \o <<n>>
  BY DEF DocumentPaths
<1>2. root \in Seq(Pieces)
  BY RootsAre
<1>3. n \in Pieces
  BY Zenon DEF Pieces
<1>4. p \in Seq(Pieces) /\ Len(p) # 0
  BY <1>1, <1>2, <1>3
<1>5. p # <<>>
  BY <1>4
<1> QED
  BY <1>4, <1>5, FilesAssumption

\* What is left of a path without what it begins with.
Rest(r, p) == SubSeq(p, Len(r) + 1, Len(p))

\* A path is what it begins with and the rest.
LEMMA RestIs ==
  ASSUME NEW T, NEW r \in Seq(T), NEW p \in Seq(T), IsPrefix(r, p)
  PROVE  Rest(r, p) \in Seq(T) /\ p = r \o Rest(r, p) /\ (p # r => Rest(r, p) # <<>>)
<1> DEFINE n == Len(r)
<1>1. n \in 0..Len(p) /\ SubSeq(r, 1, n) = SubSeq(p, 1, n) /\ SubSeq(r, 1, n) = r
  BY DEF IsPrefix
<1> HIDE DEF n
<1>2. SubSeq(p, n + 1, Len(p)) \in Seq(T) /\ p = SubSeq(p, 1, n) \o SubSeq(p, n + 1, Len(p))
  BY <1>1, InTwo DEF IsInTwo
<1>3. Rest(r, p) = SubSeq(p, n + 1, Len(p))
  BY DEF Rest, n
<1>4. r \o <<>> = r
  OBVIOUS
<1> QED
  BY <1>1, <1>2, <1>3, <1>4

\* The rest of what was put behind a root is what was put there.
LEMMA RestOfJoined ==
  ASSUME NEW T, NEW r \in Seq(T), NEW q \in Seq(T)
  PROVE  Rest(r, r \o q) = q /\ IsPrefix(r, r \o q)
BY JoinedRest, FirstIsPrefix DEF Rest

\* The slashes behind a root are not of it.
LEMMA TrailingIsNothing ==
  ASSUME NEW r \in Seq(Pieces), \A k \in 1..Len(r) : r[k] # NoName,
         NEW slashes \in Seq(Pieces), \A k \in 1..Len(slashes) : slashes[k] = NoName
  PROVE  WithoutTrailing(r \o slashes) = r
<1> DEFINE s == r \o slashes
<1> DEFINE named == {k \in DOMAIN s : s[k] # NoName}
<1>1. /\ s \in Seq(Pieces) /\ Len(s) = Len(r) + Len(slashes) /\ DOMAIN s = 1..Len(s)
      /\ Len(r) \in Nat /\ Len(slashes) \in Nat
  BY Joined
<1>2. (\A i \in 1..Len(r) : s[i] = r[i]) /\ \A i \in 1..Len(slashes) : s[Len(r) + i] = slashes[i]
  BY Joined, JoinedRest
<1> HIDE DEF s
<1>3. \A k \in 1..Len(s) : k \in 1..Len(r) \/ \E i \in 1..Len(slashes) : k = Len(r) + i
  <2> TAKE k \in 1..Len(s)
  <2>1. CASE k \in 1..Len(r)
    BY <2>1
  <2>2. CASE k \notin 1..Len(r)
    <3>1. k - Len(r) \in 1..Len(slashes) /\ k = Len(r) + (k - Len(r))
      BY <2>2, <1>1
    <3> QED
      BY <3>1
  <2> QED
    BY <2>1, <2>2
<1>4. named = 1..Len(r)
  <2>1. ASSUME NEW k \in named PROVE k \in 1..Len(r)
    <3>1. k \in 1..Len(s) /\ s[k] # NoName
      BY <1>1
    <3>2. \A i \in 1..Len(slashes) : s[Len(r) + i] = NoName
      BY <1>2
    <3> QED
      BY <3>1, <3>2, <1>3
  <2>2. ASSUME NEW k \in 1..Len(r) PROVE k \in named
    BY <1>1, <1>2
  <2> QED
    BY <2>1, <2>2
<1>5. CASE r = <<>>
  <2>1. named = {}
    BY <1>4, <1>5
  <2> QED
    BY <2>1, <1>5 DEF WithoutTrailing, s
<1>6. CASE r # <<>>
  <2> DEFINE m == CHOOSE k \in named : \A j \in named : j <= k
  <2>1. Len(r) # 0
    BY <1>6
  <2>2. Len(r) \in named /\ \A j \in named : j <= Len(r)
    BY <2>1, <1>1, <1>4
  <2>3. m \in named /\ \A j \in named : j <= m
    <3> HIDE DEF named
    <3> QED
      BY <2>2
  <2>4. m = Len(r)
    <3> HIDE DEF m, named
    <3> QED
      BY <2>2, <2>3, <1>1, <1>4
  <2>5. WithoutTrailing(s) = SubSeq(s, 1, m)
    BY <2>2 DEF WithoutTrailing
  <2> HIDE DEF m
  <2>6. SubSeq(s, 1, Len(r)) = [i \in 1..Len(r) |-> s[i]]
    BY <1>1
  <2>7. r = [i \in 1..Len(r) |-> r[i]]
    OBVIOUS
  <2>8. SubSeq(s, 1, Len(r)) = r
    BY <2>6, <2>7, <1>2
  <2> QED
    BY <2>4, <2>5, <2>8 DEF s
<1> QED
  BY <1>5, <1>6

\* The root of a bundle, as it may be spelled, is a root.
LEMMA BundleRootIs ==
  ASSUME NEW root \in BundleRoots, root # <<>>
  PROVE  \E r \in MountRoots \union {<<>>} : WithoutTrailing(root[1]) = r
<1>1. PICK r \in MountRoots \union {<<>>}, slashes \in {<<>>, <<NoName>>, <<NoName, NoName>>} : root = <<r \o slashes>>
  BY DEF BundleRoots
<1>2. NoName \in Pieces
  BY Zenon DEF Pieces
<1>3. slashes \in Seq(Pieces) /\ \A k \in 1..Len(slashes) : slashes[k] = NoName
  <2>1. CASE slashes = <<>>
    BY <2>1
  <2>2. CASE slashes = <<NoName>>
    BY <2>2, <1>2
  <2>3. CASE slashes = <<NoName, NoName>>
    BY <2>3, <1>2
  <2> QED
    BY <2>1, <2>2, <2>3
<1>4. r \in Seq(Pieces) /\ \A k \in 1..Len(r) : r[k] # NoName
  BY RootsAre
<1>5. WithoutTrailing(r \o slashes) = r
  BY <1>3, <1>4, TrailingIsNothing
<1>6. root[1] = r \o slashes
  BY <1>1
<1> QED
  BY <1>5, <1>6

-----------------------------------------------------------------------------
(* Files: the scope of a component. *)

\* A component's scope: documents by their paths, the root it is mounted at and what follows.
ScopeIs(seen) ==
  /\ DOMAIN seen.stored \subseteq DocumentPaths /\ \A p \in DOMAIN seen.stored : seen.stored[p] = p
  /\ seen.root \in BundleRoots /\ seen.entry \in BundleNames
  /\ seen.entries = BundleEntries(seen.stored, seen.root)
  /\ seen.current = CurrentEntry(seen.stored, seen.root, seen.entry)

\* The entry of the document p below the root r.
EntryOf(r, p) == [path |-> Rest(r, p), meta |-> p]

\* What the entries of a store are, whatever it maps its paths to.
LEMMA EntriesAre ==
  ASSUME NEW stored, NEW root, root # <<>>, NEW r, WithoutTrailing(root[1]) = r,
         NEW inside, inside = {p \in DOMAIN stored : IsPrefix(r, p)},
         \A p \in inside : p # r
  PROVE  BundleEntries(stored, root) = {[path |-> Rest(r, p), meta |-> stored[p]] : p \in inside}
<1>1. ASSUME NEW p PROVE ToBundlePath(p, root) = IF IsPrefix(r, p) /\ r # p THEN <<Rest(r, p)>> ELSE <<>>
  BY DEF ToBundlePath, IsStrictPrefix, Rest
<1>2. \A x : <<x>> # <<>> /\ <<x>>[1] = x
  OBVIOUS
<1>3. {q \in DOMAIN stored : ToBundlePath(q, root) # <<>>} = inside
  BY <1>1, <1>2
<1>4. \A p \in inside : ToBundlePath(p, root)[1] = Rest(r, p)
  BY <1>1, <1>2
<1> QED
  BY <1>3, <1>4 DEF BundleEntries

\* The entry of a path is what is stored below the root, if anything is.
LEMMA EntryIs ==
  ASSUME NEW stored, NEW root, root # <<>>, NEW r, WithoutTrailing(root[1]) = r, NEW path
  PROVE  BundleEntry(stored, root, path) = IF r \o path \in DOMAIN stored THEN <<stored[r \o path]>> ELSE <<>>
<1>1. FromBundlePath(path, root) = <<r \o path>>
  BY DEF FromBundlePath
<1>2. <<r \o path>> # <<>> /\ <<r \o path>>[1] = r \o path
  OBVIOUS
<1> QED
  BY <1>1, <1>2 DEF BundleEntry

\* So every document in the scope is an entry, and its entry leads back to it.
LEMMA ScopeLeadsBack ==
  ASSUME ScopeIs(bundleSeen)
  PROVE  BundleLeadsBack
<1> DEFINE seen == bundleSeen
<1>1. CASE seen.root = <<>>
  <2>1. \A p : ToBundlePath(p, seen.root) = <<>>
    BY <1>1 DEF ToBundlePath
  <2>2. seen.entries = {}
    BY <2>1 DEF ScopeIs, BundleEntries
  <2>3. \A path : BundleEntry(seen.stored, seen.root, path) = <<>>
    BY <1>1 DEF BundleEntry, FromBundlePath
  <2>4. seen.current = <<>>
    BY <2>3 DEF ScopeIs, CurrentEntry
  <2> QED
    BY <1>1, <2>2, <2>4 DEF BundleLeadsBack
<1>2. CASE seen.root # <<>>
  <2>1. PICK r \in MountRoots \union {<<>>} : WithoutTrailing(seen.root[1]) = r
    BY <1>2, BundleRootIs DEF ScopeIs
  <2>2. r \in Seq(Pieces)
    BY RootsAre
  <2> DEFINE inside == {p \in DOMAIN seen.stored : IsPrefix(r, p)}
  <2>3. \A p \in inside : p \in Seq(Pieces) /\ p # r /\ seen.stored[p] = p
    BY DocumentsAre DEF ScopeIs
  <2>4. \A p \in inside : Rest(r, p) \in Seq(Pieces) /\ p = r \o Rest(r, p) /\ Rest(r, p) # <<>>
    BY <2>2, <2>3, RestIs
  <2>5. seen.entries = {EntryOf(r, p) : p \in inside}
    <3>1. BundleEntries(seen.stored, seen.root) = {[path |-> Rest(r, p), meta |-> seen.stored[p]] : p \in inside}
      <4> DEFINE stored == seen.stored
      <4> DEFINE root == seen.root
      <4> DEFINE within == inside
      <4>1. root # <<>> /\ WithoutTrailing(root[1]) = r /\ within = {p \in DOMAIN stored : IsPrefix(r, p)}
            /\ \A p \in within : p # r
        BY <1>2, <2>1, <2>3
      <4> HIDE DEF stored, root, within
      <4>2. BundleEntries(stored, root) = {[path |-> Rest(r, p), meta |-> stored[p]] : p \in within}
        BY <4>1, EntriesAre
      <4> QED
        BY <4>2 DEF stored, root, within
    <3> QED
      BY <3>1, <2>3 DEF ScopeIs, EntryOf
  <2>6. \A p \in inside : EntryOf(r, p).path = Rest(r, p) /\ EntryOf(r, p).meta = p
    BY DEF EntryOf
  <2>7. \A e \in seen.entries : BundleEntry(seen.stored, seen.root, e.path) = <<e.meta>>
    <3> TAKE e \in seen.entries
    <3>1. PICK p \in inside : e = EntryOf(r, p)
      BY <2>5
    <3>2. e.path = Rest(r, p) /\ e.meta = p /\ r \o Rest(r, p) = p
      BY <3>1, <2>4, <2>6
    <3>3. BundleEntry(seen.stored, seen.root, e.path) = <<seen.stored[p]>>
      <4> DEFINE stored == seen.stored
      <4> DEFINE root == seen.root
      <4> DEFINE path == e.path
      <4>1. root # <<>> /\ WithoutTrailing(root[1]) = r /\ r \o path = p /\ p \in DOMAIN stored
        BY <3>2, <1>2, <2>1
      <4> HIDE DEF stored, root, path
      <4>2. BundleEntry(stored, root, path) = <<stored[p]>>
        BY <4>1, EntryIs
      <4> QED
        BY <4>2 DEF stored, root, path
    <3> QED
      BY <3>2, <3>3, <2>3
  <2>8. {e.meta : e \in seen.entries} = inside
    <3> HIDE DEF inside, seen
    <3> QED
      BY <2>5, <2>6
  <2>9. ToSet(seen.current) = {e \in seen.entries : <<e.path>> = seen.entry}
    <3>1. CASE seen.entry = <<>>
      <4>1. seen.current = <<>>
        BY <3>1 DEF ScopeIs, CurrentEntry
      <4>2. \A e \in seen.entries : <<e.path>> # seen.entry
        BY <3>1
      <4> QED
        BY <4>1, <4>2 DEF ToSet
    <3>2. CASE seen.entry # <<>>
      <4>1. PICK n \in Names : seen.entry = << <<n>> >>
        BY <3>2 DEF ScopeIs, BundleNames
      <4>2. n \in Pieces
        BY DEF Pieces
      <4> DEFINE name == <<n>>
      <4>3. name \in Seq(Pieces)
        BY <4>2
      <4>4. seen.entry = <<name>> /\ seen.entry[1] = name
        BY <4>1
      <4> HIDE DEF name
      <4>5. Rest(r, r \o name) = name /\ IsPrefix(r, r \o name)
        BY <2>2, <4>3, RestOfJoined
      <4> DEFINE p == r \o name
      <4>6. BundleEntry(seen.stored, seen.root, name) = IF p \in DOMAIN seen.stored THEN <<seen.stored[p]>> ELSE <<>>
        <5> DEFINE stored == seen.stored
        <5> DEFINE root == seen.root
        <5>1. root # <<>> /\ WithoutTrailing(root[1]) = r
          BY <1>2, <2>1
        <5> HIDE DEF stored, root
        <5>2. BundleEntry(stored, root, name) = IF r \o name \in DOMAIN stored THEN <<stored[r \o name]>> ELSE <<>>
          BY <5>1, EntryIs
        <5> QED
          BY <5>2 DEF stored, root
      <4>7. p \in DOMAIN seen.stored <=> p \in inside
        BY <4>5
      <4> HIDE DEF p
      <4>8. Rest(r, p) = name
        BY <4>5 DEF p
      <4>9. \A q \in inside : Rest(r, q) = name => q = p
        BY <2>4 DEF p
      <4> HIDE DEF inside
      <4>10. CASE p \in inside
        <5>1. BundleEntry(seen.stored, seen.root, name) = <<p>>
          BY <4>6, <4>7, <4>10, <2>3
        <5>2. <<p>> # <<>> /\ <<p>>[1] = p
          OBVIOUS
        <5>3. seen.current = <<[path |-> name, meta |-> p]>>
          BY <5>1, <5>2, <3>2, <4>4 DEF ScopeIs, CurrentEntry
        <5>4. ToSet(seen.current) = {EntryOf(r, p)}
          BY <5>3, <4>8 DEF ToSet, EntryOf
        <5>5. \A e \in seen.entries : <<e.path>> = seen.entry <=> e = EntryOf(r, p)
          <6> TAKE e \in seen.entries
          <6>1. PICK q \in inside : e = EntryOf(r, q)
            BY <2>5
          <6>2. e.path = Rest(r, q)
            BY <6>1, <2>6
          <6>3. <<e.path>> = seen.entry <=> e.path = name
            BY <4>4
          <6> QED
            BY <6>1, <6>2, <6>3, <2>6, <4>8, <4>9, <4>10
        <5>6. EntryOf(r, p) \in seen.entries
          BY <2>5, <4>10
        <5> QED
          BY <5>4, <5>5, <5>6
      <4>11. CASE p \notin inside
        <5>1. BundleEntry(seen.stored, seen.root, name) = <<>>
          BY <4>6, <4>7, <4>11
        <5>2. seen.current = <<>>
          BY <5>1, <4>4 DEF ScopeIs, CurrentEntry
        <5>3. \A e \in seen.entries : <<e.path>> # seen.entry
          <6> TAKE e \in seen.entries
          <6>1. PICK q \in inside : e = EntryOf(r, q)
            BY <2>5
          <6>2. e.path = Rest(r, q) /\ Rest(r, q) # name
            BY <6>1, <2>6, <4>9, <4>11
          <6> QED
            BY <6>2, <4>4
        <5> QED
          BY <5>2, <5>3 DEF ToSet
      <4> QED
        BY <4>10, <4>11
    <3> QED
      BY <3>1, <3>2
  <2>10. LET moved == [p \in {<<"elsewhere">> \o SubSeq(q, Len(r) + 1, Len(q)) : q \in inside} |-> r \o Tail(p)]
         IN  BundleEntries(moved, << <<"elsewhere">> >>) = seen.entries
    <3> DEFINE there == <<"elsewhere">>
    <3> DEFINE movedTo(q) == there \o SubSeq(q, Len(r) + 1, Len(q))
    <3> DEFINE moved == [p \in {movedTo(q) : q \in inside} |-> r \o Tail(p)]
    <3>1. "elsewhere" \in Pieces /\ "elsewhere" # NoName
      <4>1. "elsewhere" # NoName
        BY Zenon DEF NoName
      <4> QED
        BY <4>1 DEF Pieces
    <3>2. there \in Seq(Pieces) /\ Len(there) = 1 /\ there[1] = "elsewhere"
      BY <3>1
    <3>3. WithoutTrailing(there) = there
      <4>1. <<>> \in Seq(Pieces) /\ \A k \in 1..Len(<<>>) : <<>>[k] = NoName
        OBVIOUS
      <4>2. \A k \in 1..Len(there) : there[k] # NoName
        BY <3>1, <3>2
      <4>3. there \o <<>> = there
        BY <3>2
      <4> DEFINE none == <<>>
      <4>4. none \in Seq(Pieces) /\ (\A k \in 1..Len(none) : none[k] = NoName) /\ there \o none = there
        BY <4>1, <4>3
      <4> HIDE DEF none, there
      <4>5. WithoutTrailing(there \o none) = there
        BY <4>2, <4>4, <3>2, TrailingIsNothing
      <4> QED
        BY <4>4, <4>5
    <3> DEFINE to == <<there>>
    <3>4. to # <<>> /\ to[1] = there
      OBVIOUS
    <3> HIDE DEF there
    <3>5. \A q \in inside : /\ movedTo(q) = there \o Rest(r, q) /\ movedTo(q) \in Seq(Pieces)
                            /\ Rest(there, movedTo(q)) = Rest(r, q) /\ IsPrefix(there, movedTo(q))
      <4> TAKE q \in inside
      <4>1. movedTo(q) = there \o Rest(r, q)
        BY DEF Rest
      <4>2. Rest(r, q) \in Seq(Pieces)
        BY <2>4
      <4> HIDE DEF movedTo
      <4>3. there \o Rest(r, q) \in Seq(Pieces)
        BY <3>2, <4>2
      <4>4. Rest(there, there \o Rest(r, q)) = Rest(r, q) /\ IsPrefix(there, there \o Rest(r, q))
        BY <3>2, <4>2, RestOfJoined
      <4> QED
        BY <4>1, <4>3, <4>4
    <3>6. \A q \in inside : movedTo(q) # there /\ Tail(movedTo(q)) = Rest(r, q)
      <4> TAKE q \in inside
      <4> DEFINE b == Rest(r, q)
      <4>1. b \in Seq(Pieces) /\ b # <<>> /\ movedTo(q) = there \o b
        BY <2>4, <3>5
      <4> HIDE DEF b, movedTo
      <4>2. Len(b) # 0 /\ Len(b) \in Nat
        BY <4>1
      <4>3. Len(there \o b) = 1 + Len(b)
        <5>1. b \in Seq(Pieces) /\ there \in Seq(Pieces)
          BY <4>1, <3>2
        <5>2. \A x \in Seq(Pieces), y \in Seq(Pieces) : Len(x \o y) = Len(x) + Len(y)
          OBVIOUS
        <5>3. Len(there \o b) = Len(there) + Len(b)
          BY <5>1, <5>2
        <5> QED
          BY <5>3, <3>2
      <4>4. SubSeq(there \o b, 1 + 1, Len(there \o b)) = b
        BY <4>1, <3>2, JoinedRest
      <4>5. there \o b \in Seq(Pieces)
        BY <4>1, <3>2, Joined
      <4>6. Tail(there \o b) = SubSeq(there \o b, 1 + 1, Len(there \o b))
        <5> DEFINE c == there \o b
        <5>1. c \in Seq(Pieces) /\ Len(c) # 0
          BY <4>2, <4>3, <4>5
        <5> HIDE DEF c
        <5>2. Tail(c) = SubSeq(c, 1 + 1, Len(c))
          BY <5>1
        <5> QED
          BY <5>2 DEF c
      <4> QED
        BY <4>1, <4>2, <4>3, <4>4, <4>6, <3>2 DEF b
    <3>7. DOMAIN moved = {movedTo(q) : q \in inside}
      OBVIOUS
    <3>8. \A q \in inside : moved[movedTo(q)] = q
      <4> TAKE q \in inside
      <4>1. movedTo(q) \in {movedTo(d) : d \in inside}
        OBVIOUS
      <4>2. moved[movedTo(q)] = r \o Tail(movedTo(q))
        BY <4>1
      <4> HIDE DEF moved, movedTo
      <4> QED
        BY <4>2, <3>6, <2>4
    <3> HIDE DEF moved, movedTo, to, inside
    <3> DEFINE within == DOMAIN moved
    <3>9. within = {p \in DOMAIN moved : IsPrefix(there, p)} /\ \A p \in within : p # there
      BY <3>5, <3>6, <3>7
    <3> HIDE DEF within
    <3>10. BundleEntries(moved, to) = {[path |-> Rest(there, p), meta |-> moved[p]] : p \in within}
      <4>1. WithoutTrailing(to[1]) = there
        BY <3>3, <3>4
      <4> QED
        BY <4>1, <3>4, <3>9, EntriesAre
    <3>11. {[path |-> Rest(there, p), meta |-> moved[p]] : p \in within} = {EntryOf(r, q) : q \in inside}
      <4>1. \A q \in inside : [path |-> Rest(there, movedTo(q)), meta |-> moved[movedTo(q)]] = EntryOf(r, q)
        BY <3>5, <3>8 DEF EntryOf
      <4>2. within = {movedTo(q) : q \in inside}
        BY <3>7 DEF within
      <4> QED
        BY <4>1, <4>2
    <3> QED
      BY <3>10, <3>11, <2>5 DEF moved, movedTo, to, there
  <2> QED
    BY <1>2, <2>1, <2>7, <2>8, <2>9, <2>10 DEF BundleLeadsBack
<1> QED
  BY <1>1, <1>2

-----------------------------------------------------------------------------
(* Files. *)

\* What is asked, told and shown of files.
FilesInv ==
  /\ fileAsked.rel.segs \in Seq(Segments) /\ fileAsked.mount.rules \in Seq(MountRules)
  /\ fileAnswer = AnswerTo(fileAsked)
  /\ IncludeTypes(included)
  /\ ScopeIs(bundleSeen)
  /\ fsBatch \subseteq Seq(Names)
  /\ DOMAIN toldPaths = MountRoots
  /\ \A root \in MountRoots : root # AppRoot => toldPaths[root] = {}
  /\ (AppRoot \in watching /\ fsBatch # {}) => toldPaths[AppRoot] = Handed(fsBatch)

\* So a path that leaves its mount is not sent.
LEMMA FilesStayInMount == ASSUME FilesInv PROVE StaysInMount
<1> DEFINE rel == fileAsked.rel
<1>1. fileAnswer.path = ResolveUnder(AppRoot, rel) /\ fileAnswer.result = OpResult(fileAsked.available, rel, fileAsked.outcome)
  BY DEF FilesInv, AnswerTo
<1>2. fileAnswer.result \notin {"unavailable", "invalid-path"} => Accepted(rel)
  BY <1>1 DEF OpResult
<1>3. Accepted(rel) => /\ IsPrefix(AppRoot, fileAnswer.path)
                       /\ \A k \in DOMAIN fileAnswer.path : fileAnswer.path[k] \in Names \union ToSet(AppRoot)
  <2>1. rel.segs \in Seq(Segments)
    BY DEF FilesInv
  <2> HIDE DEF rel
  <2> QED
    BY <2>1, <1>1, UnderTheRoot
<1> QED
  BY <1>2, <1>3 DEF StaysInMount

\* So a change is told by the path that reads it back.
LEMMA ChangesReadBack == ASSUME FilesInv PROVE ChangeReadsBack
<1>1. ASSUME NEW p \in Seq(Names) PROVE Kept(p, Named) = p
  <2>1. \A x \in ToSet(p) : x \in Named
    BY NamesAre DEF ToSet
  <2> QED
    BY <2>1, KeptAre
<1>2. \A p \in fsBatch : ResolveUnder(AppRoot, [absolute |-> FALSE, segs |-> p]) = AppRoot \o p
  BY <1>1 DEF FilesInv, ResolveUnder
<1>3. {ResolveUnder(AppRoot, rel) : rel \in Handed(fsBatch)} = {AppRoot \o p : p \in fsBatch}
  BY <1>2 DEF Handed
<1> QED
  BY <1>3 DEF FilesInv, ChangeReadsBack

\* So the files agree.
LEMMA FilesAgreeThen == ASSUME FilesInv PROVE FilesAgree
<1>1. WriteRuleIsDeepest
  <2>1. fileAnswer.writable = WritableAt(fileAsked.mount, fileAsked.rel)
    BY DEF FilesInv, AnswerTo
  <2> QED
    BY <2>1, RuleIsDeepest DEF FilesInv
<1>2. IncludeReadsNamed
  BY IncludeIsRead DEF FilesInv
<1>3. BundleLeadsBack
  BY ScopeLeadsBack DEF FilesInv
<1> QED
  BY <1>1, <1>2, <1>3, FilesStayInMount, ChangesReadBack DEF FilesAgree

\* What a path is.
LEMMA PathSegments ==
  ASSUME NEW S, NEW n \in Nat, NEW p \in PathsOf(S, n)
  PROVE  p.absolute \in BOOLEAN /\ p.segs \in Seq(S)
<1>1. p.absolute \in BOOLEAN /\ p.segs \in BoundedSeq(S, n)
  BY DEF PathsOf
<1>2. PICK m \in 0..n : p.segs \in [1..m -> S]
  BY <1>1 DEF BoundedSeq, SeqOf
<1>3. p.segs \in Seq(S)
  BY <1>2
<1> QED
  BY <1>1, <1>3

\* The scope before the first component.
LEMMA NoScopeIs == ScopeIs(NoScope)
<1>1. NoScope.stored = <<>> /\ NoScope.root = <<>> /\ NoScope.entry = <<>> /\ NoScope.entries = {} /\ NoScope.current = <<>>
  BY DEF NoScope
<1>2. DOMAIN <<>> = {}
  OBVIOUS
<1>3. BundleEntries(<<>>, <<>>) = {} /\ CurrentEntry(<<>>, <<>>, <<>>) = <<>>
  BY <1>2 DEF BundleEntries, CurrentEntry
<1>4. <<>> \in BundleRoots /\ <<>> \in BundleNames
  BY DEF BundleRoots, BundleNames
<1> QED
  BY <1>1, <1>2, <1>3, <1>4 DEF ScopeIs

\* The empty sequence is a sequence of anything.
LEMMA NothingIsTyped == \A S : <<>> \in Seq(S)
OBVIOUS

\* Nothing was asked, told or shown before the first step.
LEMMA FilesInitially == ASSUME Init PROVE FilesInv
<1>1. FilesInit
  BY DEF Init
<1>2. NoCall.rel.segs = <<>> /\ NoCall.rel.absolute = FALSE /\ NoCall.mount.rules = <<>>
  BY DEF NoCall
<1>3. IncludeTypes(included)
  <2>1. included.segs = <<>> /\ included.absolute = FALSE
    BY <1>1, <1>2 DEF FilesInit
  <2> QED
    BY <2>1, NothingIsTyped DEF IncludeTypes
<1> QED
  BY <1>1, <1>2, <1>3, NothingIsTyped, NoScopeIs DEF FilesInit, FilesInv

\* A call keeps it: its answer is the one the mount gives.
LEMMA CallKeeps ==
  ASSUME FilesInv, NEW rel, rel.segs \in Seq(Segments), NEW rules \in Seq(MountRules), NEW mode, CallFiles(rel, rules, mode)
  PROVE  FilesInv'
<1>1. fileAsked' = [NoCall EXCEPT !.rel = rel, !.mount = [rules |-> rules, mode |-> mode]]
  BY DEF CallFiles
<1>2. fileAsked'.rel = rel /\ fileAsked'.mount.rules = rules
  BY <1>1 DEF NoCall
<1>3. fileAnswer' = AnswerTo(fileAsked)'
  BY DEF CallFiles, AnswerTo
<1> QED
  BY <1>2, <1>3 DEF CallFiles, FilesInv, IncludeTypes, ScopeIs

\* A call that fails keeps it: nothing is written.
LEMMA FailKeeps ==
  ASSUME FilesInv, NEW rel, rel.segs \in Seq(Segments), NEW available, NEW outcome, CallFails(rel, available, outcome)
  PROVE  FilesInv'
<1>1. fileAsked' = [NoCall EXCEPT !.rel = rel, !.available = available, !.outcome = outcome]
  BY DEF CallFails
<1>2. fileAsked'.rel = rel /\ fileAsked'.mount.rules = <<>>
  BY <1>1 DEF NoCall
<1>3. fileAnswer' = AnswerTo(fileAsked)'
  BY DEF CallFails, AnswerTo
<1> QED
  BY <1>2, <1>3, NothingIsTyped DEF CallFails, FilesInv, IncludeTypes, ScopeIs

\* A component that is shown keeps it.
LEMMA ShowKeeps ==
  ASSUME FilesInv, NEW paths \in SUBSET DocumentPaths, NEW root \in BundleRoots, NEW name \in BundleNames,
         ShowBundle([p \in paths |-> p], root, name)
  PROVE  FilesInv'
<1>1. ScopeIs(bundleSeen)'
  BY DEF ShowBundle, ScopeIs
<1> QED
  BY <1>1 DEF ShowBundle, FilesInv, IncludeTypes

\* Every step keeps it.
LEMMA FilesStep == ASSUME FilesInv, [Next]_vars PROVE FilesInv'
<1>1. ASSUME NEW rel \in RelPaths, NEW mode \in Modes, NEW rules \in BoundedSeq(ExploredRules, 2), CallFiles(rel, rules, mode)
      PROVE  FilesInv'
  <2>1. rel.segs \in Seq(Segments)
    BY PathSegments, FilesAssumption DEF RelPaths
  <2>2. rules \in Seq(MountRules)
    <3>1. PICK m \in 0..2 : rules \in [1..m -> ExploredRules]
      BY DEF BoundedSeq, SeqOf
    <3> QED
      BY <3>1, FilesAssumption
  <2> QED
    BY <2>1, <2>2, <1>1, CallKeeps
<1>2. ASSUME NEW rel \in RelPaths, NEW available \in BOOLEAN, NEW outcome \in Errnos \union {"ok"}, CallFails(rel, available, outcome)
      PROVE  FilesInv'
  <2>1. rel.segs \in Seq(Segments)
    BY PathSegments, FilesAssumption DEF RelPaths
  <2> QED
    BY <2>1, <1>2, FailKeeps
<1>3. ASSUME NEW p \in IncludePaths, IncludeFile(p)
      PROVE  FilesInv'
  <2>1. MaxSegments + 1 \in Nat
    BY FilesAssumption
  <2>2. IncludeTypes(p)
    BY <2>1, PathSegments DEF IncludePaths, IncludeTypes
  <2> QED
    BY <2>2, <1>3 DEF IncludeFile, FilesInv, IncludeTypes, ScopeIs, AnswerTo
<1>4. ASSUME NEW paths \in SUBSET DocumentPaths, NEW root \in BundleRoots, NEW name \in BundleNames,
             ShowBundle([p \in paths |-> p], root, name)
      PROVE  FilesInv'
  BY <1>4, ShowKeeps
<1>5. ASSUME NEW root \in MountRoots, WatchFiles(root)
      PROVE  FilesInv'
  BY <1>5 DEF WatchFiles, FilesInv, IncludeTypes, ScopeIs, AnswerTo
<1>6. ASSUME NEW root \in MountRoots, UnwatchFiles(root)
      PROVE  FilesInv'
  BY <1>6 DEF UnwatchFiles, FilesInv, IncludeTypes, ScopeIs, AnswerTo
<1>7. ASSUME NEW batch \in SUBSET {<<n>> : n \in Names}, FilesChange(batch)
      PROVE  FilesInv'
  <2>1. batch \subseteq Seq(Names)
    OBVIOUS
  <2> QED
    BY <2>1, <1>7, FilesAssumption DEF FilesChange, FilesInv, IncludeTypes, ScopeIs, AnswerTo
<1>8. CASE UNCHANGED fileVars
  BY <1>8 DEF fileVars, FilesInv, IncludeTypes, ScopeIs, AnswerTo
<1> QED
  BY <1>1, <1>2, <1>3, <1>4, <1>5, <1>6, <1>7, <1>8, FilesOrNot DEF FilesNext

\* A file is the same file to all who name it: no path leaves its mount, the deepest rule around
\* a file decides whether it is written, a change is told by the path that reads it, an include
\* reads what it names, and the entry of a document leads back to it (fs.ts:184, fs.ts:203).
THEOREM FilesAreAgreed == Spec => []FilesAgree
<1>1. Init => FilesInv
  BY FilesInitially
<1>2. FilesInv /\ [Next]_vars => FilesInv'
  BY FilesStep
<1>3. FilesInv => FilesAgree
  BY FilesAgreeThen
<1> QED
  BY <1>1, <1>2, <1>3, PTL DEF Spec

-----------------------------------------------------------------------------
(* Links of a bundle: the fold and the walk. *)

\* A list is made from the first to the last by these steps.
IsMade(X, first, N, next) == \E g \in [0..N -> X] : g[0] = first /\ \A k \in 1..N : g[k] = next[k][g[k - 1]]

\* There is such a list: the least place where there were none would have one before it.
LEMMA StepsAreThere ==
  ASSUME NEW X, NEW first \in X, NEW N \in Nat, NEW next \in [1..N -> [X -> X]]
  PROVE  IsMade(X, first, N, next)
<1> DEFINE goes(g, n) == g[0] = first /\ \A k \in 1..n : g[k] = next[k][g[k - 1]]
<1> DEFINE odd == {n \in 0..N : ~\E g \in [0..n -> X] : goes(g, n)}
<1>1. ASSUME odd # {} PROVE FALSE
  <2>1. odd \subseteq Nat
    OBVIOUS
  <2>2. PICK n \in odd : \A m \in odd : n <= m
    <3> HIDE DEF odd
    <3> QED
      BY <1>1, <2>1, LeastNatural
  <2>3. n \in 0..N /\ ~\E g \in [0..n -> X] : goes(g, n)
    BY <2>2
  <2>4. CASE n = 0
    <3>1. [k \in 0..0 |-> first] \in [0..0 -> X] /\ goes([k \in 0..0 |-> first], 0)
      OBVIOUS
    <3> QED
      BY <3>1, <2>3, <2>4
  <2>5. CASE n # 0
    <3>1. n - 1 \in 0..N /\ ~(n <= n - 1) /\ n \in 1..N
      BY <2>3, <2>5
    <3>2. n - 1 \notin odd
      <4> HIDE DEF odd
      <4> QED
        BY <2>2, <3>1
    <3>3. PICK g \in [0..(n - 1) -> X] : goes(g, n - 1)
      BY <3>1, <3>2
    <3> DEFINE last == next[n][g[n - 1]]
    <3>4. last \in X
      BY <3>1
    <3> DEFINE h == [k \in 0..n |-> IF k = n THEN last ELSE g[k]]
    <3>5. h \in [0..n -> X] /\ h[n] = last /\ \A k \in 0..(n - 1) : h[k] = g[k]
      <4> HIDE DEF last
      <4> QED
        BY <3>1, <3>4
    <3> HIDE DEF h
    <3>6. goes(h, n)
      <4>1. h[0] = first
        BY <3>1, <3>3, <3>5
      <4>2. ASSUME NEW k \in 1..n PROVE h[k] = next[k][h[k - 1]]
        <5>1. CASE k = n
          BY <5>1, <3>1, <3>5
        <5>2. CASE k # n
          <6>1. k \in 1..(n - 1) /\ k \in 0..(n - 1) /\ k - 1 \in 0..(n - 1)
            BY <5>2, <3>1
          <6> QED
            BY <6>1, <3>3, <3>5
        <5> QED
          BY <5>1, <5>2
      <4> QED
        BY <4>1, <4>2
    <3> QED
      BY <3>5, <3>6, <2>3
  <2> QED
    BY <2>4, <2>5
<1> QED
  BY <1>1 DEF IsMade

\* What a link and a walk are read to.
Walked == [ups : Nat, segs : Seq(LinkSegs)]

\* What a segment of a link may be.
LEMMA SegmentsAre ==
  /\ LinkNames \subseteq LinkSegs
  /\ {"..", ".", "%2e"} \subseteq LinkSegs /\ "bad" \in LinkSegs
  /\ \A x \in LinkSegs : x \in LinkNames \/ x \in {"..", ".", "%2e", "bad"}
  /\ \A x \in LinkNames : x # ".." /\ x # "." /\ x # "%2e"
  /\ "bad" # ".." /\ "bad" # "." /\ "bad" # "%2e"
  /\ "%2e" # ".." /\ "%2e" # "." /\ ".." # "."
BY LinksAssumption DEF LinkSegs

\* A segment that is read leaves what a link may be read to.
LEMMA FoldedIsWalked ==
  ASSUME NEW at \in Walked, NEW x \in LinkSegs
  PROVE  Folded(at, x) \in Walked
<1>1. at.ups \in Nat /\ at.segs \in Seq(LinkSegs)
  BY DEF Walked
<1>2. EncodedDot \in Walked
  BY SegmentsAre DEF EncodedDot, Walked
<1>3. [at EXCEPT !.segs = Append(@, x)] \in Walked
  BY <1>1 DEF Walked
<1>4. at.segs # <<>> => [at EXCEPT !.segs = Front(@)] \in Walked
  BY <1>1 DEF Walked, Front
<1>5. [at EXCEPT !.ups = @ + 1] \in Walked
  BY <1>1 DEF Walked
<1> QED
  BY <1>2, <1>3, <1>4, <1>5 DEF Folded

\* So does a segment that is walked.
LEMMA ClimbedIsWalked ==
  ASSUME NEW at \in Walked, NEW seg \in LinkSegs
  PROVE  Climbed(at, seg) \in Walked
<1>1. at.ups \in Nat /\ at.segs \in Seq(LinkSegs)
  BY DEF Walked
<1>2. [at EXCEPT !.ups = @ + 1] \in Walked
  BY <1>1 DEF Walked
<1>3. at.ups > 0 => [at EXCEPT !.ups = @ - 1] \in Walked
  BY <1>1 DEF Walked
<1>4. [at EXCEPT !.segs = <<seg>> \o @] \in Walked
  <2>1. <<seg>> \o at.segs \in Seq(LinkSegs)
    BY <1>1
  <2> QED
    BY <2>1 DEF Walked
<1> QED
  BY <1>1, <1>2, <1>3, <1>4 DEF Climbed

\* What the fold holds after each segment, from the left.
FoldsTo(g, start, parts) == g[0] = start /\ \A k \in 1..Len(parts) : g[k] = Folded(g[k - 1], parts[k])

\* FoldSegments is the last of them.
LEMMA FoldIsThere ==
  ASSUME NEW start \in Walked, NEW parts \in Seq(LinkSegs)
  PROVE  \E g : FoldsTo(g, start, parts) /\ FoldSegments(start, parts) = g[Len(parts)]
<1> DEFINE N == Len(parts)
<1> DEFINE next == [k \in 1..N |-> [x \in Walked |-> Folded(x, parts[k])]]
<1> DEFINE all(g) == [n \in 0..N |-> IF n = 0 THEN start ELSE Folded(g[n - 1], parts[n])]
<1>1. N \in Nat /\ \A k \in 1..N : parts[k] \in LinkSegs
  OBVIOUS
<1>2. next \in [1..N -> [Walked -> Walked]]
  BY <1>1, FoldedIsWalked
<1>3. PICK g \in [0..N -> Walked] : g[0] = start /\ \A k \in 1..N : g[k] = next[k][g[k - 1]]
  <2> HIDE DEF next, N
  <2>1. IsMade(Walked, start, N, next)
    BY <1>1, <1>2, StepsAreThere
  <2> QED
    BY <2>1 DEF IsMade
<1>4. \A k \in 1..N : g[k] = Folded(g[k - 1], parts[k])
  BY <1>1, <1>3
<1>5. g = all(g)
  BY <1>1, <1>3, <1>4
<1> DEFINE f == CHOOSE h : h = all(h)
<1>6. f = all(f)
  <2> HIDE DEF all
  <2> QED
    BY <1>5
<1>7. FoldSegments(start, parts) = f[N]
  BY DEF FoldSegments
<1>8. FoldsTo(f, start, parts)
  <2> HIDE DEF f
  <2>1. 0 \in 0..N /\ \A k \in 1..N : k \in 0..N /\ k # 0
    BY <1>1
  <2>2. \A n \in 0..N : f[n] = IF n = 0 THEN start ELSE Folded(f[n - 1], parts[n])
    BY <1>6
  <2> QED
    BY <2>1, <2>2 DEF FoldsTo
<1> QED
  BY <1>7, <1>8

\* What the walk holds after each segment, from the right.
ClimbsTo(g, segs) == g[0] = Top /\ \A k \in 1..Len(segs) : g[k] = Climbed(g[k - 1], segs[Len(segs) - k + 1])

\* Climb is the last of them.
LEMMA ClimbIsThere ==
  ASSUME NEW segs \in Seq(LinkSegs)
  PROVE  \E g : ClimbsTo(g, segs) /\ Climb(segs) = g[Len(segs)]
<1> DEFINE N == Len(segs)
<1> DEFINE next == [k \in 1..N |-> [x \in Walked |-> Climbed(x, segs[N - k + 1])]]
<1> DEFINE all(g) == [n \in 0..N |-> IF n = 0 THEN Top ELSE Climbed(g[n - 1], segs[N - n + 1])]
<1>1. N \in Nat /\ \A k \in 1..N : segs[N - k + 1] \in LinkSegs
  OBVIOUS
<1>2. next \in [1..N -> [Walked -> Walked]]
  BY <1>1, ClimbedIsWalked
<1>a. Top \in Walked
  BY DEF Top, Walked
<1>3. PICK g \in [0..N -> Walked] : g[0] = Top /\ \A k \in 1..N : g[k] = next[k][g[k - 1]]
  <2> HIDE DEF next, N
  <2>1. IsMade(Walked, Top, N, next)
    BY <1>a, <1>1, <1>2, StepsAreThere
  <2> QED
    BY <2>1 DEF IsMade
<1>4. \A k \in 1..N : g[k] = Climbed(g[k - 1], segs[N - k + 1])
  BY <1>1, <1>3
<1>5. g = all(g)
  BY <1>1, <1>3, <1>4
<1> DEFINE f == CHOOSE h : h = all(h)
<1>6. f = all(f)
  <2> HIDE DEF all
  <2> QED
    BY <1>5
<1>7. Climb(segs) = f[N]
  BY DEF Climb
<1>8. ClimbsTo(f, segs)
  <2> HIDE DEF f
  <2>1. 0 \in 0..N /\ \A k \in 1..N : k \in 0..N /\ k # 0
    BY <1>1
  <2>2. \A n \in 0..N : f[n] = IF n = 0 THEN Top ELSE Climbed(f[n - 1], segs[N - n + 1])
    BY <1>6
  <2> QED
    BY <2>1, <2>2 DEF ClimbsTo
<1> QED
  BY <1>7, <1>8

-----------------------------------------------------------------------------
(* Links of a bundle: one segment. *)

\* What is read of segments that hide nothing.
Places == LinkNames \union {"bad"}
\* What is read and walked of them.
PlainWalk == [ups : Nat, segs : Seq(Places)]

\* A place is a segment that is neither a step nor a hidden dot.
LEMMA PlacesAre ==
  /\ \A x \in Places : x # ".." /\ x # "." /\ x # "%2e"
  /\ \A x \in LinkSegs : x \in Places \/ x \in {"..", ".", "%2e"}
BY SegmentsAre DEF Places

\* No hidden dot is among them.
LEMMA PlainHidesNothing ==
  ASSUME NEW at \in PlainWalk
  PROVE  at # EncodedDot
<1>1. at.segs \in Seq(Places)
  BY DEF PlainWalk
<1>2. EncodedDot.segs = <<"%2e">>
  BY DEF EncodedDot
<1>3. at.segs = <<"%2e">> => at.segs[1] \in Places /\ at.segs[1] = "%2e"
  BY <1>1
<1> QED
  BY <1>2, <1>3, PlacesAre

\* A link read so far, and what is to the right of it, walked: together.
Met(u, s, v, t) ==
  IF v <= Len(s) THEN [ups |-> u, segs |-> SubSeq(s, 1, Len(s) - v) \o t]
  ELSE [ups |-> u + (v - Len(s)), segs |-> t]
\* So they do.
Meet(at, w) == Met(at.ups, at.segs, w.ups, w.segs)

\* A step up is the same to both.
LEMMA UpMeets ==
  ASSUME NEW u \in Nat, NEW v \in Nat, NEW s \in Seq(Places), NEW t \in Seq(Places)
  PROVE  /\ s # <<>> => Met(u, SubSeq(s, 1, Len(s) - 1), v, t) = Met(u, s, v + 1, t)
         /\ s = <<>> => Met(u + 1, s, v, t) = Met(u, s, v + 1, t)
<1>1. CASE s # <<>>
  <2> DEFINE f == SubSeq(s, 1, Len(s) - 1)
  <2>1. f \in Seq(Places) /\ Len(f) = Len(s) - 1 /\ Len(s) \in Nat /\ Len(s) > 0
    <3>1. Len(s) - 1 \in 0..Len(s) /\ Len(s) \in Nat /\ Len(s) > 0
      BY <1>1
    <3>2. IsInTwo(Places, s, Len(s) - 1)
      BY <3>1, InTwo
    <3> QED
      BY <3>1, <3>2 DEF IsInTwo
  <2>2. ASSUME v <= Len(f) PROVE SubSeq(f, 1, Len(f) - v) = SubSeq(s, 1, Len(s) - (v + 1))
    BY <1>1, <2>1, <2>2
  <2> HIDE DEF f
  <2>3. v <= Len(f) <=> v + 1 <= Len(s)
    BY <2>1
  <2>4. u + (v - Len(f)) = u + ((v + 1) - Len(s))
    BY <2>1
  <2>5. Met(u, f, v, t) = Met(u, s, v + 1, t)
    BY <2>2, <2>3, <2>4 DEF Met
  <2> QED
    BY <1>1, <2>5 DEF f
<1>2. CASE s = <<>>
  <2>1. Len(s) = 0
    BY <1>2
  <2>2. v = 0 => SubSeq(s, 1, Len(s) - v) = <<>> /\ <<>> \o t = t
    BY <1>2
  <2>3. u + 1 + (v - 0) = u + ((v + 1) - 0) /\ ~(v + 1 <= 0) /\ (v <= 0 => v = 0) /\ u + 1 = u + ((0 + 1) - 0)
    OBVIOUS
  <2> QED
    BY <1>2, <2>1, <2>2, <2>3 DEF Met
<1> QED
  BY <1>1, <1>2

\* A name is the same to both.
LEMMA NameMeets ==
  ASSUME NEW u \in Nat, NEW v \in Nat, NEW s \in Seq(Places), NEW t \in Seq(Places), NEW x \in Places
  PROVE  /\ v = 0 => Met(u, Append(s, x), v, t) = Met(u, s, v, <<x>> \o t)
         /\ v > 0 => Met(u, Append(s, x), v, t) = Met(u, s, v - 1, t)
<1> DEFINE a == Append(s, x)
<1>1. a \in Seq(Places) /\ Len(a) = Len(s) + 1 /\ Len(s) \in Nat
  OBVIOUS
<1>2. CASE v = 0
  <2>1. SubSeq(a, 1, Len(a)) = a /\ SubSeq(s, 1, Len(s)) = s
    OBVIOUS
  <2>2. a \o t = s \o (<<x>> \o t)
    OBVIOUS
  <2>3. v <= Len(a) /\ v <= Len(s) /\ Len(a) - v = Len(a) /\ Len(s) - v = Len(s)
    BY <1>1, <1>2
  <2> HIDE DEF a
  <2>4. Met(u, a, v, t) = Met(u, s, v, <<x>> \o t)
    BY <2>1, <2>2, <2>3 DEF Met
  <2> QED
    BY <1>2, <2>4 DEF a
<1>3. CASE v > 0
  <2>1. v <= Len(a) <=> v - 1 <= Len(s)
    BY <1>1
  <2>2. ASSUME v <= Len(a) PROVE SubSeq(a, 1, Len(a) - v) = SubSeq(s, 1, Len(s) - (v - 1))
    BY <1>1, <1>3, <2>2
  <2>3. u + (v - Len(a)) = u + ((v - 1) - Len(s))
    BY <1>1
  <2> HIDE DEF a
  <2>4. Met(u, a, v, t) = Met(u, s, v - 1, t)
    BY <2>1, <2>2, <2>3 DEF Met
  <2> QED
    BY <1>3, <2>4 DEF a
<1> QED
  BY <1>2, <1>3

\* A walk with other segments.
LEMMA OtherSegs ==
  ASSUME NEW w \in PlainWalk, NEW y
  PROVE  [w EXCEPT !.segs = y] = [ups |-> w.ups, segs |-> y]
BY DEF PlainWalk

\* Reading one more segment from the left, or walking it from the right, is the same.
LEMMA StepsMeet ==
  ASSUME NEW at \in PlainWalk, NEW w \in PlainWalk, NEW x \in LinkSegs, x # "%2e"
  PROVE  /\ Folded(at, x) \in PlainWalk /\ Climbed(w, x) \in PlainWalk
         /\ Meet(Folded(at, x), w) = Meet(at, Climbed(w, x))
<1>1. /\ at.ups \in Nat /\ at.segs \in Seq(Places) /\ w.ups \in Nat /\ w.segs \in Seq(Places)
      /\ at = [ups |-> at.ups, segs |-> at.segs] /\ w = [ups |-> w.ups, segs |-> w.segs]
  BY DEF PlainWalk
<1>2. at # EncodedDot
  BY PlainHidesNothing
<1> DEFINE u == at.ups
<1> DEFINE s == at.segs
<1> DEFINE v == w.ups
<1> DEFINE t == w.segs
<1>3. u \in Nat /\ s \in Seq(Places) /\ v \in Nat /\ t \in Seq(Places)
  BY <1>1
<1>4. CASE x = "."
  <2>1. Folded(at, x) = at /\ Climbed(w, x) = w
    BY <1>4, PlacesAre DEF Folded, Climbed
  <2> QED
    BY <2>1
<1>5. CASE x = ".."
  <2>1. Climbed(w, x) = [ups |-> v + 1, segs |-> t]
    BY <1>1, <1>5 DEF Climbed
  <2>2. Folded(at, x) = IF s # <<>> THEN [ups |-> u, segs |-> SubSeq(s, 1, Len(s) - 1)] ELSE [ups |-> u + 1, segs |-> s]
    BY <1>1, <1>2, <1>5 DEF Folded, Front
  <2>3. s # <<>> => SubSeq(s, 1, Len(s) - 1) \in Seq(Places)
    BY <1>3
  <2> HIDE DEF u, s, v, t
  <2>4. Folded(at, x) \in PlainWalk /\ Climbed(w, x) \in PlainWalk
    BY <1>3, <2>1, <2>2, <2>3 DEF PlainWalk
  <2>5. Meet(at, Climbed(w, x)) = Met(u, s, v + 1, t)
    BY <2>1 DEF Meet, u, s
  <2>6. CASE s # <<>>
    <3>1. Meet(Folded(at, x), w) = Met(u, SubSeq(s, 1, Len(s) - 1), v, t)
      BY <2>2, <2>6 DEF Meet, v, t
    <3> QED
      BY <1>3, <2>4, <2>5, <2>6, <3>1, UpMeets
  <2>7. CASE s = <<>>
    <3>1. Meet(Folded(at, x), w) = Met(u + 1, s, v, t)
      BY <2>2, <2>7 DEF Meet, v, t
    <3> QED
      BY <1>3, <2>4, <2>5, <2>7, <3>1, UpMeets
  <2> QED
    BY <2>6, <2>7
<1>6. CASE x \in Places
  <2>1. Climbed(w, x) = IF v > 0 THEN [ups |-> v - 1, segs |-> t] ELSE [ups |-> v, segs |-> <<x>> \o t]
    <3>1. Climbed(w, x) = IF v > 0 THEN [w EXCEPT !.ups = @ - 1] ELSE [w EXCEPT !.segs = <<x>> \o t]
      BY <1>6, PlacesAre DEF Climbed
    <3>2. [w EXCEPT !.ups = @ - 1] = [ups |-> v - 1, segs |-> t]
      BY <1>1
    <3>3. [w EXCEPT !.segs = <<x>> \o t] = [ups |-> v, segs |-> <<x>> \o t]
      BY OtherSegs
    <3> QED
      BY <3>1, <3>2, <3>3
  <2>2. Folded(at, x) = [ups |-> u, segs |-> Append(s, x)]
    BY <1>1, <1>2, <1>6, PlacesAre DEF Folded
  <2>3. Append(s, x) \in Seq(Places) /\ <<x>> \o t \in Seq(Places)
    BY <1>3, <1>6
  <2> HIDE DEF u, s, v, t
  <2>4. Folded(at, x) \in PlainWalk /\ Climbed(w, x) \in PlainWalk
    BY <1>3, <2>1, <2>2, <2>3 DEF PlainWalk
  <2>5. Meet(Folded(at, x), w) = Met(u, Append(s, x), v, t)
    BY <2>2 DEF Meet, v, t
  <2>6. CASE v > 0
    <3>1. Meet(at, Climbed(w, x)) = Met(u, s, v - 1, t)
      BY <2>1, <2>6 DEF Meet, u, s
    <3> QED
      BY <1>3, <1>6, <2>4, <2>5, <2>6, <3>1, NameMeets
  <2>7. CASE v = 0
    <3>1. Meet(at, Climbed(w, x)) = Met(u, s, v, <<x>> \o t)
      BY <2>1, <2>7 DEF Meet, u, s
    <3> QED
      BY <1>3, <1>6, <2>4, <2>5, <2>7, <3>1, NameMeets
  <2> QED
    BY <1>3, <2>6, <2>7
<1> QED
  BY <1>4, <1>5, <1>6, PlacesAre

-----------------------------------------------------------------------------
(* Links of a bundle: the fold is the walk. *)

\* What is read from the left, one segment after another.
ReadTo(h, s) == h[0] = Top /\ \A k \in 1..Len(s) : h[k] = Folded(h[k - 1], s[k])

\* A walk of segments that hide nothing hides nothing.
LEMMA ClimbIsPlain ==
  ASSUME NEW s \in Seq(LinkSegs), \A k \in 1..Len(s) : s[k] # "%2e", NEW c, ClimbsTo(c, s)
  PROVE  \A n \in 0..Len(s) : c[n] \in PlainWalk
<1> DEFINE odd == {n \in 0..Len(s) : c[n] \notin PlainWalk}
<1>1. ASSUME odd # {} PROVE FALSE
  <2>1. odd \subseteq Nat
    OBVIOUS
  <2>2. PICK n \in odd : \A m \in odd : n <= m
    <3> HIDE DEF odd
    <3> QED
      BY <1>1, <2>1, LeastNatural
  <2>3. n \in 0..Len(s) /\ c[n] \notin PlainWalk
    BY <2>2
  <2>4. Top \in PlainWalk
    BY DEF Top, PlainWalk
  <2>5. n # 0
    BY <2>3, <2>4 DEF ClimbsTo
  <2>6. n - 1 \in 0..Len(s) /\ ~(n <= n - 1) /\ n \in 1..Len(s) /\ Len(s) - n + 1 \in 1..Len(s)
    BY <2>3, <2>5
  <2>7. c[n - 1] \in PlainWalk
    <3>1. n - 1 \notin odd
      <4> HIDE DEF odd
      <4> QED
        BY <2>2, <2>6
    <3> QED
      BY <2>6, <3>1
  <2>8. c[n] = Climbed(c[n - 1], s[Len(s) - n + 1])
    BY <2>6 DEF ClimbsTo
  <2>9. s[Len(s) - n + 1] \in LinkSegs /\ s[Len(s) - n + 1] # "%2e"
    BY <2>6
  <2>10. Climbed(c[n - 1], s[Len(s) - n + 1]) \in PlainWalk
    BY <2>7, <2>9, StepsMeet
  <2> QED
    BY <2>3, <2>8, <2>10
<1> QED
  BY <1>1

\* Reading from the left and walking from the right come to the same.
LEMMA ReadIsClimbed ==
  ASSUME NEW s \in Seq(LinkSegs), \A k \in 1..Len(s) : s[k] # "%2e", NEW h, ReadTo(h, s)
  PROVE  h[Len(s)] \in PlainWalk /\ h[Len(s)] = Climb(s)
<1> DEFINE N == Len(s)
<1>1. PICK c : ClimbsTo(c, s) /\ Climb(s) = c[N]
  BY ClimbIsThere
<1>2. \A n \in 0..N : c[n] \in PlainWalk
  BY <1>1, ClimbIsPlain
<1>3. N \in Nat /\ \A k \in 1..N : s[k] \in LinkSegs
  OBVIOUS
<1>4. Top \in PlainWalk /\ Top.ups = 0 /\ Top.segs = <<>>
  BY DEF Top, PlainWalk
<1>5. ASSUME NEW w \in PlainWalk PROVE Meet(Top, w) = w /\ Meet(w, Top) = w
  <2> DEFINE v == w.ups
  <2> DEFINE t == w.segs
  <2>1. v \in Nat /\ t \in Seq(Places) /\ w = [ups |-> v, segs |-> t]
    BY DEF PlainWalk
  <2>2. <<>> \o t = t /\ SubSeq(t, 1, Len(t) - 0) \o <<>> = t /\ 0 <= Len(t) /\ Len(<<>>) = 0
    BY <2>1
  <2>3. v <= 0 => v = 0 /\ SubSeq(<<>>, 1, 0 - v) = <<>>
    BY <2>1
  <2> HIDE DEF v, t
  <2>4. Met(v, t, 0, <<>>) = w
    BY <2>1, <2>2 DEF Met
  <2>5. Met(0, <<>>, v, t) = w
    <3>1. CASE v <= 0
      <4>1. v = 0 /\ SubSeq(<<>>, 1, Len(<<>>) - v) = <<>>
        BY <2>2, <2>3, <3>1
      <4> QED
        BY <2>1, <2>2, <4>1 DEF Met
    <3>2. CASE ~(v <= 0)
      <4>1. 0 + (v - 0) = v
        BY <2>1
      <4> QED
        BY <2>1, <2>2, <3>2, <4>1 DEF Met
    <3> QED
      BY <3>1, <3>2
  <2> QED
    BY <1>4, <2>4, <2>5 DEF Meet, v, t
<1> DEFINE odd == {n \in 0..N : ~(h[n] \in PlainWalk /\ Meet(h[n], c[N - n]) = c[N])}
<1>6. ASSUME odd # {} PROVE FALSE
  <2>1. odd \subseteq Nat
    OBVIOUS
  <2>2. PICK n \in odd : \A m \in odd : n <= m
    <3> HIDE DEF odd
    <3> QED
      BY <1>6, <2>1, LeastNatural
  <2>3. n \in 0..N /\ ~(h[n] \in PlainWalk /\ Meet(h[n], c[N - n]) = c[N])
    BY <2>2
  <2>4. CASE n = 0
    <3>1. h[0] = Top /\ N - 0 = N /\ N \in 0..N
      BY <1>3 DEF ReadTo
    <3> QED
      BY <1>2, <1>4, <1>5, <2>3, <2>4, <3>1
  <2>5. CASE n # 0
    <3>1. n - 1 \in 0..N /\ ~(n <= n - 1) /\ n \in 1..N /\ N - n \in 0..N /\ N - n + 1 \in 1..N
      BY <1>3, <2>3, <2>5
    <3>2. N - (n - 1) = N - n + 1 /\ N - (N - n + 1) + 1 = n /\ (N - n + 1) - 1 = N - n
      BY <1>3, <3>1
    <3>3. h[n - 1] \in PlainWalk /\ Meet(h[n - 1], c[N - n + 1]) = c[N]
      <4>1. n - 1 \notin odd
        <5> HIDE DEF odd
        <5> QED
          BY <2>2, <3>1
      <4> QED
        BY <3>1, <3>2, <4>1
    <3>4. h[n] = Folded(h[n - 1], s[n])
      BY <3>1 DEF ReadTo
    <3>5. c[N - n + 1] = Climbed(c[N - n], s[n])
      BY <1>1, <3>1, <3>2 DEF ClimbsTo
    <3>6. c[N - n] \in PlainWalk /\ s[n] \in LinkSegs /\ s[n] # "%2e"
      BY <1>2, <1>3, <3>1
    <3>7. h[n] \in PlainWalk /\ Meet(h[n], c[N - n]) = Meet(h[n - 1], c[N - n + 1])
      BY <3>3, <3>4, <3>5, <3>6, StepsMeet
    <3> QED
      BY <2>3, <3>3, <3>7
  <2> QED
    BY <2>4, <2>5
<1>7. h[N] \in PlainWalk /\ Meet(h[N], c[0]) = c[N]
  <2>1. N \in 0..N /\ N - N = 0
    BY <1>3
  <2> QED
    BY <1>6, <2>1
<1>8. c[0] = Top
  BY <1>1 DEF ClimbsTo
<1> QED
  BY <1>1, <1>5, <1>7, <1>8

\* A link without a hidden dot, read from the directory it is in, ends where the walk does.
LEMMA FoldIsClimb ==
  ASSUME NEW dir \in Seq(LinkNames), NEW parts \in Seq(LinkSegs), \A k \in 1..Len(parts) : parts[k] # "%2e"
  PROVE  LET target == FoldSegments([ups |-> 0, segs |-> dir], parts)
         IN  target \in PlainWalk /\ target = Climb(dir \o parts)
<1> DEFINE start == [ups |-> 0, segs |-> dir]
<1> DEFINE D == Len(dir)
<1> DEFINE P == Len(parts)
<1> DEFINE s == dir \o parts
<1>1. D \in Nat /\ P \in Nat /\ dir \in Seq(LinkSegs) /\ \A k \in 1..D : dir[k] \in LinkNames
  BY SegmentsAre
<1>2. s \in Seq(LinkSegs) /\ Len(s) = D + P /\ (\A k \in 1..D : s[k] = dir[k]) /\ \A k \in 1..P : s[D + k] = parts[k]
  BY <1>1, Joined, JoinedRest
<1>3. start \in Walked
  BY <1>1 DEF Walked
<1>4. PICK g : FoldsTo(g, start, parts) /\ FoldSegments(start, parts) = g[P]
  <2> HIDE DEF start
  <2> QED
    BY <1>3, FoldIsThere
<1> HIDE DEF s
<1> DEFINE h == [n \in 0..(D + P) |-> IF n <= D THEN [ups |-> 0, segs |-> SubSeq(dir, 1, n)] ELSE g[n - D]]
<1>5. \A k \in 1..Len(s) : s[k] # "%2e"
  <2> TAKE k \in 1..Len(s)
  <2>1. CASE k <= D
    BY <1>1, <1>2, <2>1, SegmentsAre
  <2>2. CASE ~(k <= D)
    <3>1. k - D \in 1..P /\ D + (k - D) = k
      BY <1>1, <1>2, <2>2
    <3>2. s[D + (k - D)] = parts[k - D]
      BY <1>2, <3>1
    <3> QED
      BY <3>1, <3>2
  <2> QED
    BY <2>1, <2>2
<1>6. h[0] = Top
  BY <1>1 DEF Top
<1>7. ASSUME NEW k \in 1..Len(s), k <= D PROVE h[k] = Folded(h[k - 1], s[k])
  <2>1. k \in 0..(D + P) /\ k - 1 \in 0..(D + P) /\ k - 1 <= D /\ k \in 1..D /\ k - 1 \in 0..D
    BY <1>1, <1>2, <1>7
  <2>2. h[k] = [ups |-> 0, segs |-> SubSeq(dir, 1, k)] /\ h[k - 1] = [ups |-> 0, segs |-> SubSeq(dir, 1, k - 1)]
    BY <2>1, <1>7
  <2>3. SubSeq(dir, 1, k - 1) \in Seq(Places)
    <3>1. IsInTwo(LinkNames, dir, k - 1)
      BY <2>1, InTwo
    <3>2. SubSeq(dir, 1, k - 1) \in Seq(LinkNames)
      BY <3>1 DEF IsInTwo
    <3> QED
      BY <3>2, MoreIsTyped DEF Places
  <2>4. s[k] = dir[k] /\ dir[k] \in LinkNames
    BY <1>1, <1>2, <2>1
  <2>5. Append(SubSeq(dir, 1, k - 1), dir[k]) = SubSeq(dir, 1, k)
    BY <1>1, <2>1
  <2> HIDE DEF h
  <2> DEFINE at == [ups |-> 0, segs |-> SubSeq(dir, 1, k - 1)]
  <2>6. at \in PlainWalk
    BY <2>3 DEF PlainWalk
  <2>7. at # EncodedDot
    <3> HIDE DEF at
    <3> QED
      BY <2>6, PlainHidesNothing
  <2>8. Folded(at, dir[k]) = [at EXCEPT !.segs = Append(@, dir[k])]
    <3> HIDE DEF at
    <3> QED
      BY <2>4, <2>7, SegmentsAre DEF Folded
  <2>9. [at EXCEPT !.segs = Append(@, dir[k])] = [ups |-> 0, segs |-> Append(SubSeq(dir, 1, k - 1), dir[k])]
    <3>1. at.ups = 0 /\ at.segs = SubSeq(dir, 1, k - 1)
      OBVIOUS
    <3> HIDE DEF at
    <3>2. [at EXCEPT !.segs = Append(@, dir[k])] = [ups |-> at.ups, segs |-> Append(at.segs, dir[k])]
      <4> DEFINE y == Append(at.segs, dir[k])
      <4>1. [at EXCEPT !.segs = Append(@, dir[k])] = [at EXCEPT !.segs = y]
        BY Zenon DEF y
      <4> HIDE DEF y
      <4>2. [at EXCEPT !.segs = y] = [ups |-> at.ups, segs |-> y]
        BY <2>6, OtherSegs
      <4> QED
        BY <4>1, <4>2 DEF y
    <3> QED
      BY <3>1, <3>2
  <2> QED
    BY <2>2, <2>4, <2>5, <2>8, <2>9
<1>8. ASSUME NEW k \in 1..Len(s), ~(k <= D) PROVE h[k] = Folded(h[k - 1], s[k])
  <2>1. k \in 0..(D + P) /\ k - 1 \in 0..(D + P) /\ k - D \in 1..P /\ D + (k - D) = k /\ (k - D) - 1 = k - 1 - D
    BY <1>1, <1>2, <1>8
  <2>2. h[k] = g[k - D]
    BY <2>1, <1>8
  <2>3. s[k] = parts[k - D]
    <3>1. s[D + (k - D)] = parts[k - D]
      BY <1>2, <2>1
    <3> QED
      BY <2>1, <3>1
  <2>4. g[k - D] = Folded(g[k - 1 - D], parts[k - D])
    BY <1>4, <2>1 DEF FoldsTo
  <2>5. h[k - 1] = g[k - 1 - D]
    <3>1. CASE k - 1 <= D
      <4>1. k - 1 = D /\ k - 1 - D = 0
        BY <1>1, <1>8, <2>1, <3>1
      <4>2. SubSeq(dir, 1, D) = dir /\ g[0] = start
        BY <1>1, <1>4 DEF FoldsTo
      <4> QED
        BY <2>1, <3>1, <4>1, <4>2
    <3>2. CASE ~(k - 1 <= D)
      BY <2>1, <3>2
    <3> QED
      BY <3>1, <3>2
  <2> QED
    BY <2>2, <2>3, <2>4, <2>5
<1>9. ReadTo(h, s)
  <2> HIDE DEF h
  <2> QED
    BY <1>6, <1>7, <1>8 DEF ReadTo
<1>10. h[Len(s)] = g[P]
  <2>1. CASE P = 0
    <3>1. Len(s) = D /\ SubSeq(dir, 1, D) = dir /\ g[P] = start /\ D \in 0..(D + P)
      BY <1>1, <1>2, <1>4, <2>1 DEF FoldsTo
    <3> QED
      BY <3>1
  <2>2. CASE P # 0
    <3>1. ~(Len(s) <= D) /\ Len(s) - D = P /\ Len(s) \in 0..(D + P)
      BY <1>1, <1>2, <2>2
    <3> QED
      BY <3>1
  <2> QED
    BY <2>1, <2>2
<1> HIDE DEF h
<1>11. h[Len(s)] \in PlainWalk /\ h[Len(s)] = Climb(s)
  BY <1>2, <1>5, <1>9, ReadIsClimbed
<1> QED
  BY <1>4, <1>10, <1>11 DEF s

-----------------------------------------------------------------------------
(* Links of a bundle. *)

\* Behind an encoded dot nothing is read.
LEMMA DotIsHeld ==
  ASSUME NEW start \in Walked, NEW parts \in Seq(LinkSegs), NEW j \in 1..Len(parts), parts[j] = "%2e"
  PROVE  FoldSegments(start, parts) = EncodedDot
<1>1. PICK g : FoldsTo(g, start, parts) /\ FoldSegments(start, parts) = g[Len(parts)]
  BY FoldIsThere
<1> DEFINE odd == {n \in j..Len(parts) : g[n] # EncodedDot}
<1>2. ASSUME odd # {} PROVE FALSE
  <2>1. odd \subseteq Nat
    OBVIOUS
  <2>2. PICK n \in odd : \A m \in odd : n <= m
    <3> HIDE DEF odd
    <3> QED
      BY <1>2, <2>1, LeastNatural
  <2>3. n \in j..Len(parts) /\ g[n] # EncodedDot /\ n \in 1..Len(parts)
    BY <2>2
  <2>4. g[n] = Folded(g[n - 1], parts[n])
    BY <1>1, <2>3 DEF FoldsTo
  <2>5. CASE n = j
    <3>1. parts[n] = "%2e"
      BY <2>5
    <3> QED
      BY <2>3, <2>4, <3>1 DEF Folded
  <2>6. CASE n # j
    <3>1. n - 1 \in j..Len(parts) /\ ~(n <= n - 1)
      BY <2>3, <2>6
    <3>2. n - 1 \notin odd
      <4> HIDE DEF odd
      <4> QED
        BY <2>2, <3>1
    <3>3. g[n - 1] = EncodedDot
      BY <3>1, <3>2
    <3> QED
      BY <2>3, <2>4, <3>3 DEF Folded
  <2> QED
    BY <2>5, <2>6
<1>3. Len(parts) \in j..Len(parts)
  OBVIOUS
<1> QED
  BY <1>1, <1>2, <1>3

\* The parts of a link.
LEMMA HrefIs ==
  ASSUME NEW href \in Hrefs
  PROVE  href.segs \in Seq(LinkSegs) /\ href.rooted \in BOOLEAN /\ href.backslash \in BOOLEAN
<1>1. href.segs \in BoundedSeq(LinkSegs, MaxLinkSegments) /\ href.rooted \in BOOLEAN /\ href.backslash \in BOOLEAN
  BY DEF Hrefs
<1>2. PICK m \in 0..MaxLinkSegments : href.segs \in [1..m -> LinkSegs]
  BY <1>1 DEF BoundedSeq, SeqOf
<1>3. m \in Nat
  OBVIOUS
<1> QED
  BY <1>1, <1>2, <1>3

\* The directory of a document is made of names.
LEMMA DirectoryIs ==
  ASSUME NEW nav \in Pages, nav.sandboxPath # <<>>
  PROVE  Front(nav.sandboxPath) \in Seq(LinkNames)
<1> DEFINE s == nav.sandboxPath
<1>2. s \in Seq(LinkNames) /\ s # <<>>
  BY PageIs
<1> HIDE DEF s
<1>3. Len(s) - 1 \in 0..Len(s)
  BY <1>2
<1>4. IsInTwo(LinkNames, s, Len(s) - 1)
  BY <1>2, <1>3, InTwo
<1>5. Front(s) \in Seq(LinkNames)
  BY <1>4 DEF IsInTwo, Front
<1> QED
  BY <1>5 DEF s

\* What bundleRelativeTarget says of a link, against the walk.
IsOfWalk(href, target, walk) ==
  /\ target.kind = "leaves" =>
       /\ ~href.rooted /\ target.ups > 0
       /\ [ups |-> target.ups, segs |-> target.segs] = walk
       /\ ToSet(target.segs) \subseteq LinkNames
  /\ target.kind = "inside" => href.rooted \/ walk.ups = 0
  /\ href.backslash \/ Contains(href.segs, "%2e") => target.kind = "refused"

\* The target of a link is what the walk says of it.
LEMMA TargetIsOfWalk ==
  ASSUME NEW href \in Hrefs, NEW dir \in Seq(LinkNames)
  PROVE  IsOfWalk(href, BundleRelativeTarget(href, dir), Climb(dir \o href.segs))
<1> DEFINE segs == href.segs
           inDir == [ups |-> 0, segs |-> dir]
           start == IF href.rooted THEN Top ELSE inDir
           fold == FoldSegments(start, segs)
           walk == Climb(dir \o segs)
           target == BundleRelativeTarget(href, dir)
<1>1. segs \in Seq(LinkSegs) /\ href.rooted \in BOOLEAN /\ href.backslash \in BOOLEAN
  BY HrefIs
<1>2. Top \in Walked /\ inDir \in Walked
  BY SegmentsAre DEF Top, Walked
<1>3. start \in Walked
  BY <1>2
<1>4. target = IF href.backslash \/ fold = EncodedDot THEN [kind |-> "refused", ups |-> 0, segs |-> <<>>]
               ELSE IF href.rooted \/ fold.ups = 0 THEN [kind |-> "inside", ups |-> 0, segs |-> <<>>]
               ELSE IF href.query \/ href.fragments > 1 \/ fold.segs = <<>> \/ Contains(fold.segs, "bad")
               THEN [kind |-> "refused", ups |-> 0, segs |-> <<>>]
               ELSE [kind |-> "leaves", ups |-> fold.ups, segs |-> fold.segs]
  BY DEF BundleRelativeTarget
<1>5. CASE \E j \in 1..Len(segs) : segs[j] = "%2e"
  <2>1. PICK j \in 1..Len(segs) : segs[j] = "%2e"
    BY <1>5
  <2> HIDE DEF start, segs, target
  <2>2. fold = EncodedDot
    BY <1>1, <1>3, <2>1, DotIsHeld
  <2>3. target.kind = "refused"
    BY <1>4, <2>2
  <2>4. IsOfWalk(href, target, walk)
    BY <2>3 DEF IsOfWalk
  <2> QED
    BY <2>4 DEF target, segs
<1>6. CASE ~\E j \in 1..Len(segs) : segs[j] = "%2e"
  <2>1. ~Contains(segs, "%2e")
    BY <1>6 DEF Contains
  <2>2. CASE href.rooted
    <3> HIDE DEF fold, walk, target
    <3>1. target.kind = "refused" \/ (target.kind = "inside" /\ ~href.backslash)
      BY <1>4, <2>2
    <3>2. target.kind # "leaves" /\ (href.backslash => target.kind = "refused")
      BY <3>1
    <3> QED
      BY <2>1, <2>2, <3>2 DEF IsOfWalk, target, walk
  <2>3. CASE ~href.rooted
    <3>1. start = inDir
      BY <2>3
    <3>2. FoldSegments(inDir, segs) \in PlainWalk /\ FoldSegments(inDir, segs) = walk
      <4> HIDE DEF segs
      <4> QED
        BY <1>1, <1>6, FoldIsClimb
    <3>3. fold \in PlainWalk /\ fold = walk
      BY <3>1, <3>2
    <3> HIDE DEF fold, walk, target
    <3>4. fold.ups \in Nat /\ fold.segs \in Seq(Places) /\ fold = [ups |-> fold.ups, segs |-> fold.segs]
      BY <3>3 DEF PlainWalk
    <3>5. ASSUME target.kind = "leaves"
          PROVE  /\ target.ups = fold.ups /\ target.segs = fold.segs
                 /\ fold.ups # 0 /\ ~Contains(fold.segs, "bad")
      BY <1>4, <3>5
    <3>6. ASSUME target.kind = "leaves" PROVE ToSet(target.segs) \subseteq LinkNames
      <4> DEFINE t == fold.segs
      <4>1. t \in Seq(Places) /\ (\A i \in 1..Len(t) : t[i] # "bad") /\ target.segs = t
        BY <3>4, <3>5, <3>6 DEF Contains
      <4> HIDE DEF t
      <4>2. \A i \in DOMAIN t : t[i] \in LinkNames
        BY <4>1 DEF Places
      <4> QED
        BY <4>1, <4>2 DEF ToSet
    <3>7. target.kind = "leaves" => target.ups > 0 /\ [ups |-> target.ups, segs |-> target.segs] = walk
      BY <3>3, <3>4, <3>5
    <3>8. target.kind = "inside" => walk.ups = 0
      BY <1>4, <2>3, <3>3
    <3>9. href.backslash => target.kind = "refused"
      BY <1>4
    <3> QED
      BY <2>1, <2>3, <3>6, <3>7, <3>8, <3>9 DEF IsOfWalk, target, walk
  <2> QED
    BY <2>2, <2>3
<1> QED
  BY <1>5, <1>6

\* A link of a bundle that was looked at is one in a document of it.
BundleIsAtHand ==
  /\ page \in Pages
  /\ linkAsked.kind = "bundle" =>
       /\ page.sandboxPath # <<>> /\ linkAsked.href \in Hrefs
       /\ linkAnswer.target = BundleRelativeTarget(linkAsked.href, Front(page.sandboxPath))
       /\ linkAnswer.follow = FollowBundleLink(linkAnswer.target)

\* Every step keeps it.
LEMMA BundleStep == BundleIsAtHand /\ [Next]_vars => BundleIsAtHand'
<1> SUFFICES ASSUME BundleIsAtHand, [Next]_vars PROVE BundleIsAtHand'
  OBVIOUS
<1>1. CASE UNCHANGED linkVars
  BY <1>1 DEF linkVars, BundleIsAtHand
<1>2. CASE LinksNext
  <2>0. page' = page /\ page \in Pages
    BY <1>2 DEF LinksNext, BundleIsAtHand
  <2>1. ASSUME NEW other \in LinkedPages, NEW slash \in BOOLEAN, LookAtUrl(other, slash) PROVE BundleIsAtHand'
    BY <2>0, <2>1 DEF LookAtUrl, BundleIsAtHand
  <2>2. ASSUME NEW path \in LinkPaths, NEW hash \in Hashes, FollowAbsolute(path, hash) PROVE BundleIsAtHand'
    BY <2>0, <2>2 DEF FollowAbsolute, BundleIsAtHand
  <2>3. ASSUME NEW href \in Hrefs, FollowInBundle(href) PROVE BundleIsAtHand'
    BY <2>0, <2>3 DEF FollowInBundle, BundleIsAtHand
  <2>4. ASSUME NEW link \in WikiLinks, DrawWikiLink(link) PROVE BundleIsAtHand'
    BY <2>0, <2>4 DEF DrawWikiLink, BundleIsAtHand
  <2>5. ASSUME NEW anchor \in {"fragment", "internal", "platform", "plain"}, NEW click \in Clicks, ClickAnchor(anchor, click)
        PROVE  BundleIsAtHand'
    BY <2>0, <2>5 DEF ClickAnchor, BundleIsAtHand
  <2> QED
    BY <1>2, <2>1, <2>2, <2>3, <2>4, <2>5 DEF LinksNext
<1> QED
  BY <1>1, <1>2, LinksOrNot

\* So a link of a bundle leads where the walk leads.
LEMMA AtHandIsWalk == BundleIsAtHand => BundleLinkIsWalk
<1> SUFFICES ASSUME BundleIsAtHand, linkAsked.kind = "bundle" PROVE BundleLinkIsWalk
  BY DEF BundleLinkIsWalk
<1> DEFINE href == linkAsked.href
           dir == Front(page.sandboxPath)
           target == linkAnswer.target
           walk == Climb(dir \o href.segs)
<1>1. href \in Hrefs /\ dir \in Seq(LinkNames)
  BY DirectoryIs DEF BundleIsAtHand
<1>2. target = BundleRelativeTarget(href, dir) /\ linkAnswer.follow = FollowBundleLink(target)
  BY DEF BundleIsAtHand
<1>3. IsOfWalk(href, target, walk)
  <2> HIDE DEF href, dir, target
  <2> QED
    BY <1>1, <1>2, TargetIsOfWalk
<1>4. linkAnswer.follow.sent => linkAnswer.follow.handled
  <2> HIDE DEF target
  <2>1. linkAnswer.follow = [handled |-> target.kind # "inside", sent |-> target.kind = "leaves"]
    BY <1>2 DEF FollowBundleLink
  <2>2. linkAnswer.follow.handled = (target.kind # "inside") /\ linkAnswer.follow.sent = (target.kind = "leaves")
    BY <2>1
  <2>3. "leaves" # "inside"
    OBVIOUS
  <2> QED
    BY Zenon, <2>2, <2>3
<1> QED
  BY <1>3, <1>4 DEF IsOfWalk, BundleLinkIsWalk

\* No link was looked at before the first step.
LEMMA BundleInitially == Init => BundleIsAtHand
BY DEF Init, LinksInit, BundleIsAtHand, NoLink

\* Whatever segments a link of a bundle has, folding them from the left says what walking them
\* from the right says: it leaves the bundle exactly if the walk does, ends where the walk ends,
\* and a hidden dot is refused (bundleLinkPath.ts:62, bundleLinkPath.ts:80).
THEOREM BundleLinksAreWalks == Spec => []BundleLinkIsWalk
<1> QED
  BY BundleInitially, BundleStep, AtHandIsWalk, PTL DEF Spec

-----------------------------------------------------------------------------
(* The models of a push. *)

\* One more id of a list.
OneMoreId(x, id, keep) == IF id \in keep \ ToSet(x) THEN Append(x, id) ELSE x
\* The list after each id.
OncesTo(g, ids, keep) == g[0] = <<>> /\ \A k \in 1..Len(ids) : g[k] = OneMoreId(g[k - 1], ids[k], keep)

\* Once is the last of them.
LEMMA OnceIsThere ==
  ASSUME NEW S, NEW ids \in Seq(S), NEW keep
  PROVE  \E g : OncesTo(g, ids, keep) /\ Once(ids, keep) = g[Len(ids)]
<1> DEFINE N == Len(ids)
<1> DEFINE next == [k \in 1..N |-> [x \in Seq(S) |-> OneMoreId(x, ids[k], keep)]]
<1> DEFINE all(g) == [n \in 0..N |-> IF n = 0 THEN <<>>
                                     ELSE IF ids[n] \in keep \ ToSet(g[n - 1]) THEN Append(g[n - 1], ids[n]) ELSE g[n - 1]]
<1>1. N \in Nat /\ <<>> \in Seq(S) /\ \A k \in 1..N : ids[k] \in S
  OBVIOUS
<1>2. next \in [1..N -> [Seq(S) -> Seq(S)]]
  BY <1>1 DEF OneMoreId
<1>3. PICK g \in [0..N -> Seq(S)] : g[0] = <<>> /\ \A k \in 1..N : g[k] = next[k][g[k - 1]]
  <2> HIDE DEF next, N
  <2>1. IsMade(Seq(S), <<>>, N, next)
    BY <1>1, <1>2, StepsAreThere
  <2> QED
    BY <2>1 DEF IsMade
<1>4. ASSUME NEW k \in 1..N PROVE g[k] = OneMoreId(g[k - 1], ids[k], keep)
  <2>1. k - 1 \in 0..N
    BY <1>1
  <2>2. g[k - 1] \in Seq(S) /\ g[k] = next[k][g[k - 1]]
    BY <1>3, <2>1
  <2>3. next[k] = [x \in Seq(S) |-> OneMoreId(x, ids[k], keep)]
    OBVIOUS
  <2> HIDE DEF next
  <2> QED
    BY <2>2, <2>3
<1>5. g = all(g)
  <2>1. DOMAIN g = 0..N /\ g = [n \in 0..N |-> g[n]]
    BY <1>3
  <2>2. ASSUME NEW n \in 0..N
        PROVE  g[n] = IF n = 0 THEN <<>>
                      ELSE IF ids[n] \in keep \ ToSet(g[n - 1]) THEN Append(g[n - 1], ids[n]) ELSE g[n - 1]
    <3>1. CASE n = 0
      BY <1>3, <3>1
    <3>2. CASE n # 0
      <4>1. n \in 1..N
        BY <1>1, <3>2
      <4> HIDE DEF N
      <4> QED
        BY <1>4, <3>2, <4>1 DEF OneMoreId
    <3> QED
      BY <3>1, <3>2
  <2> HIDE DEF N
  <2> QED
    BY <2>1, <2>2
<1> DEFINE f == CHOOSE h : h = all(h)
<1>6. f = all(f)
  <2> HIDE DEF all
  <2> QED
    BY <1>5
<1>7. Once(ids, keep) = f[N]
  BY DEF Once
<1>8. OncesTo(f, ids, keep)
  <2> HIDE DEF f
  <2>1. 0 \in 0..N /\ \A k \in 1..N : k \in 0..N /\ k # 0
    BY <1>1
  <2>2. \A n \in 0..N : f[n] = IF n = 0 THEN <<>>
                               ELSE IF ids[n] \in keep \ ToSet(f[n - 1]) THEN Append(f[n - 1], ids[n]) ELSE f[n - 1]
    BY <1>6
  <2> QED
    BY <2>1, <2>2 DEF OncesTo, OneMoreId
<1> QED
  BY <1>7, <1>8

\* The set of a longer list.
LEMMA SetOfOneMore ==
  ASSUME NEW S, NEW x \in Seq(S), NEW id \in S
  PROVE  ToSet(Append(x, id)) = ToSet(x) \union {id}
<1> DEFINE a == Append(x, id)
<1>1. a \in Seq(S) /\ Len(a) = Len(x) + 1 /\ Len(x) \in Nat /\ a[Len(x) + 1] = id /\ \A k \in 1..Len(x) : a[k] = x[k]
  OBVIOUS
<1> HIDE DEF a
<1>2. DOMAIN a = 1..(Len(x) + 1) /\ DOMAIN x = 1..Len(x)
  BY <1>1
<1>3. ToSet(a) = ToSet(x) \union {id}
  <2>1. ASSUME NEW e \in ToSet(a) PROVE e \in ToSet(x) \union {id}
    BY <1>1, <1>2 DEF ToSet
  <2>2. ASSUME NEW e \in ToSet(x) \union {id} PROVE e \in ToSet(a)
    BY <1>1, <1>2 DEF ToSet
  <2> QED
    BY <2>1, <2>2
<1> QED
  BY <1>3 DEF a

\* The first n of the list, each once.
OncesAre(x, S, ids, keep, n) ==
  /\ x \in Seq(S)
  /\ ToSet(x) = {ids[k] : k \in 1..n} \intersect keep
  /\ IsFiniteSet(ToSet(x)) /\ Len(x) = Cardinality(ToSet(x))

\* Once gives every id of the list that is kept, and none twice.
LEMMA OnceIs ==
  ASSUME NEW S, NEW ids \in Seq(S), NEW keep
  PROVE  /\ Once(ids, keep) \in Seq(S)
         /\ ToSet(Once(ids, keep)) = ToSet(ids) \intersect keep
         /\ Len(Once(ids, keep)) = Cardinality(ToSet(Once(ids, keep)))
<1>1. PICK g : OncesTo(g, ids, keep) /\ Once(ids, keep) = g[Len(ids)]
  BY OnceIsThere
<1>2. Len(ids) \in Nat /\ DOMAIN ids = 1..Len(ids) /\ \A k \in 1..Len(ids) : ids[k] \in S
  OBVIOUS
<1> DEFINE odd == {n \in 0..Len(ids) : ~OncesAre(g[n], S, ids, keep, n)}
<1>3. ASSUME odd # {} PROVE FALSE
  <2>1. odd \subseteq Nat
    OBVIOUS
  <2>2. PICK n \in odd : \A m \in odd : n <= m
    <3> HIDE DEF odd
    <3> QED
      BY <1>3, <2>1, LeastNatural
  <2>3. n \in 0..Len(ids) /\ ~OncesAre(g[n], S, ids, keep, n)
    BY <2>2
  <2>4. CASE n = 0
    <3>1. g[n] = <<>> /\ ToSet(<<>>) = {}
      BY <1>1, <2>4 DEF OncesTo, ToSet
    <3>2. {ids[k] : k \in 1..n} = {}
      BY <2>4
    <3>3. <<>> \in Seq(S) /\ Len(<<>>) = 0
      OBVIOUS
    <3> QED
      BY <2>3, <3>1, <3>2, <3>3, FS_EmptySet DEF OncesAre
  <2>5. CASE n # 0
    <3>1. n - 1 \in 0..Len(ids) /\ ~(n <= n - 1) /\ n \in 1..Len(ids)
      BY <1>2, <2>3, <2>5
    <3>2. OncesAre(g[n - 1], S, ids, keep, n - 1)
      <4>1. n - 1 \notin odd
        <5> HIDE DEF odd
        <5> QED
          BY <2>2, <3>1
      <4> QED
        BY <3>1, <4>1
    <3>3. g[n] = OneMoreId(g[n - 1], ids[n], keep)
      BY <1>1, <3>1 DEF OncesTo
    <3>4. {ids[k] : k \in 1..n} = {ids[k] : k \in 1..(n - 1)} \union {ids[n]}
      <4>1. 1..n = 1..(n - 1) \union {n}
        BY <3>1
      <4> QED
        BY <4>1
    <3> DEFINE x == g[n - 1]
               id == ids[n]
    <3>5. x \in Seq(S) /\ id \in S /\ ToSet(x) = {ids[k] : k \in 1..(n - 1)} \intersect keep
          /\ IsFiniteSet(ToSet(x)) /\ Len(x) = Cardinality(ToSet(x))
      BY <1>2, <3>1, <3>2 DEF OncesAre
    <3>6. g[n] = OneMoreId(x, id, keep) /\ {ids[k] : k \in 1..n} = {ids[k] : k \in 1..(n - 1)} \union {id}
      BY <3>3, <3>4
    <3> HIDE DEF x, id
    <3>7. CASE id \in keep \ ToSet(x)
      <4>1. g[n] = Append(x, id)
        BY <3>6, <3>7 DEF OneMoreId
      <4>2. ToSet(g[n]) = ToSet(x) \union {id} /\ Len(g[n]) = Len(x) + 1 /\ g[n] \in Seq(S)
        BY <3>5, <4>1, SetOfOneMore
      <4>3. IsFiniteSet(ToSet(g[n])) /\ Cardinality(ToSet(g[n])) = Cardinality(ToSet(x)) + 1
        BY <3>5, <3>7, <4>2, FS_AddElement
      <4>4. ToSet(g[n]) = {ids[k] : k \in 1..n} \intersect keep
        BY <3>5, <3>6, <3>7, <4>2
      <4> QED
        BY <2>3, <3>5, <4>2, <4>3, <4>4 DEF OncesAre
    <3>8. CASE id \notin keep \ ToSet(x)
      <4>1. g[n] = x
        BY <3>6, <3>8 DEF OneMoreId
      <4>2. ToSet(x) = {ids[k] : k \in 1..n} \intersect keep
        BY <3>5, <3>6, <3>8
      <4> QED
        BY <2>3, <3>5, <4>1, <4>2 DEF OncesAre
    <3> QED
      BY <3>7, <3>8
  <2> QED
    BY <2>4, <2>5
<1>4. OncesAre(g[Len(ids)], S, ids, keep, Len(ids))
  BY <1>2, <1>3
<1>5. ToSet(ids) = {ids[k] : k \in 1..Len(ids)}
  BY <1>2 DEF ToSet
<1> QED
  BY <1>1, <1>4, <1>5 DEF OncesAre

\* The wire ids and entries of a push are lists.
LEMMA ListsAre ==
  /\ \A s \in BoundedSeq(ModelEntries, MaxEntries) : s \in Seq(ModelEntries)
  /\ \A s \in BoundedSeq(ModelIds \union {NoId}, MaxEntries) : s \in Seq(ModelIds \union {NoId})
<1>1. ASSUME NEW S, NEW s \in BoundedSeq(S, MaxEntries) PROVE s \in Seq(S)
  <2>1. PICK m \in 0..MaxEntries : s \in [1..m -> S]
    BY DEF BoundedSeq, SeqOf
  <2>2. m \in Nat
    OBVIOUS
  <2> QED
    BY <2>1, <2>2
<1> QED
  BY <1>1

\* What an entry of the wire may be.
LEMMA ModelEntryIs ==
  ASSUME NEW e \in ModelEntries
  PROVE  e.id \in ModelIds \union {NoId} /\ (e.form = "described" => e.id \in ModelIds)
<1>1. e \in [id : ModelIds, form : {"id", "described", "bad"}] \/ e = [id |-> NoId, form |-> "bad"]
  BY DEF ModelEntries
<1>2. CASE e \in [id : ModelIds, form : {"id", "described", "bad"}]
  BY <1>2
<1>3. CASE e = [id |-> NoId, form |-> "bad"]
  <2>1. e.id = NoId /\ e.form = "bad"
    BY <1>3
  <2> QED
    BY <2>1
<1> QED
  BY <1>1, <1>2, <1>3

\* What may be said of a choice that was pushed.
ChoiceAgrees(held, entries, wireIds) ==
  LET models == ToSet(held.models)
      named == {e.id : e \in ToSet(entries)} \ {NoId}
      wire == ToSet(wireIds) \ {NoId}
  IN  /\ ToSet(held.modelInfo) \subseteq models
      /\ Len(held.models) = Cardinality(models)
      /\ Len(held.modelInfo) = Cardinality(ToSet(held.modelInfo))
      /\ models = IF wire = {} THEN named ELSE wire
      /\ \A e \in ToSet(entries) : e.form = "described" /\ e.id \in models => Contains(held.modelInfo, e.id)

\* What is in the set of a list is in the list.
LEMMA InTheList ==
  ASSUME NEW S, NEW s \in Seq(S), NEW x \in ToSet(s)
  PROVE  Contains(s, x)
BY DEF ToSet, Contains

\* It may be said of what the parser makes of any lists.
LEMMA UsableAgrees ==
  ASSUME NEW entries \in Seq(ModelEntries), NEW wireIds \in Seq(ModelIds \union {NoId})
  PROVE  ChoiceAgrees(UsableChoice(entries, wireIds), entries, wireIds)
<1> DEFINE I == ModelIds \union {NoId}
           ids == IdsOf(entries)
           described == DescribedIn(entries)
           wired == Once(wireIds, ModelIds)
           named == Once(ids, ModelIds)
           infos == Once(described, ModelIds)
           fewer == Once(infos, ToSet(wired))
           held == UsableChoice(entries, wireIds)
<1>1. /\ Len(entries) \in Nat /\ DOMAIN entries = 1..Len(entries)
      /\ \A k \in DOMAIN entries : entries[k] \in ModelEntries
      /\ \A k \in DOMAIN entries : entries[k].id \in I /\ (entries[k].form = "described" => entries[k].id \in ModelIds)
  BY ModelEntryIs
<1>2. ids \in Seq(I) /\ described \in Seq(I)
  BY <1>1 DEF IdsOf, DescribedIn
<1>3. ToSet(ids) = {e.id : e \in ToSet(entries)}
  BY <1>1 DEF IdsOf, ToSet
<1>4. \A e \in ToSet(entries) : e.form = "described" => e.id \in ToSet(described) /\ e.id \in ModelIds
  BY <1>1 DEF DescribedIn, ToSet
<1>5. ToSet(described) \intersect ModelIds \subseteq ToSet(ids)
  <2>1. ASSUME NEW k \in DOMAIN entries, described[k] \in ModelIds PROVE described[k] = ids[k] /\ k \in DOMAIN ids
    BY <2>1, ModelsAssumption DEF DescribedIn, IdsOf
  <2>2. DOMAIN described = DOMAIN entries
    BY DEF DescribedIn
  <2> HIDE DEF described, ids
  <2> QED
    BY <2>1, <2>2 DEF ToSet
<1>6. I \intersect ModelIds = I \ {NoId}
  BY ModelsAssumption
<1>7. ToSet(ids) \subseteq I /\ ToSet(wireIds) \subseteq I
  <2> HIDE DEF ids
  <2> QED
    BY <1>2 DEF ToSet
<1> HIDE DEF ids, described
<1>8. /\ wired \in Seq(I) /\ ToSet(wired) = ToSet(wireIds) \intersect ModelIds /\ Len(wired) = Cardinality(ToSet(wired))
      /\ named \in Seq(I) /\ ToSet(named) = ToSet(ids) \intersect ModelIds /\ Len(named) = Cardinality(ToSet(named))
      /\ infos \in Seq(I) /\ ToSet(infos) = ToSet(described) \intersect ModelIds /\ Len(infos) = Cardinality(ToSet(infos))
  BY <1>2, OnceIs
<1> DEFINE wiredSet == ToSet(wired)
<1>9. fewer \in Seq(I) /\ ToSet(fewer) = ToSet(infos) \intersect ToSet(wired) /\ Len(fewer) = Cardinality(ToSet(fewer))
  <2>1. infos \in Seq(I)
    BY <1>8
  <2> HIDE DEF infos, wiredSet
  <2> QED
    BY <2>1, OnceIs DEF wiredSet
<1>10. held = IF wired = <<>> THEN [models |-> named, modelInfo |-> infos] ELSE [models |-> wired, modelInfo |-> fewer]
  BY DEF UsableChoice, PartitionModels, ids, described
<1> HIDE DEF wired, named, infos, fewer, held
<1>11. wired = <<>> <=> ToSet(wireIds) \ {NoId} = {}
  <2>1. ToSet(wired) = ToSet(wireIds) \ {NoId}
    BY <1>6, <1>7, <1>8
  <2>2. wired = <<>> <=> ToSet(wired) = {}
    BY <1>8 DEF ToSet
  <2> QED
    BY <2>1, <2>2
<1>12. CASE wired = <<>>
  <2>1. held.models = named /\ held.modelInfo = infos
    BY <1>10, <1>12
  <2>2. ToSet(infos) \subseteq ToSet(named)
    BY <1>5, <1>8
  <2>3. ToSet(named) = {e.id : e \in ToSet(entries)} \ {NoId}
    BY <1>3, <1>6, <1>7, <1>8
  <2>4. \A e \in ToSet(entries) : e.form = "described" => Contains(infos, e.id)
    BY <1>4, <1>8, InTheList
  <2>5. ToSet(named) = IF ToSet(wireIds) \ {NoId} = {} THEN {e.id : e \in ToSet(entries)} \ {NoId} ELSE ToSet(wireIds) \ {NoId}
    BY <1>11, <1>12, <2>3
  <2>6. Len(named) = Cardinality(ToSet(named)) /\ Len(infos) = Cardinality(ToSet(infos))
    BY <1>8
  <2>7. \A e \in ToSet(entries) : e.form = "described" /\ e.id \in ToSet(named) => Contains(infos, e.id)
    BY <2>4
  <2>8. ChoiceAgrees(held, entries, wireIds)
    BY <2>1, <2>2, <2>5, <2>6, <2>7 DEF ChoiceAgrees
  <2> QED
    BY <2>8 DEF held
<1>13. CASE wired # <<>>
  <2>1. held.models = wired /\ held.modelInfo = fewer
    BY <1>10, <1>13
  <2>2. ToSet(fewer) \subseteq ToSet(wired)
    BY <1>9
  <2>3. ToSet(wired) = ToSet(wireIds) \ {NoId}
    BY <1>6, <1>7, <1>8
  <2>4. \A e \in ToSet(entries) : e.form = "described" /\ e.id \in ToSet(wired) => Contains(fewer, e.id)
    BY <1>4, <1>8, <1>9, InTheList
  <2>5. ToSet(wired) = IF ToSet(wireIds) \ {NoId} = {} THEN {e.id : e \in ToSet(entries)} \ {NoId} ELSE ToSet(wireIds) \ {NoId}
    BY <1>11, <1>13, <2>3
  <2>6. Len(wired) = Cardinality(ToSet(wired)) /\ Len(fewer) = Cardinality(ToSet(fewer))
    BY <1>8, <1>9
  <2>7. \A e \in ToSet(entries) : e.form = "described" /\ e.id \in ToSet(wired) => Contains(fewer, e.id)
    BY <2>4
  <2>8. ChoiceAgrees(held, entries, wireIds)
    BY <2>1, <2>2, <2>5, <2>6, <2>7 DEF ChoiceAgrees
  <2> QED
    BY <2>8 DEF held
<1> QED
  BY <1>12, <1>13 DEF held

\* Nothing was pushed before the first step.
LEMMA ModelsInitially == ASSUME Init PROVE ModelsAgree
<1>1. modelsPushed.entries = <<>> /\ modelsPushed.wireIds = <<>> /\ modelsHeld.models = <<>> /\ modelsHeld.modelInfo = <<>>
  BY DEF Init, SnapshotsInit
<1>2. ToSet(<<>>) = {} /\ Len(<<>>) = 0
  BY DEF ToSet
<1> QED
  BY <1>1, <1>2, FS_EmptySet DEF ModelsAgree

\* Every step keeps it.
LEMMA ModelsStep == ASSUME ModelsAgree, [Next]_vars PROVE ModelsAgree'
<1>1. CASE PushSnapshot
  BY <1>1 DEF PushSnapshot, ModelsAgree
<1>2. CASE PushModels
  <2>1. PICK entries \in BoundedSeq(ModelEntries, MaxEntries) : \E wireIds \in BoundedSeq(ModelIds \union {NoId}, MaxEntries) :
          /\ modelsPushed' = [entries |-> entries, wireIds |-> wireIds]
          /\ modelsHeld' = UsableChoice(entries, wireIds)
    BY <1>2 DEF PushModels
  <2>2. PICK wireIds \in BoundedSeq(ModelIds \union {NoId}, MaxEntries) :
          /\ modelsPushed' = [entries |-> entries, wireIds |-> wireIds]
          /\ modelsHeld' = UsableChoice(entries, wireIds)
    BY <2>1
  <2>3. entries \in Seq(ModelEntries) /\ wireIds \in Seq(ModelIds \union {NoId})
    BY ListsAre
  <2>4. ChoiceAgrees(modelsHeld', entries, wireIds)
    BY <2>2, <2>3, UsableAgrees
  <2>5. modelsPushed'.entries = entries /\ modelsPushed'.wireIds = wireIds
    BY <2>2
  <2> QED
    BY <2>4, <2>5 DEF ChoiceAgrees, ModelsAgree
<1>3. CASE UNCHANGED snapshotVars
  BY <1>3 DEF snapshotVars, ModelsAgree
<1> QED
  BY <1>1, <1>2, <1>3, SnapshotsOrNot DEF SnapshotsNext

\* Whatever lists a host pushes, the models an app may choose are those it names, once each, and
\* every one that is described is among them (llm.ts:559).
THEOREM ModelsAreAgreed == Spec => []ModelsAgree
<1> QED
  BY ModelsInitially, ModelsStep, PTL DEF Spec

-----------------------------------------------------------------------------
(* The turns of a chat: what is gathered. *)

\* A step is one of the chat, or leaves what it holds alone.
LEMMA ChatOrNot ==
  ASSUME [Next]_vars
  PROVE  \/ ChatNext
         \/ UNCHANGED chatVars
BY PartStep

\* What a list of deltas says: its thoughts, its calls, whether anything was said, and the
\* content of the turn it makes.
ThoughtsOf(ds) == Kept(ds, Thoughts)
\* The calls among them.
CallsOf(ds) == Kept(ds, CallsMade)
\* A thought as a block of the transcript.
AsBlock(d) == IF d.type = "reasoning" THEN d ELSE [type |-> "redacted", of |-> d.of]
\* A call as a block of the transcript.
AsCall(d) == [type |-> "tool_use", of |-> d.of]
\* The blocks of its thoughts.
ReasoningOf(ds) == [k \in DOMAIN ThoughtsOf(ds) |-> AsBlock(ThoughtsOf(ds)[k])]
\* The blocks of its calls.
UsesOf(ds) == [k \in DOMAIN CallsOf(ds) |-> AsCall(CallsOf(ds)[k])]
\* Something was said.
Spoken(ds) == \E d \in ToSet(ds) : d.type = "text-delta" /\ d.of # NoWords
\* The block of what was said, if anything was.
TextOf(ds) == IF Spoken(ds) THEN <<[type |-> "text", of |-> "said"]>> ELSE <<>>
\* The content of the turn.
ContentOf(ds) == ReasoningOf(ds) \o TextOf(ds) \o UsesOf(ds)

\* What is kept of one more.
LEMMA KeptAppends ==
  ASSUME NEW T, NEW s \in Seq(T), NEW d \in T, NEW keep
  PROVE  Kept(Append(s, d), keep) = IF d \in keep THEN Append(Kept(s, keep), d) ELSE Kept(s, keep)
<1> DEFINE one == <<d>>
           k == Kept(s, keep)
<1>1. one \in Seq(T) /\ Append(s, d) = s \o one /\ ToSet(one) = {d}
  BY DEF ToSet
<1> HIDE DEF one
<1>2. Kept(s \o one, keep) = Kept(s, keep) \o Kept(one, keep)
  BY <1>1, KeptOfJoined
<1>3. k \in Seq(T \intersect keep)
  BY KeptAre
<1>4. CASE d \in keep
  <2>0. \A x \in ToSet(one) : x \in keep
    BY <1>1, <1>4
  <2>1. Kept(one, keep) = one
    BY <1>1, <2>0, KeptAre
  <2> HIDE DEF k
  <2>2. k \in Seq(T)
    BY <1>3
  <2>3. k \o one = Append(k, d)
    BY <2>2 DEF one
  <2> QED
    BY <1>1, <1>2, <1>4, <2>1, <2>3 DEF k
<1>5. CASE d \notin keep
  <2>0. \A x \in ToSet(one) : x \notin keep
    BY <1>1, <1>5
  <2>1. Kept(one, keep) = <<>>
    BY <1>1, <2>0, KeptAre
  <2> HIDE DEF k
  <2>2. k \o <<>> = k
    BY <1>3
  <2> QED
    BY <1>1, <1>2, <1>5, <2>1, <2>2 DEF k
<1> QED
  BY <1>4, <1>5

\* A sequence with one more, element by element.
LEMMA AppendIs ==
  ASSUME NEW T, NEW s \in Seq(T), NEW d \in T
  PROVE  /\ Len(Append(s, d)) = Len(s) + 1 /\ Append(s, d)[Len(s) + 1] = d
         /\ \A k \in 1..Len(s) : Append(s, d)[k] = s[k]
         /\ Append(s, d) = [k \in 1..(Len(s) + 1) |-> Append(s, d)[k]]
<1> DEFINE a == Append(s, d)
<1>1. a \in Seq(T) /\ Len(a) = Len(s) + 1 /\ a[Len(s) + 1] = d /\ \A k \in 1..Len(s) : a[k] = s[k]
  OBVIOUS
<1> HIDE DEF a
<1>2. a = [k \in 1..Len(a) |-> a[k]]
  BY <1>1
<1> QED
  BY <1>1, <1>2 DEF a

\* What each element of a list is made, of a list with one more.
LEMMA MadeOfOneMore ==
  ASSUME NEW T, NEW s \in Seq(T), NEW d \in T
  PROVE  /\ [k \in DOMAIN Append(s, d) |-> AsBlock(Append(s, d)[k])] = Append([k \in DOMAIN s |-> AsBlock(s[k])], AsBlock(d))
         /\ [k \in DOMAIN Append(s, d) |-> AsCall(Append(s, d)[k])] = Append([k \in DOMAIN s |-> AsCall(s[k])], AsCall(d))
<1> DEFINE a == Append(s, d)
           b == [k \in DOMAIN s |-> AsBlock(s[k])]
           c == [k \in DOMAIN s |-> AsCall(s[k])]
           U == {AsBlock(x) : x \in T}
           V == {AsCall(x) : x \in T}
<1>1. /\ Len(s) \in Nat /\ DOMAIN s = 1..Len(s) /\ DOMAIN a = 1..(Len(s) + 1)
      /\ a[Len(s) + 1] = d /\ \A k \in 1..Len(s) : a[k] = s[k] /\ s[k] \in T
  OBVIOUS
<1> HIDE DEF a
<1>2. b \in Seq(U) /\ Len(b) = Len(s) /\ \A k \in 1..Len(s) : b[k] = AsBlock(s[k])
  BY <1>1
<1>3. c \in Seq(V) /\ Len(c) = Len(s) /\ \A k \in 1..Len(s) : c[k] = AsCall(s[k])
  BY <1>1
<1> HIDE DEF b, c
<1>4. [k \in DOMAIN a |-> AsBlock(a[k])] = Append(b, AsBlock(d))
  <2> DEFINE x == AsBlock(d)
             l == [k \in DOMAIN a |-> AsBlock(a[k])]
             r == Append(b, x)
  <2>0. x \in U
    OBVIOUS
  <2>1. l = [k \in 1..(Len(s) + 1) |-> l[k]] /\ l[Len(s) + 1] = x /\ \A k \in 1..Len(s) : l[k] = AsBlock(s[k])
    BY <1>1
  <2> HIDE DEF x, l, U
  <2>2. r = [k \in 1..(Len(s) + 1) |-> r[k]] /\ r[Len(s) + 1] = x /\ \A k \in 1..Len(s) : r[k] = b[k]
    <3>1. b \in Seq(U) /\ Len(b) = Len(s)
      BY <1>2
    <3>2. /\ Append(b, x)[Len(b) + 1] = x /\ (\A k \in 1..Len(b) : Append(b, x)[k] = b[k])
          /\ Append(b, x) = [k \in 1..(Len(b) + 1) |-> Append(b, x)[k]]
      BY <2>0, <3>1, AppendIs
    <3> QED
      BY <3>1, <3>2
  <2> HIDE DEF r
  <2>3. ASSUME NEW k \in 1..(Len(s) + 1) PROVE l[k] = r[k]
    <3>1. k \in 1..Len(s) \/ k = Len(s) + 1
      BY <1>1
    <3> QED
      BY <1>2, <2>1, <2>2, <3>1
  <2>4. l = r
    BY <2>1, <2>2, <2>3
  <2> QED
    BY <2>4 DEF l, r, x
<1>5. [k \in DOMAIN a |-> AsCall(a[k])] = Append(c, AsCall(d))
  <2> DEFINE x == AsCall(d)
             l == [k \in DOMAIN a |-> AsCall(a[k])]
             r == Append(c, x)
  <2>0. x \in V
    OBVIOUS
  <2>1. l = [k \in 1..(Len(s) + 1) |-> l[k]] /\ l[Len(s) + 1] = x /\ \A k \in 1..Len(s) : l[k] = AsCall(s[k])
    BY <1>1
  <2> HIDE DEF x, l, V
  <2>2. r = [k \in 1..(Len(s) + 1) |-> r[k]] /\ r[Len(s) + 1] = x /\ \A k \in 1..Len(s) : r[k] = c[k]
    <3>1. c \in Seq(V) /\ Len(c) = Len(s)
      BY <1>3
    <3>2. /\ Append(c, x)[Len(c) + 1] = x /\ (\A k \in 1..Len(c) : Append(c, x)[k] = c[k])
          /\ Append(c, x) = [k \in 1..(Len(c) + 1) |-> Append(c, x)[k]]
      BY <2>0, <3>1, AppendIs
    <3> QED
      BY <3>1, <3>2
  <2> HIDE DEF r
  <2>3. ASSUME NEW k \in 1..(Len(s) + 1) PROVE l[k] = r[k]
    <3>1. k \in 1..Len(s) \/ k = Len(s) + 1
      BY <1>1
    <3> QED
      BY <1>3, <2>1, <2>2, <3>1
  <2>4. l = r
    BY <2>1, <2>2, <2>3
  <2> QED
    BY <2>4 DEF l, r, x
<1> QED
  BY <1>4, <1>5 DEF a, b, c

\* What is said of one more.
LEMMA SpokenAppends ==
  ASSUME NEW ds \in Seq(Deltas), NEW d \in Deltas
  PROVE  /\ Spoken(Append(ds, d)) <=> Spoken(ds) \/ (d.type = "text-delta" /\ d.of # NoWords)
         /\ d \notin Thoughts => ThoughtsOf(Append(ds, d)) = ThoughtsOf(ds)
         /\ d \in Thoughts => ReasoningOf(Append(ds, d)) = Append(ReasoningOf(ds), AsBlock(d))
         /\ d \notin CallsMade => CallsOf(Append(ds, d)) = CallsOf(ds)
         /\ d \in CallsMade => UsesOf(Append(ds, d)) = Append(UsesOf(ds), AsCall(d))
<1>1. ToSet(Append(ds, d)) = ToSet(ds) \union {d}
  BY SetOfOneMore
<1>2. ThoughtsOf(Append(ds, d)) = IF d \in Thoughts THEN Append(ThoughtsOf(ds), d) ELSE ThoughtsOf(ds)
  BY KeptAppends DEF ThoughtsOf
<1>3. CallsOf(Append(ds, d)) = IF d \in CallsMade THEN Append(CallsOf(ds), d) ELSE CallsOf(ds)
  BY KeptAppends DEF CallsOf
<1>4. ThoughtsOf(ds) \in Seq(Deltas) /\ CallsOf(ds) \in Seq(Deltas)
  <2>1. ThoughtsOf(ds) \in Seq(Deltas \intersect Thoughts) /\ CallsOf(ds) \in Seq(Deltas \intersect CallsMade)
    BY KeptAre DEF ThoughtsOf, CallsOf
  <2> QED
    BY <2>1, MoreIsTyped
<1>5. ASSUME d \in Thoughts PROVE ReasoningOf(Append(ds, d)) = Append(ReasoningOf(ds), AsBlock(d))
  <2> DEFINE t == ThoughtsOf(ds)
  <2>1. t \in Seq(Deltas) /\ ThoughtsOf(Append(ds, d)) = Append(t, d)
    BY <1>2, <1>4, <1>5
  <2> HIDE DEF t
  <2>2. [k \in DOMAIN Append(t, d) |-> AsBlock(Append(t, d)[k])] = Append([k \in DOMAIN t |-> AsBlock(t[k])], AsBlock(d))
    BY <2>1, MadeOfOneMore
  <2> QED
    BY <2>1, <2>2 DEF ReasoningOf, t
<1>6. ASSUME d \in CallsMade PROVE UsesOf(Append(ds, d)) = Append(UsesOf(ds), AsCall(d))
  <2> DEFINE t == CallsOf(ds)
  <2>1. t \in Seq(Deltas) /\ CallsOf(Append(ds, d)) = Append(t, d)
    BY <1>3, <1>4, <1>6
  <2> HIDE DEF t
  <2>2. [k \in DOMAIN Append(t, d) |-> AsCall(Append(t, d)[k])] = Append([k \in DOMAIN t |-> AsCall(t[k])], AsCall(d))
    BY <2>1, MadeOfOneMore
  <2> QED
    BY <2>1, <2>2 DEF UsesOf, t
<1> QED
  BY <1>1, <1>2, <1>3, <1>5, <1>6 DEF Spoken

\* What createMessage has gathered is what the deltas of the stream say.
UsageIs(usage, ds) ==
  /\ usage # NoUsage <=> \E d \in ToSet(ds) : d.type = "usage"
  /\ \A k \in DOMAIN ds : ds[k].type = "usage" /\ (\A j \in k + 1..Len(ds) : ds[j].type # "usage") => usage = ds[k].of
\* What was gathered is what the deltas so far say.
ReplyIs(reply, ds) ==
  /\ reply = [text |-> reply.text, toolUses |-> reply.toolUses, reasoning |-> reply.reasoning, usage |-> reply.usage]
  /\ reply.text \in BOOLEAN /\ (reply.text <=> Spoken(ds))
  /\ reply.reasoning = ReasoningOf(ds)
  /\ reply.toolUses = UsesOf(ds)
  /\ UsageIs(reply.usage, ds)

\* The last usage of one more.
LEMMA UsageAppends ==
  ASSUME NEW ds \in Seq(Deltas), NEW d \in Deltas, NEW usage, UsageIs(usage, ds)
  PROVE  UsageIs(IF d.type = "usage" THEN d.of ELSE usage, Append(ds, d))
<1> DEFINE a == Append(ds, d)
           u == IF d.type = "usage" THEN d.of ELSE usage
<1>1. /\ Len(ds) \in Nat /\ DOMAIN ds = 1..Len(ds) /\ DOMAIN a = 1..(Len(ds) + 1) /\ Len(a) = Len(ds) + 1
      /\ a[Len(ds) + 1] = d /\ \A k \in 1..Len(ds) : a[k] = ds[k]
  OBVIOUS
<1>2. ToSet(a) = ToSet(ds) \union {d}
  BY SetOfOneMore
<1> HIDE DEF a
<1>3. d.type = "usage" => d.of # NoUsage
  BY ChatAssumption
<1>4. u # NoUsage <=> \E e \in ToSet(a) : e.type = "usage"
  BY <1>2, <1>3 DEF UsageIs
<1>5. ASSUME NEW k \in DOMAIN a, a[k].type = "usage", \A j \in k + 1..Len(a) : a[j].type # "usage" PROVE u = a[k].of
  <2>1. CASE k = Len(ds) + 1
    BY <1>1, <1>5, <2>1
  <2>2. CASE k # Len(ds) + 1
    <3>1. k \in 1..Len(ds) /\ Len(ds) + 1 \in k + 1..Len(a)
      BY <1>1, <1>5, <2>2
    <3>2. d.type # "usage"
      BY <1>1, <1>5, <3>1
    <3>3. \A j \in k + 1..Len(ds) : j \in k + 1..Len(a) /\ a[j] = ds[j]
      BY <1>1, <3>1
    <3>4. ds[k].type = "usage" /\ \A j \in k + 1..Len(ds) : ds[j].type # "usage"
      BY <1>1, <1>5, <3>1, <3>3
    <3> QED
      BY <1>1, <3>1, <3>2, <3>4 DEF UsageIs
  <2> QED
    BY <2>1, <2>2
<1>6. UsageIs(u, a)
  <2> HIDE DEF u
  <2> QED
    BY <1>4, <1>5 DEF UsageIs
<1> QED
  BY <1>6 DEF u, a

\* One more delta is gathered as it should be.
LEMMA GatheredIs ==
  ASSUME NEW ds \in Seq(Deltas), NEW d \in Deltas, ReplyIs(chatReply, ds)
  PROVE  ReplyIs(Gathered(d), Append(ds, d))
<1> DEFINE r == chatReply
           next == Gathered(d)
           a == Append(ds, d)
<1>1. /\ r = [text |-> r.text, toolUses |-> r.toolUses, reasoning |-> r.reasoning, usage |-> r.usage]
      /\ r.text \in BOOLEAN /\ (r.text <=> Spoken(ds)) /\ r.reasoning = ReasoningOf(ds) /\ r.toolUses = UsesOf(ds)
      /\ UsageIs(r.usage, ds)
  BY DEF ReplyIs
<1>2. UsageIs(IF d.type = "usage" THEN d.of ELSE r.usage, a)
  BY <1>1, UsageAppends
<1>3. /\ Spoken(a) <=> Spoken(ds) \/ (d.type = "text-delta" /\ d.of # NoWords)
      /\ d.type \notin {"reasoning", "reasoning-redacted"} => ReasoningOf(a) = ReasoningOf(ds)
      /\ d.type \in {"reasoning", "reasoning-redacted"} => ReasoningOf(a) = Append(ReasoningOf(ds), AsBlock(d))
      /\ d.type # "tool-call" => UsesOf(a) = UsesOf(ds)
      /\ d.type = "tool-call" => UsesOf(a) = Append(UsesOf(ds), AsCall(d))
  BY SpokenAppends DEF Thoughts, CallsMade, ReasoningOf, UsesOf
<1> HIDE DEF a
<1>4. CASE d.type = "text-delta"
  <2>1. next = [text |-> r.text \/ d.of # NoWords, toolUses |-> r.toolUses, reasoning |-> r.reasoning, usage |-> r.usage]
    BY <1>1, <1>4 DEF Gathered
  <2>2. next.text = (r.text \/ d.of # NoWords) /\ next.toolUses = r.toolUses /\ next.reasoning = r.reasoning /\ next.usage = r.usage
    BY <2>1
  <2> HIDE DEF next
  <2>3. next.text \in BOOLEAN /\ (next.text <=> Spoken(a))
    BY <1>1, <1>3, <1>4, <2>2
  <2>4. UsageIs(next.usage, a)
    BY <1>2, <1>4, <2>2
  <2>5. next = [text |-> next.text, toolUses |-> next.toolUses, reasoning |-> next.reasoning, usage |-> next.usage]
    BY <2>1, <2>2
  <2>6. next.reasoning = ReasoningOf(a) /\ next.toolUses = UsesOf(a)
    BY <1>1, <1>3, <1>4, <2>2
  <2>7. ReplyIs(next, a)
    BY <2>3, <2>4, <2>5, <2>6 DEF ReplyIs
  <2> QED
    BY <2>7 DEF next, a
<1>5. CASE d.type = "tool-call"
  <2>1. next = [text |-> r.text, toolUses |-> Append(r.toolUses, AsCall(d)), reasoning |-> r.reasoning, usage |-> r.usage]
    BY <1>1, <1>5 DEF Gathered, AsCall
  <2>2. next.text = r.text /\ next.toolUses = Append(r.toolUses, AsCall(d)) /\ next.reasoning = r.reasoning /\ next.usage = r.usage
    BY <2>1
  <2> HIDE DEF next
  <2>7. ReplyIs(next, a)
    BY <1>1, <1>2, <1>3, <1>5, <2>1, <2>2 DEF ReplyIs
  <2> QED
    BY <2>7 DEF next, a
<1>6. CASE d.type \in {"reasoning", "reasoning-redacted"}
  <2>1. next = [text |-> r.text, toolUses |-> r.toolUses, reasoning |-> Append(r.reasoning, AsBlock(d)), usage |-> r.usage]
    BY <1>1, <1>6 DEF Gathered, AsBlock
  <2>2. next.text = r.text /\ next.toolUses = r.toolUses /\ next.reasoning = Append(r.reasoning, AsBlock(d)) /\ next.usage = r.usage
    BY <2>1
  <2> HIDE DEF next
  <2>7. ReplyIs(next, a)
    BY <1>1, <1>2, <1>3, <1>6, <2>1, <2>2 DEF ReplyIs
  <2> QED
    BY <2>7 DEF next, a
<1>7. CASE d.type = "usage"
  <2>1. next = [text |-> r.text, toolUses |-> r.toolUses, reasoning |-> r.reasoning, usage |-> d.of]
    BY <1>1, <1>7 DEF Gathered
  <2>2. next.text = r.text /\ next.toolUses = r.toolUses /\ next.reasoning = r.reasoning /\ next.usage = d.of
    BY <2>1
  <2> HIDE DEF next
  <2>7. ReplyIs(next, a)
    BY <1>1, <1>2, <1>3, <1>7, <2>1, <2>2 DEF ReplyIs
  <2> QED
    BY <2>7 DEF next, a
<1>8. CASE d.type \notin {"text-delta", "tool-call", "reasoning", "reasoning-redacted", "usage"}
  <2>1. next = r
    BY <1>8 DEF Gathered
  <2> HIDE DEF next
  <2>7. ReplyIs(next, a)
    BY <1>1, <1>2, <1>3, <1>8, <2>1 DEF ReplyIs
  <2> QED
    BY <2>7 DEF next, a
<1> QED
  BY <1>4, <1>5, <1>6, <1>7, <1>8

-----------------------------------------------------------------------------
(* The turns of a chat: the transcript. *)

\* The turns of a transcript, and which of them one is.
TurnsIn(h) == {k \in DOMAIN h : h[k].role = "assistant"}
\* Which turn of the transcript the message at k is.
RankIn(h, k) == Cardinality({j \in TurnsIn(h) : j <= k})

\* Turns are counted from one.
LEMMA RanksAre ==
  ASSUME NEW N \in Nat, NEW h, DOMAIN h = 1..N
  PROVE  /\ IsFiniteSet(TurnsIn(h)) /\ Cardinality(TurnsIn(h)) \in Nat
         /\ \A k \in TurnsIn(h) : RankIn(h, k) \in 1..Cardinality(TurnsIn(h))
<1> DEFINE X == TurnsIn(h)
<1>1. X \subseteq 1..N
  BY DEF TurnsIn
<1>2. IsFiniteSet(X) /\ Cardinality(X) \in Nat
  <2>1. IsFiniteSet(1..N)
    BY FS_Interval
  <2> HIDE DEF X
  <2>2. IsFiniteSet(X)
    BY <1>1, <2>1, FS_Subset
  <2> QED
    BY <2>2, FS_CardinalityType
<1>3. ASSUME NEW k \in X PROVE RankIn(h, k) \in 1..Cardinality(X)
  <2> DEFINE Y == {j \in X : j <= k}
  <2>1. Y \subseteq X /\ k \in Y
    BY <1>1, <1>3
  <2> HIDE DEF X, Y
  <2>2. IsFiniteSet(Y) /\ Cardinality(Y) <= Cardinality(X)
    BY <1>2, <2>1, FS_Subset
  <2>3. Cardinality(Y) \in Nat /\ Cardinality(Y) # 0
    BY <2>1, <2>2, FS_CardinalityType, FS_EmptySet
  <2>4. Cardinality(Y) \in 1..Cardinality(X)
    BY <1>2, <2>2, <2>3
  <2> QED
    BY <2>4 DEF RankIn, X, Y
<1> QED
  BY <1>2, <1>3 DEF X

\* A transcript with one more turn, and what is behind it.
LEMMA TurnAppended ==
  ASSUME NEW N \in Nat, NEW M \in Nat, NEW h, NEW H, DOMAIN h = 1..N, DOMAIN H = 1..M, N + 1 <= M,
         \A k \in 1..N : H[k] = h[k], H[N + 1].role = "assistant",
         \A k \in 1..M : k > N + 1 => H[k].role # "assistant"
  PROVE  /\ TurnsIn(H) = TurnsIn(h) \union {N + 1}
         /\ Cardinality(TurnsIn(H)) = Cardinality(TurnsIn(h)) + 1
         /\ \A k \in TurnsIn(h) : RankIn(H, k) = RankIn(h, k)
         /\ RankIn(H, N + 1) = Cardinality(TurnsIn(h)) + 1
<1>1. TurnsIn(H) = TurnsIn(h) \union {N + 1}
  <2>1. ASSUME NEW k \in 1..M PROVE k \in TurnsIn(H) <=> k \in TurnsIn(h) \union {N + 1}
    <3>1. CASE k \in 1..N
      BY <3>1 DEF TurnsIn
    <3>2. CASE k = N + 1
      BY <3>2 DEF TurnsIn
    <3>3. CASE k > N + 1
      BY <3>3 DEF TurnsIn
    <3> QED
      BY <3>1, <3>2, <3>3
  <2>2. TurnsIn(H) \subseteq 1..M /\ TurnsIn(h) \union {N + 1} \subseteq 1..M
    BY DEF TurnsIn
  <2> QED
    BY <2>1, <2>2
<1> DEFINE X == TurnsIn(h)
<1>2. X \subseteq 1..N /\ N + 1 \notin X /\ IsFiniteSet(X)
  BY RanksAre DEF TurnsIn
<1>3. Cardinality(TurnsIn(H)) = Cardinality(X) + 1
  <2> HIDE DEF X
  <2>1. Cardinality(X \union {N + 1}) = Cardinality(X) + 1
    BY <1>2, FS_AddElement
  <2> QED
    BY <1>1, <2>1 DEF X
<1>4. ASSUME NEW k \in X PROVE RankIn(H, k) = RankIn(h, k)
  <2>1. {j \in TurnsIn(H) : j <= k} = {j \in X : j <= k}
    BY <1>1, <1>2
  <2> QED
    BY <2>1 DEF RankIn
<1>5. RankIn(H, N + 1) = Cardinality(X) + 1
  <2>1. {j \in TurnsIn(H) : j <= N + 1} = TurnsIn(H)
    BY <1>1, <1>2
  <2> QED
    BY <1>3, <2>1 DEF RankIn
<1> QED
  BY <1>1, <1>3, <1>4, <1>5

\* A message is its role and its content.
MessageIs(m) == m = [role |-> m.role, content |-> m.content]
\* The results of the calls of a turn, in their order.
AnswersAre(content, ds) ==
  \E e : content = [c \in DOMAIN CallsOf(ds) |-> [type |-> "tool_result", of |-> CallsOf(ds)[c].of, error |-> e]]
\* The message at k is the turn those deltas made, and its answers follow.
TurnIs(h, k, ds) ==
  /\ h[k].content = ContentOf(ds)
  /\ CallsOf(ds) # <<>> => k + 1 \in DOMAIN h /\ AnswersAre(h[k + 1].content, ds)

\* The transcript is made of what each turn was told, in order.
HistoryIs(h, told) ==
  /\ h \in Seq(ToSet(h)) /\ told \in Seq(Seq(Deltas))
  /\ \A k \in DOMAIN h : MessageIs(h[k])
  /\ Cardinality(TurnsIn(h)) = Len(told)
  /\ \A k \in TurnsIn(h) : TurnIs(h, k, told[RankIn(h, k)])

\* A sequence is one of its own elements.
LEMMA OwnSet == ASSUME NEW T, NEW s \in Seq(T) PROVE s \in Seq(ToSet(s))
<1>1. Len(s) \in Nat /\ DOMAIN s = 1..Len(s) /\ s = [k \in 1..Len(s) |-> s[k]]
  OBVIOUS
<1>2. \A k \in 1..Len(s) : s[k] \in ToSet(s)
  BY <1>1 DEF ToSet
<1> QED
  BY <1>1, <1>2

\* A list goes on as another.
GoesOn(h, H) == Len(h) <= Len(H) /\ \A k \in 1..Len(h) : H[k] = h[k]

\* With a turn and what it asked for answered, the transcript is still made of what was told.
LEMMA HistoryGrows ==
  ASSUME NEW h, NEW told, HistoryIs(h, told), NEW ds \in Seq(Deltas), NEW turn, NEW H, NEW T, H \in Seq(T), GoesOn(h, H),
         Len(h) + 1 <= Len(H), H[Len(h) + 1] = turn, MessageIs(turn), turn.role = "assistant", turn.content = ContentOf(ds),
         \A k \in 1..Len(H) : k > Len(h) + 1 => H[k].role # "assistant" /\ MessageIs(H[k]),
         CallsOf(ds) # <<>> => Len(h) + 2 \in DOMAIN H /\ AnswersAre(H[Len(h) + 2].content, ds)
  PROVE  HistoryIs(H, Append(told, ds))
<1> DEFINE N == Len(h)
           M == Len(H)
           more == Append(told, ds)
<1>1. /\ h \in Seq(ToSet(h)) /\ told \in Seq(Seq(Deltas)) /\ (\A k \in DOMAIN h : MessageIs(h[k]))
      /\ Cardinality(TurnsIn(h)) = Len(told)
      /\ \A k \in TurnsIn(h) : TurnIs(h, k, told[RankIn(h, k)])
  BY DEF HistoryIs
<1>2. N \in Nat /\ M \in Nat /\ DOMAIN h = 1..N /\ DOMAIN H = 1..M /\ N + 1 <= M /\ \A k \in 1..N : H[k] = h[k]
  BY <1>1 DEF GoesOn
<1>3. /\ more \in Seq(Seq(Deltas)) /\ Len(more) = Len(told) + 1 /\ Len(told) \in Nat
      /\ more[Len(told) + 1] = ds /\ \A k \in 1..Len(told) : more[k] = told[k]
  BY <1>1
<1> HIDE DEF more
<1>4. /\ TurnsIn(H) = TurnsIn(h) \union {N + 1} /\ Cardinality(TurnsIn(H)) = Cardinality(TurnsIn(h)) + 1
      /\ (\A k \in TurnsIn(h) : RankIn(H, k) = RankIn(h, k))
      /\ RankIn(H, N + 1) = Cardinality(TurnsIn(h)) + 1
  <2>1. H[N + 1].role = "assistant" /\ \A k \in 1..M : k > N + 1 => H[k].role # "assistant"
    OBVIOUS
  <2> HIDE DEF N, M
  <2> QED
    BY <1>2, <2>1, TurnAppended
<1>5. \A k \in TurnsIn(h) : RankIn(h, k) \in 1..Len(told) /\ k \in 1..N
  BY <1>1, <1>2, RanksAre DEF TurnsIn
<1>6. ASSUME NEW k \in TurnsIn(H) PROVE TurnIs(H, k, more[RankIn(H, k)])
  <2>1. CASE k = N + 1
    <3>1. more[RankIn(H, k)] = ds
      BY <1>1, <1>3, <1>4, <2>1
    <3>2. N + 1 + 1 = N + 2
      BY <1>2
    <3> QED
      BY <2>1, <3>1, <3>2 DEF TurnIs
  <2>2. CASE k \in TurnsIn(h)
    <3>1. more[RankIn(H, k)] = told[RankIn(h, k)]
      BY <1>3, <1>4, <1>5, <2>2
    <3> DEFINE d == told[RankIn(h, k)]
    <3>2. h[k].content = ContentOf(d) /\ (CallsOf(d) # <<>> => k + 1 \in DOMAIN h /\ AnswersAre(h[k + 1].content, d))
      BY <1>1, <2>2 DEF TurnIs
    <3> HIDE DEF d
    <3>3. H[k] = h[k]
      BY <1>2, <1>5, <2>2
    <3>4. k + 1 \in DOMAIN h => k + 1 \in DOMAIN H /\ H[k + 1] = h[k + 1]
      BY <1>2
    <3>5. TurnIs(H, k, d)
      BY <3>2, <3>3, <3>4 DEF TurnIs
    <3> QED
      BY <3>1, <3>5 DEF d
  <2> QED
    BY <1>4, <2>1, <2>2
<1>7. ASSUME NEW k \in DOMAIN H PROVE MessageIs(H[k])
  <2>1. k \in 1..N \/ k = N + 1 \/ (k \in 1..M /\ k > N + 1)
    BY <1>2
  <2> QED
    BY <1>1, <1>2, <2>1
<1>8. H \in Seq(ToSet(H))
  BY OwnSet
<1>9. HistoryIs(H, more)
  BY <1>1, <1>3, <1>4, <1>6, <1>7, <1>8 DEF HistoryIs
<1> QED
  BY <1>9 DEF more

-----------------------------------------------------------------------------
(* The turns of a chat: what is sent. *)

\* A list of blocks on the wire.
OnWire(s) == [k \in DOMAIN s |-> ToPart(s[k])]

\* It is one part for each block.
LEMMA SentIs ==
  ASSUME NEW T, NEW s \in Seq(T)
  PROVE  OnWire(s) \in Seq({ToPart(x) : x \in T}) /\ Len(OnWire(s)) = Len(s) /\ \A k \in 1..Len(s) : OnWire(s)[k] = ToPart(s[k])
<1> DEFINE W == {ToPart(x) : x \in T}
           w == OnWire(s)
<1>1. Len(s) \in Nat /\ DOMAIN s = 1..Len(s) /\ \A k \in 1..Len(s) : s[k] \in T
  OBVIOUS
<1>2. \A k \in 1..Len(s) : ToPart(s[k]) \in W
  BY <1>1
<1>3. w = [k \in 1..Len(s) |-> ToPart(s[k])]
  BY <1>1 DEF OnWire
<1> HIDE DEF W, w
<1>4. DOMAIN w = 1..Len(s) /\ \A k \in 1..Len(s) : w[k] = ToPart(s[k])
  BY <1>3
<1>5. w \in [1..Len(s) -> W]
  BY <1>2, <1>3
<1>6. w \in Seq(W) /\ Len(w) = Len(s)
  BY <1>1, <1>5
<1> QED
  BY <1>4, <1>6 DEF W, w

\* Two lists are sent one after the other.
LEMMA SentOfJoined ==
  ASSUME NEW T, NEW a \in Seq(T), NEW b \in Seq(T)
  PROVE  OnWire(a \o b) = OnWire(a) \o OnWire(b)
<1> DEFINE W == {ToPart(x) : x \in T}
           s == a \o b
           p == OnWire(a)
           q == OnWire(b)
           l == OnWire(s)
           r == p \o q
<1>1. s \in Seq(T) /\ Len(s) = Len(a) + Len(b) /\ Len(a) \in Nat /\ Len(b) \in Nat
  OBVIOUS
<1>2. (\A k \in 1..Len(a) : s[k] = a[k]) /\ (\A k \in 1..Len(b) : s[Len(a) + k] = b[k])
  BY Joined, JoinedRest
<1> HIDE DEF s
<1>3. l \in Seq(W) /\ Len(l) = Len(s) /\ \A k \in 1..Len(s) : l[k] = ToPart(s[k])
  BY <1>1, SentIs
<1>4. /\ p \in Seq(W) /\ Len(p) = Len(a) /\ (\A k \in 1..Len(a) : p[k] = ToPart(a[k]))
      /\ q \in Seq(W) /\ Len(q) = Len(b) /\ \A k \in 1..Len(b) : q[k] = ToPart(b[k])
  BY SentIs
<1> HIDE DEF W, p, q, l
<1>5. /\ r \in Seq(W) /\ Len(r) = Len(a) + Len(b)
      /\ (\A k \in 1..Len(a) : r[k] = p[k]) /\ \A k \in 1..Len(b) : r[Len(a) + k] = q[k]
  <2>1. p \in Seq(W) /\ q \in Seq(W)
    BY <1>4
  <2>2. r \in Seq(W) /\ Len(r) = Len(p) + Len(q) /\ \A k \in 1..Len(p) : r[k] = p[k]
    BY <2>1, Joined
  <2>3. \A k \in 1..Len(q) : r[Len(p) + k] = q[k]
    BY <2>1, JoinedRest
  <2> HIDE DEF r
  <2> QED
    BY <1>4, <2>2, <2>3
<1> HIDE DEF r
<1>6. ASSUME NEW k \in 1..(Len(a) + Len(b)) PROVE l[k] = r[k]
  <2>1. CASE k \in 1..Len(a)
    BY <1>1, <1>2, <1>3, <1>4, <1>5, <2>1
  <2>2. CASE k \notin 1..Len(a)
    <3> DEFINE i == k - Len(a)
    <3>1. i \in 1..Len(b) /\ k = Len(a) + i
      BY <1>1, <2>2
    <3> HIDE DEF i
    <3>2. l[k] = ToPart(b[i])
      BY <1>1, <1>2, <1>3, <3>1
    <3>3. r[k] = ToPart(b[i])
      BY <1>4, <1>5, <3>1
    <3> QED
      BY <3>2, <3>3
  <2> QED
    BY <2>1, <2>2
<1>7. l = [k \in 1..Len(l) |-> l[k]] /\ r = [k \in 1..Len(r) |-> r[k]]
  BY <1>3, <1>5
<1>8. l = r
  BY <1>1, <1>3, <1>5, <1>6, <1>7
<1> QED
  BY <1>8 DEF l, r, p, q, s

\* A thought goes back as it came.
LEMMA ThoughtIsSent == \A d \in Thoughts : ToPart(AsBlock(d)) = d
<1> TAKE d \in Thoughts
<1>1. d.type \in {"reasoning", "reasoning-redacted"} /\ d = [type |-> d.type, of |-> d.of]
  BY ChatAssumption DEF Thoughts
<1>2. CASE d.type = "reasoning"
  BY <1>2 DEF ToPart, AsBlock
<1>3. CASE d.type = "reasoning-redacted"
  <2> DEFINE b == [type |-> "redacted", of |-> d.of]
  <2>1. AsBlock(d) = b
    BY <1>3 DEF AsBlock
  <2>2. b.type = "redacted" /\ b.of = d.of
    OBVIOUS
  <2> HIDE DEF b
  <2>3. ToPart(b) = [type |-> "reasoning-redacted", of |-> b.of]
    BY <2>2 DEF ToPart
  <2> QED
    BY <1>1, <1>3, <2>1, <2>2, <2>3
<1> QED
  BY <1>1, <1>2, <1>3

\* A call goes back as a use of the tool.
LEMMA CallIsSent == \A d : ToPart(AsCall(d)) = AsUse(d)
<1> TAKE d
<1> DEFINE b == [type |-> "tool_use", of |-> d.of]
<1>1. b.type = "tool_use" /\ b.of = d.of
  OBVIOUS
<1> HIDE DEF b
<1>2. ToPart(b) = [type |-> "tool-use", of |-> b.of]
  BY <1>1 DEF ToPart
<1> QED
  BY <1>1, <1>2 DEF AsCall, AsUse, b

\* A text goes back as it is.
LEMMA TextIsSent == ToPart([type |-> "text", of |-> "said"]) = [type |-> "text", of |-> "said"]
BY DEF ToPart

\* The calls of a turn as parts of the wire.
WireUses(ds) == [c \in DOMAIN CallsOf(ds) |-> AsUse(CallsOf(ds)[c])]

\* The blocks of a turn go back as what they were made of.
LEMMA PartsAre ==
  ASSUME NEW ds \in Seq(Deltas)
  PROVE  /\ ThoughtsOf(ds) \in Seq(Thoughts) /\ CallsOf(ds) \in Seq(CallsMade)
         /\ OnWire(ReasoningOf(ds)) = ThoughtsOf(ds)
         /\ OnWire(TextOf(ds)) = TextOf(ds)
         /\ OnWire(UsesOf(ds)) = WireUses(ds)
<1>1. ThoughtsOf(ds) \in Seq(Thoughts) /\ CallsOf(ds) \in Seq(CallsMade)
  <2>1. ThoughtsOf(ds) \in Seq(Deltas \intersect Thoughts) /\ CallsOf(ds) \in Seq(Deltas \intersect CallsMade)
    BY KeptAre DEF ThoughtsOf, CallsOf
  <2> QED
    BY <2>1, MoreIsTyped
<1> DEFINE t == ThoughtsOf(ds)
           c == CallsOf(ds)
<1>2. t \in Seq(Thoughts) /\ DOMAIN t = 1..Len(t) /\ t = [k \in DOMAIN t |-> t[k]] /\ \A k \in DOMAIN t : t[k] \in Thoughts
  BY <1>1
<1>3. OnWire(ReasoningOf(ds)) = [k \in DOMAIN t |-> ToPart(AsBlock(t[k]))]
  <2> DEFINE r == ReasoningOf(ds)
  <2>1. DOMAIN r = DOMAIN t /\ \A k \in DOMAIN t : r[k] = AsBlock(t[k])
    BY DEF ReasoningOf
  <2> HIDE DEF r, t
  <2>2. OnWire(r) = [k \in DOMAIN t |-> ToPart(AsBlock(t[k]))]
    BY <2>1 DEF OnWire
  <2> QED
    BY <2>2 DEF r
<1>4. OnWire(UsesOf(ds)) = [k \in DOMAIN c |-> ToPart(AsCall(c[k]))]
  <2> DEFINE r == UsesOf(ds)
  <2>1. DOMAIN r = DOMAIN c /\ \A k \in DOMAIN c : r[k] = AsCall(c[k])
    BY DEF UsesOf
  <2> HIDE DEF r, c
  <2>2. OnWire(r) = [k \in DOMAIN c |-> ToPart(AsCall(c[k]))]
    BY <2>1 DEF OnWire
  <2> QED
    BY <2>2 DEF r
<1> HIDE DEF t, c
<1>5. OnWire(ReasoningOf(ds)) = t
  BY <1>2, <1>3, ThoughtIsSent
<1>6. OnWire(UsesOf(ds)) = [k \in DOMAIN c |-> AsUse(c[k])]
  BY <1>4, CallIsSent
<1>7. OnWire(TextOf(ds)) = TextOf(ds)
  <2> DEFINE x == [type |-> "text", of |-> "said"]
  <2>1. ToPart(x) = x
    BY TextIsSent
  <2> HIDE DEF x
  <2>2. OnWire(<<x>>) = <<x>>
    <3> DEFINE one == <<x>>
    <3>1. DOMAIN one = 1..1 /\ one = [k \in 1..1 |-> x] /\ \A k \in 1..1 : one[k] = x
      OBVIOUS
    <3> HIDE DEF one
    <3>2. OnWire(one) = [k \in 1..1 |-> x]
      BY <2>1, <3>1 DEF OnWire
    <3> QED
      BY <3>1, <3>2 DEF one
  <2>3. OnWire(<<>>) = <<>>
    BY DEF OnWire
  <2> QED
    BY <2>2, <2>3 DEF TextOf, x
<1> QED
  BY <1>1, <1>5, <1>6, <1>7 DEF t, c, WireUses

\* What the blocks of a turn are.
LEMMA BlocksAre ==
  ASSUME NEW ds \in Seq(Deltas)
  PROVE  /\ ReasoningOf(ds) \in Seq({AsBlock(d) : d \in Thoughts})
         /\ TextOf(ds) \in Seq({[type |-> "text", of |-> "said"]})
         /\ UsesOf(ds) \in Seq({AsCall(d) : d \in CallsMade})
         /\ WireUses(ds) \in Seq({AsUse(d) : d \in CallsMade})
<1> DEFINE t == ThoughtsOf(ds)
           c == CallsOf(ds)
<1>1. t \in Seq(Thoughts) /\ c \in Seq(CallsMade)
  BY PartsAre
<1>2. /\ ReasoningOf(ds) = [k \in DOMAIN t |-> AsBlock(t[k])]
      /\ UsesOf(ds) = [k \in DOMAIN c |-> AsCall(c[k])] /\ WireUses(ds) = [k \in DOMAIN c |-> AsUse(c[k])]
  BY DEF ReasoningOf, UsesOf, WireUses
<1> HIDE DEF t, c
<1>3. /\ Len(t) \in Nat /\ DOMAIN t = 1..Len(t) /\ \A k \in DOMAIN t : t[k] \in Thoughts
      /\ Len(c) \in Nat /\ DOMAIN c = 1..Len(c) /\ \A k \in DOMAIN c : c[k] \in CallsMade
  BY <1>1
<1>4. [k \in DOMAIN t |-> AsBlock(t[k])] \in Seq({AsBlock(d) : d \in Thoughts})
  BY <1>3
<1>5. [k \in DOMAIN c |-> AsCall(c[k])] \in Seq({AsCall(d) : d \in CallsMade})
  BY <1>3
<1>6. [k \in DOMAIN c |-> AsUse(c[k])] \in Seq({AsUse(d) : d \in CallsMade})
  BY <1>3
<1>7. TextOf(ds) \in Seq({[type |-> "text", of |-> "said"]})
  <2> DEFINE x == [type |-> "text", of |-> "said"]
  <2> HIDE DEF x
  <2>1. <<x>> \in Seq({x}) /\ <<>> \in Seq({x})
    OBVIOUS
  <2> QED
    BY <2>1 DEF TextOf, x
<1> QED
  BY <1>2, <1>4, <1>5, <1>6, <1>7

\* The content of a turn goes back with every thought and every call, and its text if it has any.
LEMMA ContentIsSent ==
  ASSUME NEW ds \in Seq(Deltas), NEW m, m.content = OnWire(ContentOf(ds))
  PROVE  /\ PartsBut(m, "text") = ThoughtsOf(ds) \o WireUses(ds)
         /\ (\E e \in ToSet(m.content) : e.type = "text") <=> Spoken(ds)
<1> DEFINE t == ThoughtsOf(ds)
           x == TextOf(ds)
           u == WireUses(ds)
           p == m.content
           X == {[type |-> "text", of |-> "said"]}
           T == Thoughts \union X \union {AsUse(d) : d \in CallsMade}
<1>1. p = t \o x \o u
  <2> DEFINE V == {AsBlock(d) : d \in Thoughts} \union X \union {AsCall(d) : d \in CallsMade}
             a == ReasoningOf(ds)
             b == TextOf(ds)
             c == UsesOf(ds)
  <2>1. a \in Seq({AsBlock(d) : d \in Thoughts}) /\ b \in Seq(X) /\ c \in Seq({AsCall(d) : d \in CallsMade})
    BY BlocksAre DEF X
  <2>2. OnWire(a) = t /\ OnWire(b) = x /\ OnWire(c) = u
    BY PartsAre
  <2>3. ContentOf(ds) = a \o b \o c
    BY DEF ContentOf
  <2> HIDE DEF a, b, c, t, x, u
  <2>4. a \in Seq(V) /\ b \in Seq(V) /\ c \in Seq(V)
    BY <2>1, MoreIsTyped
  <2> HIDE DEF V
  <2>5. a \o b \in Seq(V) /\ OnWire(a \o b) = OnWire(a) \o OnWire(b)
    BY <2>4, SentOfJoined
  <2>6. OnWire((a \o b) \o c) = OnWire(a \o b) \o OnWire(c)
    BY <2>4, <2>5, SentOfJoined
  <2> QED
    BY <2>2, <2>3, <2>5, <2>6
<1>2. t \in Seq(Thoughts) /\ x \in Seq(X) /\ u \in Seq({AsUse(d) : d \in CallsMade})
  BY PartsAre, BlocksAre DEF X
<1>3. t \in Seq(T) /\ x \in Seq(T) /\ u \in Seq(T)
  BY <1>2, MoreIsTyped
<1>4. /\ \A e \in ToSet(t) : e \in Thoughts
      /\ \A e \in ToSet(x) : e \in X
      /\ \A e \in ToSet(u) : e \in {AsUse(d) : d \in CallsMade}
  <2> HIDE DEF t, x, u
  <2> QED
    BY <1>2 DEF ToSet
<1>5. \A e \in Thoughts : e.type # "text"
  BY DEF Thoughts
<1>6. \A e \in {AsUse(d) : d \in CallsMade} : e.type # "text"
  BY DEF AsUse
<1>7. \A e \in X : e.type = "text"
  OBVIOUS
<1>8. Spoken(ds) => x = <<[type |-> "text", of |-> "said"]>>
  BY DEF TextOf
<1>9. ~Spoken(ds) => x = <<>>
  BY DEF TextOf
<1> HIDE DEF t, x, u, p, T, X
<1>10. ToSet(p) = ToSet(t) \union ToSet(x) \union ToSet(u)
  <2>1. ASSUME NEW a \in Seq(T), NEW b \in Seq(T) PROVE a \o b \in Seq(T) /\ ToSet(a \o b) = ToSet(a) \union ToSet(b)
    <3> DEFINE s == a \o b
    <3>1. s \in Seq(T) /\ Len(s) = Len(a) + Len(b) /\ Len(a) \in Nat /\ Len(b) \in Nat
      OBVIOUS
    <3>2. (\A k \in 1..Len(a) : s[k] = a[k]) /\ (\A k \in 1..Len(b) : s[Len(a) + k] = b[k])
      BY Joined, JoinedRest
    <3>3. DOMAIN a = 1..Len(a) /\ DOMAIN b = 1..Len(b)
      OBVIOUS
    <3> HIDE DEF s
    <3>4. DOMAIN s = 1..(Len(a) + Len(b))
      BY <3>1
    <3>5. ASSUME NEW k \in DOMAIN s PROVE s[k] \in ToSet(a) \union ToSet(b)
      <4>1. CASE k \in 1..Len(a)
        BY <3>2, <3>3, <4>1 DEF ToSet
      <4>2. CASE k \notin 1..Len(a)
        <5>1. k - Len(a) \in 1..Len(b) /\ k = Len(a) + (k - Len(a))
          BY <3>1, <3>4, <4>2
        <5>2. s[k] = b[k - Len(a)]
          BY <3>2, <5>1
        <5> QED
          BY <3>3, <5>1, <5>2 DEF ToSet
      <4> QED
        BY <4>1, <4>2
    <3>6. ASSUME NEW k \in DOMAIN a PROVE a[k] \in ToSet(s)
      BY <3>1, <3>2, <3>3, <3>4 DEF ToSet
    <3>7. ASSUME NEW k \in DOMAIN b PROVE b[k] \in ToSet(s)
      <4>1. Len(a) + k \in DOMAIN s /\ s[Len(a) + k] = b[k]
        BY <3>1, <3>2, <3>3, <3>4
      <4> QED
        BY <4>1 DEF ToSet
    <3>8. ToSet(s) = ToSet(a) \union ToSet(b)
      <4>1. ToSet(s) \subseteq ToSet(a) \union ToSet(b)
        BY <3>5 DEF ToSet
      <4>2. ToSet(a) \subseteq ToSet(s) /\ ToSet(b) \subseteq ToSet(s)
        BY <3>6, <3>7 DEF ToSet
      <4> QED
        BY <4>1, <4>2
    <3> QED
      BY <3>1, <3>8 DEF s
  <2> DEFINE h == t \o x
  <2>2. h \in Seq(T) /\ ToSet(h) = ToSet(t) \union ToSet(x)
    BY <1>3, <2>1
  <2> HIDE DEF h
  <2>3. ToSet(h \o u) = ToSet(h) \union ToSet(u)
    BY <1>3, <2>1, <2>2
  <2> QED
    BY <1>1, <2>2, <2>3 DEF h
<1> DEFINE keep == {e \in ToSet(p) : e.type # "text"}
<1>11. /\ \A e \in ToSet(t) : e \in keep
       /\ \A e \in ToSet(x) : e \notin keep
       /\ \A e \in ToSet(u) : e \in keep
  BY <1>4, <1>5, <1>6, <1>7, <1>10
<1>12. PartsBut(m, "text") = Kept(p, keep)
  BY DEF PartsBut, p
<1> HIDE DEF keep
<1>13. Kept(t, keep) = t
  BY <1>3, <1>11, KeptAre
<1>14. Kept(x, keep) = <<>>
  BY <1>3, <1>11, KeptAre
<1>15. Kept(u, keep) = u
  BY <1>3, <1>11, KeptAre
<1>16. Kept(p, keep) = t \o u
  <2> DEFINE h == t \o x
  <2>1. h \in Seq(T) /\ Kept(h, keep) = Kept(t, keep) \o Kept(x, keep)
    BY <1>3, KeptOfJoined
  <2> HIDE DEF h
  <2>2. Kept(h \o u, keep) = Kept(h, keep) \o Kept(u, keep)
    <3>1. h \in Seq(T) /\ u \in Seq(T)
      BY <1>3, <2>1
    <3> QED
      BY <3>1, KeptOfJoined
  <2>3. t \o <<>> = t
    BY <1>3
  <2> QED
    BY <1>1, <1>13, <1>14, <1>15, <2>1, <2>2, <2>3 DEF h
<1>17. (\E e \in ToSet(p) : e.type = "text") <=> Spoken(ds)
  <2>1. CASE Spoken(ds)
    <3>1. ToSet(x) = X
      BY <1>8, <2>1 DEF ToSet, X
    <3>2. [type |-> "text", of |-> "said"] \in X
      BY DEF X
    <3> QED
      BY <1>7, <1>10, <2>1, <3>1, <3>2
  <2>2. CASE ~Spoken(ds)
    <3>1. ToSet(x) = {}
      BY <1>9, <2>2 DEF ToSet
    <3> QED
      BY <1>4, <1>5, <1>6, <1>10, <2>2, <3>1
  <2> QED
    BY <2>1, <2>2
<1> QED
  BY <1>12, <1>16, <1>17 DEF t, u, p

-----------------------------------------------------------------------------
(* The turns of a chat: requests and streams. *)

\* As far as two transcripts are the same, their turns are.
LEMMA RanksStay ==
  ASSUME NEW N \in Nat, NEW M \in Nat, NEW h, NEW H, DOMAIN h = 1..N, DOMAIN H = 1..M, N <= M,
         \A k \in 1..N : H[k].role = h[k].role
  PROVE  /\ \A k \in 1..N : k \in TurnsIn(H) <=> k \in TurnsIn(h)
         /\ \A k \in 1..N : RankIn(H, k) = RankIn(h, k)
         /\ TurnsIn(h) \subseteq 1..N
<1>1. TurnsIn(h) \subseteq 1..N /\ TurnsIn(H) \subseteq 1..M
  BY DEF TurnsIn
<1>2. \A k \in 1..N : k \in TurnsIn(H) <=> k \in TurnsIn(h)
  BY DEF TurnsIn
<1>3. ASSUME NEW k \in 1..N PROVE RankIn(H, k) = RankIn(h, k)
  <2>1. {j \in TurnsIn(H) : j <= k} = {j \in TurnsIn(h) : j <= k}
    BY <1>1, <1>2
  <2> QED
    BY <2>1 DEF RankIn
<1> QED
  BY <1>1, <1>2, <1>3

\* A request is the transcript of its time, and what a turn of it asked for is answered in it.
RequestIs(r, h, told) ==
  /\ Len(r) \in Nat /\ DOMAIN r = 1..Len(r) /\ Len(r) <= Len(h)
  /\ \A k \in DOMAIN r : r[k] = [role |-> h[k].role, content |-> OnWire(h[k].content)]
  /\ \A k \in TurnsIn(h) : k \in DOMAIN r /\ CallsOf(told[RankIn(h, k)]) # <<>> => k + 1 \in DOMAIN r

\* A request stays what it was of a transcript that goes on.
LEMMA RequestStays ==
  ASSUME NEW r, NEW h, NEW told, NEW H, NEW T, NEW ds, HistoryIs(h, told), RequestIs(r, h, told), H \in Seq(T), GoesOn(h, H)
  PROVE  RequestIs(r, H, Append(told, ds))
<1>1. /\ Len(h) \in Nat /\ DOMAIN h = 1..Len(h) /\ Len(H) \in Nat /\ DOMAIN H = 1..Len(H) /\ Len(h) <= Len(H)
      /\ \A k \in 1..Len(h) : H[k] = h[k]
  BY DEF HistoryIs, GoesOn
<1>2. /\ \A k \in 1..Len(h) : k \in TurnsIn(H) <=> k \in TurnsIn(h)
      /\ \A k \in 1..Len(h) : RankIn(H, k) = RankIn(h, k)
  BY <1>1, RanksStay
<1>3. \A k \in TurnsIn(h) : RankIn(h, k) \in 1..Len(told)
  BY <1>1, RanksAre DEF HistoryIs
<1>4. \A k \in 1..Len(told) : Append(told, ds)[k] = told[k]
  <2>1. told \in Seq(Seq(Deltas))
    BY DEF HistoryIs
  <2> QED
    BY <2>1
<1>5. Len(r) \in Nat /\ DOMAIN r = 1..Len(r) /\ Len(r) <= Len(h)
  BY DEF RequestIs
<1>6. \A k \in DOMAIN r : k \in 1..Len(h)
  BY <1>1, <1>5
<1> DEFINE more == Append(told, ds)
<1> HIDE DEF more
<1>7. ASSUME NEW k \in TurnsIn(H), k \in DOMAIN r, CallsOf(more[RankIn(H, k)]) # <<>> PROVE k + 1 \in DOMAIN r
  <2>1. k \in TurnsIn(h) /\ RankIn(H, k) = RankIn(h, k)
    BY <1>2, <1>6, <1>7
  <2>2. more[RankIn(H, k)] = told[RankIn(h, k)]
    BY <1>3, <1>4, <2>1 DEF more
  <2> QED
    BY <1>7, <2>1, <2>2 DEF RequestIs
<1>8. \A k \in DOMAIN r : r[k] = [role |-> H[k].role, content |-> OnWire(H[k].content)]
  BY <1>1, <1>6 DEF RequestIs
<1>9. RequestIs(r, H, more)
  BY <1>1, <1>5, <1>7, <1>8 DEF RequestIs
<1> QED
  BY <1>9 DEF more

\* What holds of the chat in every state.
ChatInv ==
  /\ chatStreamed \in Seq(Deltas) /\ ReplyIs(chatReply, chatStreamed)
  /\ HistoryIs(chatHistory, chatTold)
  /\ RequestIs(chatRequest, chatHistory, chatTold)
  /\ chatStreaming => Len(chatRequest) = Len(chatHistory)

\* Nothing was said yet.
LEMMA NothingIsSaid == ReplyIs(EmptyReply, <<>>) /\ <<>> \in Seq(Deltas)
<1>1. ToSet(<<>>) = {} /\ DOMAIN <<>> = {} /\ <<>> \in Seq(Deltas) /\ Len(<<>>) = 0
  BY DEF ToSet
<1> DEFINE none == <<>>
<1>2. none \in Seq(Deltas) /\ \A x \in ToSet(none) : x \notin Thoughts /\ x \notin CallsMade
  BY <1>1
<1>3. Kept(none, Thoughts) = <<>> /\ Kept(none, CallsMade) = <<>>
  <2> HIDE DEF none
  <2> QED
    BY <1>2, KeptAre
<1>4. ReasoningOf(<<>>) = <<>> /\ UsesOf(<<>>) = <<>>
  BY <1>1, <1>3 DEF ReasoningOf, UsesOf, ThoughtsOf, CallsOf
<1>5. ~Spoken(<<>>) /\ UsageIs(NoUsage, <<>>)
  BY <1>1 DEF Spoken, UsageIs
<1>6. EmptyReply = [text |-> FALSE, toolUses |-> <<>>, reasoning |-> <<>>, usage |-> NoUsage]
  BY DEF EmptyReply
<1> QED
  BY <1>1, <1>4, <1>5, <1>6 DEF ReplyIs

\* The app starts with the prompt.
LEMMA ChatInitially == ASSUME Init PROVE ChatInv
<1> DEFINE m == [role |-> "user", content |-> <<[type |-> "text", of |-> "prompt"]>>]
<1>1. /\ chatHistory = <<m>> /\ chatRequest = <<>> /\ chatReply = EmptyReply /\ chatStreaming = FALSE
      /\ chatStreamed = <<>> /\ chatTold = <<>>
  BY DEF Init, ChatInit
<1>2. MessageIs(m) /\ m.role # "assistant"
  BY DEF MessageIs
<1> HIDE DEF m
<1>3. chatHistory \in Seq({m}) /\ DOMAIN chatHistory = 1..1 /\ chatHistory[1] = m /\ Len(chatHistory) = 1
  BY <1>1
<1>4. TurnsIn(chatHistory) = {}
  BY <1>2, <1>3 DEF TurnsIn
<1>5. chatHistory \in Seq(ToSet(chatHistory))
  BY <1>3, OwnSet
<1>6. chatTold \in Seq(Seq(Deltas)) /\ Len(chatTold) = 0
  BY <1>1
<1>7. \A k \in DOMAIN chatHistory : MessageIs(chatHistory[k])
  BY <1>2, <1>3
<1>8. HistoryIs(chatHistory, chatTold)
  BY <1>4, <1>5, <1>6, <1>7, FS_EmptySet DEF HistoryIs
<1>9. RequestIs(chatRequest, chatHistory, chatTold)
  <2>1. Len(chatRequest) = 0 /\ DOMAIN chatRequest = {} /\ 1..0 = {}
    BY <1>1
  <2> QED
    BY <1>3, <2>1 DEF RequestIs
<1> QED
  BY <1>1, <1>8, <1>9, NothingIsSaid DEF ChatInv

\* A request keeps it: it sends the transcript as it is.
LEMMA CreateKeeps == ASSUME ChatInv, CreateMessage PROVE ChatInv'
<1>1. /\ chatRequest' = ToChatMessages(chatHistory) /\ chatReply' = EmptyReply /\ chatStreamed' = <<>>
      /\ chatHistory' = chatHistory /\ chatTold' = chatTold
  BY DEF CreateMessage
<1>2. ChatInv /\ HistoryIs(chatHistory, chatTold)
  BY DEF ChatInv
<1> DEFINE h == chatHistory
           r == ToChatMessages(h)
<1>3. Len(h) \in Nat /\ DOMAIN h = 1..Len(h) /\ \A k \in DOMAIN h : MessageIs(h[k])
  BY <1>2 DEF HistoryIs
<1>4. ASSUME NEW k \in DOMAIN h PROVE r[k] = [role |-> h[k].role, content |-> OnWire(h[k].content)]
  <2> DEFINE m == h[k]
             y == OnWire(m.content)
  <2>1. r[k] = [m EXCEPT !.content = y]
    BY <1>4 DEF ToChatMessages, OnWire
  <2>2. m = [role |-> m.role, content |-> m.content]
    BY <1>3, <1>4 DEF MessageIs
  <2> HIDE DEF m, y
  <2>3. [m EXCEPT !.content = y] = [role |-> m.role, content |-> y]
    BY <2>2
  <2> QED
    BY <2>1, <2>3 DEF m, y
<1>5. DOMAIN r = DOMAIN h
  BY DEF ToChatMessages
<1> HIDE DEF r, h
<1>6. Len(r) = Len(h) /\ DOMAIN r = 1..Len(r)
  BY <1>3, <1>5
<1>7. ASSUME NEW k \in TurnsIn(h), CallsOf(chatTold[RankIn(h, k)]) # <<>> PROVE k + 1 \in DOMAIN r
  <2>1. TurnIs(h, k, chatTold[RankIn(h, k)])
    BY <1>2 DEF HistoryIs, h
  <2> QED
    BY <1>5, <1>7, <2>1 DEF TurnIs
<1>8. RequestIs(r, h, chatTold)
  BY <1>3, <1>4, <1>5, <1>6, <1>7 DEF RequestIs
<1> QED
  BY <1>1, <1>2, <1>6, <1>8, NothingIsSaid DEF ChatInv, r, h

\* A delta keeps it.
LEMMA TakeKeeps == ASSUME ChatInv, NEW d \in Deltas, TakeDelta(d) PROVE ChatInv'
<1>1. /\ chatReply' = Gathered(d) /\ chatStreamed' = Append(chatStreamed, d)
      /\ UNCHANGED <<chatHistory, chatRequest, chatStreaming, chatTold>>
  BY DEF TakeDelta
<1>2. chatStreamed \in Seq(Deltas) /\ ReplyIs(chatReply, chatStreamed)
  BY DEF ChatInv
<1>3. ReplyIs(Gathered(d), Append(chatStreamed, d)) /\ Append(chatStreamed, d) \in Seq(Deltas)
  BY <1>2, GatheredIs
<1> QED
  BY <1>1, <1>3 DEF ChatInv

\* A stream that fails keeps it: the transcript is left as it was.
LEMMA FailOfStreamKeeps == ASSUME ChatInv, StreamFails PROVE ChatInv'
BY DEF ChatInv, StreamFails

-----------------------------------------------------------------------------
(* The turns of a chat. *)

\* The end of a stream keeps it: the turn is what was streamed, its calls are answered.
LEMMA EndKeeps == ASSUME ChatInv, NEW stop, TakeEnd(stop) PROVE ChatInv'
<1> DEFINE h == chatHistory
           ds == chatStreamed
           uses == chatReply.toolUses
           e == (MapStop(stop) = "max_tokens")
           turn == [role |-> "assistant", content |-> Content]
           results == [k \in DOMAIN uses |-> [type |-> "tool_result", of |-> uses[k].of, error |-> e]]
           replied == [role |-> "user", content |-> results]
           H == chatHistory'
<1>1. /\ h \in Seq(ToSet(h)) /\ HistoryIs(h, chatTold) /\ ds \in Seq(Deltas) /\ ReplyIs(chatReply, ds)
      /\ RequestIs(chatRequest, h, chatTold)
  BY DEF ChatInv, HistoryIs
<1>2. H = h \o <<turn>> \o (IF uses = <<>> THEN <<>> ELSE <<replied>>)
  BY DEF TakeEnd
<1>3. /\ chatTold' = Append(chatTold, ds) /\ chatStreaming' = FALSE
      /\ UNCHANGED <<chatRequest, chatReply, chatStreamed>>
  BY DEF TakeEnd
<1>4. Content = ContentOf(ds)
  BY <1>1 DEF ReplyIs, Content, SaidText, ContentOf, TextOf
<1>5. uses = UsesOf(ds)
  BY <1>1 DEF ReplyIs
<1>6. CallsOf(ds) \in Seq(CallsMade) /\ (uses = <<>> <=> CallsOf(ds) = <<>>)
  <2>1. CallsOf(ds) \in Seq(CallsMade)
    BY <1>1, PartsAre
  <2> DEFINE c == CallsOf(ds)
  <2>2. uses = [k \in DOMAIN c |-> AsCall(c[k])]
    BY <1>5 DEF UsesOf
  <2> HIDE DEF c, uses
  <2>3. DOMAIN uses = DOMAIN c
    BY <2>2
  <2>4. c = <<>> <=> DOMAIN c = {}
    BY <2>1 DEF c
  <2>5. uses = <<>> => DOMAIN c = {}
    BY <2>3
  <2>6. c = <<>> => uses = <<>>
    BY <2>2
  <2> QED
    BY <2>1, <2>4, <2>5, <2>6 DEF c
<1>7. AnswersAre(results, ds)
  <2> DEFINE c == CallsOf(ds)
  <2>1. DOMAIN uses = DOMAIN c /\ \A k \in DOMAIN c : uses[k] = AsCall(c[k])
    BY <1>5 DEF UsesOf
  <2>0. ASSUME NEW d PROVE AsCall(d).of = d.of
    BY DEF AsCall
  <2> HIDE DEF c, uses
  <2>2. \A k \in DOMAIN c : uses[k].of = c[k].of
    BY <2>0, <2>1
  <2> HIDE DEF e
  <2>3. results = [k \in DOMAIN c |-> [type |-> "tool_result", of |-> c[k].of, error |-> e]]
    BY <2>1, <2>2
  <2> HIDE DEF results
  <2> QED
    BY <2>3 DEF AnswersAre, c
<1>8. MessageIs(turn) /\ turn.role = "assistant" /\ turn.content = ContentOf(ds)
  BY <1>4 DEF MessageIs
<1>9. MessageIs(replied) /\ replied.role # "assistant" /\ replied.content = results
  BY DEF MessageIs
<1> HIDE DEF h, ds, uses, turn, results, replied, H
<1> DEFINE T == ToSet(h) \union {turn, replied}
           H1 == Append(h, turn)
<1>10. h \in Seq(T) /\ turn \in T /\ replied \in T
  BY <1>1, MoreIsTyped
<1> HIDE DEF T
<1>11. h \o <<turn>> = H1 /\ H1 \in Seq(T) /\ Len(h) \in Nat
  BY <1>10
<1>12. Len(H1) = Len(h) + 1 /\ H1[Len(h) + 1] = turn /\ \A k \in 1..Len(h) : H1[k] = h[k]
  BY <1>10, AppendIs
<1> HIDE DEF H1
<1> DEFINE grown == /\ H \in Seq(T) /\ GoesOn(h, H) /\ Len(h) + 1 <= Len(H) /\ H[Len(h) + 1] = turn
                    /\ \A k \in 1..Len(H) : k > Len(h) + 1 => H[k].role # "assistant" /\ MessageIs(H[k])
                    /\ CallsOf(ds) # <<>> => Len(h) + 2 \in DOMAIN H /\ AnswersAre(H[Len(h) + 2].content, ds)
<1>13. ASSUME uses = <<>> PROVE grown
  <2>1. H = H1
    <3>1. H1 \o <<>> = H1
      BY <1>11
    <3> QED
      BY <1>2, <1>11, <1>13, <3>1
  <2>2. grown
    BY <1>6, <1>11, <1>12, <1>13, <2>1 DEF GoesOn
  <2> QED
    BY <2>2
<1>14. ASSUME uses # <<>> PROVE grown
  <2>1. H = Append(H1, replied)
    <3>1. H1 \o <<replied>> = Append(H1, replied)
      BY <1>10, <1>11
    <3> QED
      BY <1>2, <1>11, <1>14, <3>1
  <2>2. Len(H) = Len(H1) + 1 /\ H[Len(H1) + 1] = replied /\ (\A k \in 1..Len(H1) : H[k] = H1[k]) /\ H \in Seq(T)
    BY <1>10, <1>11, <2>1, AppendIs
  <2>3. Len(H) = Len(h) + 2 /\ H[Len(h) + 2] = replied /\ DOMAIN H = 1..(Len(h) + 2) /\ Len(h) + 2 \in 1..(Len(h) + 2)
    <3>1. Len(H1) + 1 = Len(h) + 2 /\ DOMAIN H = 1..Len(H)
      BY <1>11, <1>12, <2>2
    <3> QED
      BY <1>11, <2>2, <3>1
  <2>4. \A k \in 1..Len(h) + 1 : k \in 1..Len(H1) /\ H[k] = H1[k]
    BY <1>11, <1>12, <2>2
  <2>5. H[Len(h) + 1] = turn /\ \A k \in 1..Len(h) : H[k] = h[k]
    BY <1>11, <1>12, <2>4
  <2>6. \A k \in 1..Len(H) : k > Len(h) + 1 => k = Len(h) + 2
    BY <1>11, <2>3
  <2>7. GoesOn(h, H) /\ Len(h) + 1 <= Len(H)
    BY <1>11, <2>3, <2>5 DEF GoesOn
  <2>8. \A k \in 1..Len(H) : k > Len(h) + 1 => H[k].role # "assistant" /\ MessageIs(H[k])
    BY <1>9, <2>3, <2>6
  <2>9. Len(h) + 2 \in DOMAIN H /\ AnswersAre(H[Len(h) + 2].content, ds)
    BY <1>7, <1>9, <2>3
  <2> QED
    BY <2>2, <2>5, <2>7, <2>8, <2>9
<1>15. grown
  BY <1>13, <1>14
<1>16. HistoryIs(H, Append(chatTold, ds))
  BY <1>1, <1>8, <1>15, HistoryGrows
<1>17. RequestIs(chatRequest, H, Append(chatTold, ds))
  BY <1>1, <1>15, RequestStays
<1> QED
  BY <1>1, <1>3, <1>16, <1>17 DEF ChatInv, H, ds

\* Every step keeps it.
LEMMA ChatStep == ASSUME ChatInv, [Next]_vars PROVE ChatInv'
<1>1. CASE UNCHANGED chatVars
  BY <1>1 DEF chatVars, ChatInv
<1>2. CASE CreateMessage
  BY <1>2, CreateKeeps
<1>3. ASSUME NEW d \in Deltas, TakeDelta(d) PROVE ChatInv'
  BY <1>3, TakeKeeps
<1>4. ASSUME NEW stop, TakeEnd(stop) PROVE ChatInv'
  BY <1>4, EndKeeps
<1>5. CASE StreamFails
  BY <1>5, FailOfStreamKeeps
<1> QED
  BY <1>1, <1>2, <1>3, <1>4, <1>5, ChatOrNot DEF ChatNext

\* A turn of the transcript that a request holds is in it as it was.
LEMMA TurnGoesBack ==
  ASSUME ChatInv, NEW k \in TurnsIn(chatRequest), NEW ds, ds = chatTold[RankIn(chatRequest, k)]
  PROVE  /\ PartsBut(chatRequest[k], "text") = Kept(ds, Thoughts) \o WireUses(ds)
         /\ (\E e \in ToSet(chatRequest[k].content) : e.type = "text") <=> Spoken(ds)
         /\ CallsOf(ds) # <<>> =>
              [c \in DOMAIN CallsOf(ds) |-> chatRequest[k + 1].content[c].of] = [c \in DOMAIN CallsOf(ds) |-> CallsOf(ds)[c].of]
<1> DEFINE h == chatHistory
           r == chatRequest
<1>1. HistoryIs(h, chatTold) /\ RequestIs(r, h, chatTold)
  BY DEF ChatInv
<1>2. /\ Len(h) \in Nat /\ DOMAIN h = 1..Len(h) /\ Len(r) \in Nat /\ DOMAIN r = 1..Len(r) /\ Len(r) <= Len(h)
      /\ \A j \in DOMAIN r : r[j] = [role |-> h[j].role, content |-> OnWire(h[j].content)]
  BY <1>1 DEF HistoryIs, RequestIs
<1>3. \A j \in 1..Len(r) : h[j].role = r[j].role /\ r[j].content = OnWire(h[j].content)
  BY <1>2
<1>4. k \in 1..Len(r) /\ k \in TurnsIn(h) /\ RankIn(h, k) = RankIn(r, k)
  <2>1. k \in TurnsIn(r)
    OBVIOUS
  <2> HIDE DEF h, r
  <2>2. k \in 1..Len(r)
    BY <1>2, <2>1 DEF TurnsIn
  <2>3. /\ \A j \in 1..Len(r) : j \in TurnsIn(h) <=> j \in TurnsIn(r)
        /\ \A j \in 1..Len(r) : RankIn(h, j) = RankIn(r, j)
    <3>1. Len(r) \in Nat /\ Len(h) \in Nat /\ Len(r) <= Len(h)
      BY <1>2
    <3>2. DOMAIN r = 1..Len(r) /\ DOMAIN h = 1..Len(h)
      BY <1>2
    <3>3. \A j \in 1..Len(r) : h[j].role = r[j].role
      BY <1>3
    <3> QED
      BY <3>1, <3>2, <3>3, RanksStay
  <2> QED
    BY <2>1, <2>2, <2>3
<1>5. TurnIs(h, k, ds)
  BY <1>1, <1>4 DEF HistoryIs
<1>6. ds \in Seq(Deltas)
  <2>1. RankIn(h, k) \in 1..Len(chatTold) /\ chatTold \in Seq(Seq(Deltas))
    BY <1>1, <1>2, <1>4, RanksAre DEF HistoryIs
  <2> QED
    BY <1>4, <2>1
<1> DEFINE m == r[k]
<1>7. m.content = OnWire(ContentOf(ds))
  BY <1>3, <1>4, <1>5 DEF TurnIs
<1> HIDE DEF h, r, m
<1>8. /\ PartsBut(m, "text") = ThoughtsOf(ds) \o WireUses(ds)
      /\ (\E e \in ToSet(m.content) : e.type = "text") <=> Spoken(ds)
  BY <1>6, <1>7, ContentIsSent
<1>9. ASSUME CallsOf(ds) # <<>>
      PROVE  [c \in DOMAIN CallsOf(ds) |-> r[k + 1].content[c].of] = [c \in DOMAIN CallsOf(ds) |-> CallsOf(ds)[c].of]
  <2> DEFINE calls == CallsOf(ds)
             w == h[k + 1].content
             v == r[k + 1].content
  <2>1. AnswersAre(w, ds)
    BY <1>5, <1>9 DEF TurnIs
  <2>2. k + 1 \in DOMAIN r
    BY <1>1, <1>4, <1>9 DEF RequestIs, r
  <2>3. v = OnWire(w)
    BY <1>2, <1>3, <2>2
  <2>4. PICK e : w = [c \in DOMAIN calls |-> [type |-> "tool_result", of |-> calls[c].of, error |-> e]]
    BY <2>1 DEF AnswersAre
  <2> HIDE DEF w, v, calls
  <2>5. DOMAIN w = DOMAIN calls /\ \A c \in DOMAIN calls : w[c].type = "tool_result" /\ w[c].of = calls[c].of
    BY <2>4
  <2>6. ASSUME NEW x, x.type = "tool_result" PROVE ToPart(x).of = x.of
    BY <2>6 DEF ToPart
  <2>7. \A c \in DOMAIN calls : v[c] = ToPart(w[c])
    BY <2>3, <2>5 DEF OnWire
  <2>8. \A c \in DOMAIN calls : v[c].of = calls[c].of
    BY <2>5, <2>6, <2>7
  <2>9. [c \in DOMAIN calls |-> v[c].of] = [c \in DOMAIN calls |-> calls[c].of]
    BY <2>8
  <2> QED
    BY <2>9 DEF v, calls
<1> QED
  BY <1>8, <1>9 DEF ThoughtsOf, m, r

\* So every turn goes back as it was.
LEMMA TurnsAreSentBack == ASSUME ChatInv PROVE TurnIsSentBack
<1> DEFINE turns == {k \in DOMAIN chatRequest : chatRequest[k].role = "assistant"}
           turnOf(k) == Cardinality({j \in turns : j <= k})
<1>1. turns = TurnsIn(chatRequest) /\ \A k : turnOf(k) = RankIn(chatRequest, k)
  BY DEF TurnsIn, RankIn
<1>2. ASSUME NEW k \in turns
      PROVE  LET deltas == chatTold[turnOf(k)]
                 calls == Kept(deltas, CallsMade)
             IN  /\ PartsBut(chatRequest[k], "text") = Kept(deltas, Thoughts) \o [c \in DOMAIN calls |-> AsUse(calls[c])]
                 /\ (\E e \in ToSet(chatRequest[k].content) : e.type = "text")
                      <=> \E d \in ToSet(deltas) : d.type = "text-delta" /\ d.of # NoWords
                 /\ calls # <<>> =>
                      [c \in DOMAIN calls |-> chatRequest[k + 1].content[c].of] = [c \in DOMAIN calls |-> calls[c].of]
  <2> DEFINE ds == chatTold[turnOf(k)]
  <2>1. k \in TurnsIn(chatRequest) /\ ds = chatTold[RankIn(chatRequest, k)]
    BY <1>1, <1>2
  <2> HIDE DEF ds, turnOf, turns
  <2>2. /\ PartsBut(chatRequest[k], "text") = Kept(ds, Thoughts) \o WireUses(ds)
        /\ (\E e \in ToSet(chatRequest[k].content) : e.type = "text") <=> Spoken(ds)
        /\ CallsOf(ds) # <<>> =>
             [c \in DOMAIN CallsOf(ds) |-> chatRequest[k + 1].content[c].of] = [c \in DOMAIN CallsOf(ds) |-> CallsOf(ds)[c].of]
    BY <2>1, TurnGoesBack
  <2> QED
    BY <2>2 DEF WireUses, CallsOf, Spoken, ds
<1>3. chatStreaming => Cardinality(turns) = Len(chatTold)
  <2> HAVE chatStreaming
  <2> DEFINE h == chatHistory
             r == chatRequest
  <2>1. /\ HistoryIs(h, chatTold) /\ RequestIs(r, h, chatTold) /\ Len(r) = Len(h)
    BY DEF ChatInv
  <2>2. /\ Len(h) \in Nat /\ DOMAIN h = 1..Len(h) /\ DOMAIN r = 1..Len(h)
        /\ \A k \in 1..Len(h) : r[k] = [role |-> h[k].role, content |-> OnWire(h[k].content)]
    BY <2>1 DEF HistoryIs, RequestIs
  <2>3. \A k \in 1..Len(h) : r[k].role = h[k].role
    BY <2>2
  <2>4. TurnsIn(r) = TurnsIn(h)
    BY <2>2, <2>3 DEF TurnsIn
  <2> QED
    BY <1>1, <2>1, <2>4 DEF HistoryIs
<1>4. UsageIs(chatReply.usage, chatStreamed)
  BY DEF ChatInv, ReplyIs
<1> HIDE DEF turnOf, turns
<1> QED
  BY <1>2, <1>3, <1>4 DEF TurnIsSentBack, UsageIs, turnOf, turns

\* However deltas are interleaved and whichever streams fail, every later request sends each turn
\* back as it was, thoughts first and each call with its answer, and nothing of a turn that
\* failed (agentChatClient.ts:20, agentChatClient.ts:84, agentLoop.ts:47).
THEOREM TurnsGoBack == Spec => []TurnIsSentBack
<1> QED
  BY ChatInitially, ChatStep, TurnsAreSentBack, PTL DEF Spec

-----------------------------------------------------------------------------
(* What an app makes of paths and answers. *)

\* Every path and link of an app means the same to all who read it, for every set of
\* repositories, refs, names, roots, route tables and candidates, and however long the app runs.
THEOREM PathsAreAgreed == Spec => []PathsAgree
<1> QED
  BY UrlsLeadBack, LinkStatesAreAgreed, BundleLinksAreWalks, RoutesAreFirst, RedirectsHappenOnce, FilesAreAgreed,
     PTL DEF PathsAgree

\* What the host sends is taken for what it is, whatever it sends, a turn is sent back as it was
\* streamed, and a component shows the metadata of the scope it is in, however many updates and
\* sources come and go.
THEOREM WhatIsParsedIsSound == Spec => []ParsedIsSound
<1> QED
  BY RepliesAreTaken, FaultsCostThemselves, ModelsAreAgreed, TurnsGoBack, MetadataIsAgreed, PTL DEF ParsedIsSound

=============================================================================
