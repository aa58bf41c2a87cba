------------------------------ MODULE AppState ------------------------------
(***************************************************************************)
(* The state an app keeps in its own realm: what it is told by its host    *)
(* outside of a request, over one bus that may come late - the chat        *)
(* provider, the task input, the boot signals, the debug gate - and what   *)
(* it leaves on history entries, reads from files and shows in dialogs,    *)
(* and what it makes of values: of paths, links and locations, of the      *)
(* frontmatter of documents, of what the host pushes, streams and answers. *)
(* These parts share at most the bus, so a behaviour follows one of them:  *)
(* `part` says which.                                                      *)
(***************************************************************************)
EXTENDS ProviderChannel, TaskInput, BootSignals, DebugResponder, EntryState, FileReads, Dialogs, Launch, Snapshots, Files, Links, Metadata,
        Routes, ChatClient, Replies

CONSTANTS Parts   \* those to explore

VARIABLE part

vars == <<part, busVars, providerVars, taskVars, bootVars, debugVars, entryVars, cacheVars, urlVars, dialogVars, launchVars, snapshotVars, fileVars, linkVars, metadataVars, routeVars, chatVars, replyVars>>

OnTheBus == {"provider", "task", "boot", "debug", "launch"}

Init ==
    /\ part \in Parts
    /\ BusInit /\ (part \notin OnTheBus => transport = "up")
    /\ ProviderInit /\ (part # "provider" => hostProvider = [provider |-> NoProvider, ungranted |-> FALSE])
    /\ TaskInit /\ (part # "task" => hostInput = NoInput)
    /\ BootInit
    /\ DebugInit /\ (part # "debug" => ~hostDebug)
    /\ EntryInit
    /\ SourcesInit
    /\ PicturesInit /\ (part # "pictures" => shown = NoPicture)
    /\ DialogsInit
    /\ LaunchInit
    /\ SnapshotsInit /\ (part # "snapshots" => snapshotShape = "VcsChange")
    /\ FilesInit
    /\ MetadataInit /\ (part # "metadata" => injected /\ query = "all")
    /\ LinksInit /\ (part # "links" => page = FirstPage)
    /\ RoutesInit /\ (part # "routes" => routes = FirstRoutes /\ present = {})
    /\ ChatInit
    /\ RepliesInit

\* Only the part p takes the step; the bus is its own affair.
Only(p) ==
    /\ part = p /\ UNCHANGED part
    /\ p # "provider" => UNCHANGED providerVars
    /\ p # "task" => UNCHANGED taskVars
    /\ p # "boot" => UNCHANGED bootVars
    /\ p # "debug" => UNCHANGED debugVars
    /\ p # "entry" => UNCHANGED entryVars
    /\ p # "sources" => UNCHANGED cacheVars
    /\ p # "pictures" => UNCHANGED urlVars
    /\ p # "dialogs" => UNCHANGED dialogVars
    /\ p # "launch" => UNCHANGED launchVars
    /\ p # "snapshots" => UNCHANGED snapshotVars
    /\ p # "files" => UNCHANGED fileVars
    /\ p # "links" => UNCHANGED linkVars
    /\ p # "metadata" => UNCHANGED metadataVars
    /\ p # "routes" => UNCHANGED routeVars
    /\ p # "chat" => UNCHANGED chatVars
    /\ p # "replies" => UNCHANGED replyVars
    /\ p \notin OnTheBus => UNCHANGED busVars

BusNext ==
    /\ part \in OnTheBus
    /\ TransportArrives \/ TransportReady
    /\ UNCHANGED <<part, providerVars, taskVars, bootVars, debugVars, entryVars, cacheVars, urlVars, dialogVars, launchVars, snapshotVars, fileVars, linkVars, metadataVars, routeVars, chatVars, replyVars>>

Next ==
    \/ BusNext
    \/ Only("provider") /\ ProviderNext
    \/ Only("task") /\ TaskNext
    \/ Only("boot") /\ BootNext
    \/ Only("debug") /\ DebugNext
    \/ Only("entry") /\ EntryNext
    \/ Only("sources") /\ SourcesNext
    \/ Only("pictures") /\ PicturesNext
    \/ Only("dialogs") /\ DialogsNext
    \/ Only("launch") /\ LaunchNext
    \/ Only("snapshots") /\ SnapshotsNext
    \/ Only("files") /\ FilesNext
    \/ Only("links") /\ LinksNext
    \/ Only("metadata") /\ MetadataNext
    \/ Only("routes") /\ RoutesNext
    \/ Only("chat") /\ ChatNext
    \/ Only("replies") /\ RepliesNext

Spec == Init /\ [][Next]_vars

\* Messages arrive, the host answers what it gets, the transport comes in the end.
Delivery ==
    \/ PushArrives /\ Only("provider")
    \/ InputArrives /\ Only("task")
    \/ HandshakeAsked /\ Only("boot")

HostReplies ==
    \/ HostAnswersProvider /\ Only("provider")
    \/ HostAnswersInputPoll /\ Only("task")

\* The app of a task reads its input again and again.
AppReads == GetTaskInput /\ Only("task")

FairSpec == Spec /\ WF_vars(BusNext)
                 /\ WF_vars(Delivery) /\ SF_vars(HostReplies) /\ WF_vars(HostAsksHandshake /\ Only("boot"))
                 /\ WF_vars(AppReads) /\ WF_vars(RegionReady /\ Only("boot"))

----------------------------------------------------------------------------
(* Invariants *)

\* Whoever is subscribed - a hook with its effect done, a listener - was last told what is
\* true now, however the value, the paint, the effect and the subscription interleaved:
\* pushChannel.ts onChange and use, tasks.ts useTaskInput, ready.ts onReady.
ToldCurrent ==
    /\ \A h \in Subscribed : hookValue[h] = current
    /\ \A s \in StateSubscribers : toldState[s] \in {NotTold, StateOf(current)}
    /\ inputPhase = "subscribed" => hookInput = latestInput
    /\ \A l \in ReadyListeners : toldReady[l] \in {NotListening, Word(reported)}

\* A mounted useChatProviderState renders the state the channel is in (llm.ts:161: nothing
\* while `unknown`, the connect affordance only on `not-configured`).
HookShowsState == \A h \in Subscribed : hookState[h] = StateOf(current)

\* Every path and link means the same to all who read it: the page and the URL that leads
\* back to it, the link and the state it is drawn in, the link of a bundle and the walk that
\* leaves it, the route table and the page it shows, the bundle and the file it is redirected
\* to, and the file itself, relative to its root, for the rules, the scopes and the changes
\* that name it (urlUtils.ts:205, WikiLink.tsx:48, bundleLinkPath.ts:80, routing.tsx:41,
\* MainContent.tsx:64, fs.ts:184).
PathsAgree == UrlLeadsBack /\ LinkStatesAgree /\ BundleLinkIsWalk /\ RouteIsFirst /\ RedirectsOnce /\ FilesAgree

\* What the host sends is taken for what it is, and nothing of it is missed: the answer to a
\* request, the fields of a push, the models in it, the deltas of a turn when it is sent back,
\* and the metadata of documents in the scope a component is in (protocolRefusal.ts:180,
\* pushChannel.ts:55, vcs.ts:148, llm.ts:559, agentChatClient.ts:84, hooks.ts:70,
\* injectedBundler.ts:59).
ParsedIsSound == ReplyIsTaken /\ FaultCostsItself /\ ModelsAgree /\ TurnIsSentBack /\ MetadataAgrees

\* An answer to who asks about the app, row by row and node by node under its limits, is what a
\* definition says at once: the rows of an agent's query, the nodes of a document for the host's
\* debugger (metadataQueryTool.ts:293, debug.ts:133).
ListsAgree == ToolAnswersQuery /\ AnswersBounded

----------------------------------------------------------------------------
(* Action and temporal properties *)

\* The object an app holds as its task input is replaced only by an input whose JSON differs
\* from it or that JSON cannot write: a repeated delivery runs no effect again (tasks.ts:265).
RepeatKeepsObject ==
    [][latestInput' # latestInput =>
         \/ latestInput = Nothing
         \/ {latestInput.input, latestInput'.input} \intersect Unwritable # {}
         \/ Image[latestInput'.input] # Image[latestInput.input]]_latestInput

\* The input the app holds is the host's, or one the app cannot tell from it by its JSON.
InputIsHosts ==
    latestInput # Nothing /\ (latestInput.input = hostInput \/ SameTaskInput(latestInput.input, hostInput))

\* What was sent or missed before the other side was ready is made good by asking: a started
\* channel comes to hold the host's answer, also if the host's own pushes came before anybody
\* listened (pushChannel.ts:47), if its poll went out or the host's answer changes after it did
\* not - a poll that was lost is never sent again (pushChannel.ts:73); the task input is asked
\* for until the poll is sent (tasks.ts:254), up to what its JSON loses (tasks.ts:230), the
\* handshake by the host (runtime.ts:110), the region waits for the `ready` promise
\* (region.ts:25).
MissedIsRecovered ==
    /\ part = "provider" =>
         <>[](started /\ ~pollLost => answered /\ current = hostProvider.provider /\ ungrantedMark = hostProvider.ungranted)
    /\ part = "task" /\ hostInput # NoInput ~> InputIsHosts
    /\ announcements > 0 ~> heard > 0
    /\ awaitsReady ~> (shownRegion \/ regionPhase # "mounted")


\* A cleanup takes out its own entry only, in whatever order cleanups and registrations
\* come: a collector's remover leaves the key to its newer owner (entryState.ts:57), a
\* dialog that closes leaves Escape to the one on top (dialog.tsx:66).
CleanupKeepsOthers == OwnerKept /\ EscapeDismissesTop
=============================================================================
