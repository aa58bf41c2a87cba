------------------------------ MODULE Replies ------------------------------
(***************************************************************************)
(* What an app makes of the host's answer to a request: the envelope, the  *)
(* one rule that reads it (protocolRefusal.ts) and the verbs built on it,  *)
(* each with what it refuses before the wire, reads out of the data, adds  *)
(* to an error or turns an error into.  How a request settles at all is    *)
(* BoundedCall.  A field of an envelope is Missing or a kind of value; the *)
(* data is <<>> or the set of the fields it has.                           *)
(***************************************************************************)
EXTENDS Naturals, FiniteSets

CONSTANTS Envelopes   \* answers of the host: [ok, code, wait, limit, data]

Missing == "missing"
RowFields == {"uid", "kid", "pub", "alg", "addedAt"}

----------------------------------------------------------------------------
(* The rule *)

Settled(how, value, code) == [settled |-> how, value |-> value, code |-> code, wait |-> FALSE, limit |-> FALSE]
Resolves(value) == Settled("resolves", value, Missing)
Rejects(code) == Settled("rejects", <<>>, code)

\* A result that says what went wrong, of a verb that does not throw.
Tells(code) == Settled("tells", <<>>, code)

\* A field of `undefined` was read: an error without a code.
TypeError == Rejects(Missing)

\* Mutant of ThrowOnRefusal: any `ok` that is true enough.
ThrowOnRefusalLoosely(reply, value) ==
    IF reply.ok \in {"true", "text"} THEN Resolves(value)
    ELSE [Rejects(IF reply.code = "text" THEN "text" ELSE "unknown") EXCEPT !.wait = reply.wait = "finite"]

\* throwOnRefusal, and what the call returns if it does not throw.
ThrowOnRefusal(reply, value) ==
    IF reply.ok = "true" THEN Resolves(value)
    ELSE [Rejects(IF reply.code = "text" THEN "text" ELSE "unknown") EXCEPT !.wait = reply.wait = "finite"]

NoValue(reply) == ThrowOnRefusal(reply, <<>>)
Data(reply) == ThrowOnRefusal(reply, reply.data)

\* A field of what was returned.
FieldOf(outcome, field) ==
    IF outcome.settled # "resolves" THEN outcome
    ELSE IF outcome.value = <<>> THEN TypeError
    ELSE [outcome EXCEPT !.value = IF field \in @[1] THEN <<{field}>> ELSE <<>>]

\* A field of that field.
Within(outcome) == IF outcome.settled = "resolves" /\ outcome.value = <<>> THEN TypeError ELSE outcome

----------------------------------------------------------------------------
(* The verbs, by the module that has them *)

DndVerbs == {"startItemDrag"}
IpcVerbs == {"postToRegion", "revealRegion"}
LinkVerbs == {"openExternal"}
RepositoryVerbs == {"openRepository"}
BundleVerbs == {"openBundle"}
ThemeVerbs == {"setHostThemeSelection", "setHostTheme", "addThemeSource", "removeThemeSource"}
VcsVerbs == {"refreshDiff", "refreshPRs", "resetWorkingTree"}
ModeVerbs == {"navigateSpaces"}
FeedVerbs == {"feedFetch"}
FetchVerbs == {"hostFetch"}
SecretVerbs == {"requestAddSecret", "requestSecret"}
TaskVerbs == {"invokeTask"}
SettingsVerbs == {"listSettingsApps"}
RefVerbs == {"resolveContentRef", "resolveContentRefs"}
EditorVerbs == {"openInEditor", "requestEdit", "setActiveFile", "closeFile", "createFile", "createFolder", "deleteEntry",
                "renameEntry", "uploadFile"}
SpacesVoid == {"inviteToSpace", "unshareSpace", "setSpaceRole", "revokeGrant", "revokeInvite", "acceptInvite", "declineInvite",
               "deleteSpace", "restoreSpace", "leaveSpace", "renameSpace"}
SpacesData == {"listSpaces", "listAllSpaces", "getSpaceMembers", "lookupUser", "listGrants", "listPendingInvites", "listMyInvites"}

\* The verbs of the history of a bundle that return one field of the data.
HistoryField == [bundleHead |-> "sha", bundleLog |-> "commits", bundleIsAncestor |-> "ancestor",
                 bundleDiffPaths |-> "paths", bundleCanWrite |-> "canWrite"]

VoidVerbs == DndVerbs \union IpcVerbs \union LinkVerbs \union RepositoryVerbs \union BundleVerbs \union ThemeVerbs
               \union VcsVerbs \union ModeVerbs \union {"revokeSecret", "clearRecentProjects"} \union SpacesVoid
DataVerbs == FeedVerbs \union FetchVerbs \union SecretVerbs \union TaskVerbs \union SettingsVerbs \union RefVerbs
               \union SpacesData \union {"invoke"}

\* editorRequest: a refusal keeps the host's limit, if it is a number.
EditorRequest(reply) ==
    LET outcome == NoValue(reply)
    IN  [outcome EXCEPT !.limit = @ \/ (reply.ok = "false" /\ reply.limit = "number")]

\* listRecentProjects: what of it is missing is `null`, but the data itself.
RecentsRequest(reply) == FieldOf(Data(reply), "projects")

BundleRead(reply) == Within(FieldOf(Data(reply), "files"))

\* publishSpaceKey: two fields, there or not; a row of listSpaceKeys: the public ones.
PublishSpaceKey(reply) ==
    LET outcome == Data(reply)
    IN  IF outcome.settled # "resolves" THEN outcome
        ELSE IF outcome.value = <<>> THEN TypeError
        ELSE Resolves(<<outcome.value[1] \intersect {"kid", "created"}>>)
ListSpaceKeys(reply) ==
    LET outcome == Data(reply)
    IN  IF outcome.settled # "resolves" THEN outcome
        ELSE IF outcome.value = <<>> \/ "pub" \notin outcome.value[1] THEN TypeError
        ELSE Resolves(<<outcome.value[1] \intersect RowFields>>)

\* `.try` of a generated verb, and importSettingsFromParent, which reads a field first.
WithTry(outcome) ==
    IF outcome.settled # "rejects" THEN outcome
    ELSE Tells(IF outcome.code = Missing THEN "unknown" ELSE outcome.code)
ImportSettings(reply) == WithTry(FieldOf(Data(reply), "copied"))

\* launch, which reads the envelope itself.
LaunchReply(reply) ==
    IF reply.ok = "true" /\ reply.data # <<>> /\ "launchId" \in reply.data[1] THEN Resolves(<<{"launchId"}>>)
    ELSE Tells(IF reply.ok = "false" /\ reply.code # Missing THEN reply.code ELSE "unknown")

MountVerbs == {"mount", "mountSpace", "requestMount", "createSpace", "openSettings", "openSettingsOf", "openLocalStore"}

Outcome(verb, reply) ==
    CASE verb \in VoidVerbs -> NoValue(reply)
      [] verb \in DataVerbs -> Data(reply)
      [] verb \in MountVerbs -> Within(Data(reply))
      [] verb \in EditorVerbs -> EditorRequest(reply)
      [] verb \in DOMAIN HistoryField -> FieldOf(Data(reply), HistoryField[verb])
      [] verb = "listRecentProjects" -> RecentsRequest(reply)
      [] verb = "bundleRead" -> BundleRead(reply)
      [] verb = "publishSpaceKey" -> PublishSpaceKey(reply)
      [] verb = "listSpaceKeys" -> ListSpaceKeys(reply)
      [] verb = "importSettingsFromParent" -> ImportSettings(reply)
      [] verb = "launch" -> LaunchReply(reply)

----------------------------------------------------------------------------
(* Calls *)

\* A call: its verb, `.try` or not, and what it names - the targets of requestEdit, the parts
\* of a method's name.
Calls ==
    LET plain == VoidVerbs \union DataVerbs \union MountVerbs \union EditorVerbs \union DOMAIN HistoryField
                   \union {"listRecentProjects", "bundleRead", "publishSpaceKey", "listSpaceKeys", "importSettingsFromParent", "launch"}
    IN  [verb : plain \ {"requestEdit", "invoke"}, try : {FALSE}, names : {{}}]
          \union [verb : SpacesVoid \union SpacesData, try : {TRUE}, names : {{}}]
          \union [verb : {"requestEdit"}, try : {FALSE}, names : SUBSET {"path", "file", "bundleFile"}]
          \union [verb : {"invoke"}, try : {FALSE}, names : {{"method"}, {"scheme", "method"}}]

\* The code of a call that is refused here, before the wire, <<>> if it is sent.
RefusedHere(call) ==
    CASE call.verb = "requestEdit" /\ Cardinality(call.names) > 1 -> <<"invalid-params">>
      [] call.verb = "invoke" /\ "scheme" \notin call.names -> <<Missing>>   \* split
      [] OTHER -> <<>>

VARIABLES
    replyCall,    \* <<>>, or the call made
    replySent,    \* it is on the wire
    replyGot,     \* <<>>, or the host's answer to it
    replyOutcome  \* what the app got

replyVars == <<replyCall, replySent, replyGot, replyOutcome>>

NotYet == Settled("no", <<>>, Missing)

RepliesInit == replyCall = <<>> /\ replySent = FALSE /\ replyGot = <<>> /\ replyOutcome = NotYet

CallVerb(call) ==
    /\ replyCall = <<>>
    /\ replyCall' = <<call>>
    /\ replySent' = (RefusedHere(call) = <<>>)
    /\ replyOutcome' = IF replySent' THEN NotYet ELSE Rejects(RefusedHere(call)[1])
    /\ UNCHANGED replyGot

HostAnswersCall(reply) ==
    /\ replySent /\ replyGot = <<>>
    /\ replyGot' = <<reply>>
    /\ LET outcome == Outcome(replyCall[1].verb, reply)
       IN  replyOutcome' = IF replyCall[1].try THEN WithTry(outcome) ELSE outcome
    /\ UNCHANGED <<replyCall, replySent>>

RepliesNext ==
    \/ \E call \in Calls : CallVerb(call)
    \/ \E reply \in Envelopes : HostAnswersCall(reply)

----------------------------------------------------------------------------
\* The fields of the data that a verb looks into, or cannot do without.
Needs(verb) ==
    CASE verb = "bundleRead" -> {"files"}
      [] verb = "listSpaceKeys" -> {"pub"}
      [] verb = "launch" -> {"launchId"}
      [] OTHER -> {}

\* A refusal, however little it says, is never taken for a success, nor a success for a
\* refusal, whatever its data looks like; what is thrown for an envelope carries a code, the
\* host's if that is a text; what must not throw does not; a wait and a limit are the host's;
\* a key row brings its public fields only; and an edit of one of two files, or a method
\* without a scheme, is not asked for (protocolRefusal.ts:180, editor.ts:218, mounts.ts:883).
ReplyIsTaken ==
    replyCall # <<>> =>
        LET call == replyCall[1]
            quiet == call.try \/ call.verb \in {"importSettingsFromParent", "launch"}
        IN  /\ call.verb = "requestEdit" /\ Cardinality(call.names) > 1 => ~replySent
            /\ ~replySent => replyOutcome.settled = "rejects"
            /\ replyGot # <<>> =>
                 LET got == replyGot[1]
                     fails == got.ok # "true"
                 IN  /\ fails => replyOutcome.settled \in {"rejects", "tells"}
                     /\ ~fails /\ got.data # <<>> /\ Needs(call.verb) \subseteq got.data[1] => replyOutcome.settled = "resolves"
                     /\ ~fails /\ call.verb \in VoidVerbs \union DataVerbs =>
                          replyOutcome.settled = "resolves" /\ (call.verb \in DataVerbs => replyOutcome.value = got.data)
                     /\ fails /\ call.verb # "launch" =>
                          replyOutcome.code = IF got.code = "text" THEN "text" ELSE "unknown"
                     /\ quiet => replyOutcome.settled # "rejects"
                     /\ replyOutcome.wait => fails /\ got.wait = "finite"
                     /\ replyOutcome.limit => fails /\ got.limit = "number"
                     /\ call.verb \in {"publishSpaceKey", "listSpaceKeys"} /\ replyOutcome.value # <<>> =>
                          "d" \notin replyOutcome.value[1]
=============================================================================
