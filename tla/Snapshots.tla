------------------------------ MODULE Snapshots ------------------------------
(***************************************************************************)
(* What the push channels take for a value: the parsers of the session     *)
(* channels.  A push is abstracted to one token per declared field - a     *)
(* value the interface allows, or one of the ways to miss it - and a       *)
(* parser to a rule per field: what the token becomes in the value the app *)
(* reads, or the refusal of the push, which leaves the last good value.    *)
(* The interfaces are tables of their own.  A nested value is `valid` when *)
(* its own parser takes it.  The list of a chat provider's models, which a *)
(* parser splits, joins and filters, is modelled entry by entry.           *)
(***************************************************************************)
EXTENDS Naturals, SequencesExt

CONSTANTS
    SnapshotShapes,   \* the parsers to explore
    MaxFaults,        \* fields missed, over the pushes of one behaviour
    MaxSnapshots,     \* pushes of one behaviour
    ModelIds,         \* ids of chat models
    MaxEntries        \* entries of a model list, and of a list of wire ids

----------------------------------------------------------------------------
(* Interfaces: the tokens a field of the value may have. *)

Must == {"valid"}
OrNull == {"valid", "null"}
OrAbsent == {"valid", "absent"}

Maybe == {"valid", "null", "absent"}

VcsDeclared == [changes |-> Must, branch |-> OrNull, prs |-> Must, diffLoading |-> Must,
    agentSession |-> Maybe, target |-> Maybe, openPR |-> Maybe, canPushUpstream |-> Maybe, diffError |-> Maybe,
    defaultSaveMode |-> OrAbsent, manifestMissing |-> OrAbsent, diffWarnings |-> OrAbsent,
    excludedPhantoms |-> OrAbsent, manifestTruncated |-> OrAbsent]
VcsPartsDeclared == [
    VcsChange |-> [f \in {"path", "status"} |-> Must],
    VcsAgentSession |-> [repo |-> Must, conversationId |-> Must, messageCount |-> Must, running |-> Must, updatedAt |-> OrAbsent],
    VcsTarget |-> [namespace |-> Must, repository |-> Must, ref |-> Must, refKind |-> Must, commitSha |-> OrNull, defaultBranch |-> OrNull]]
SpacesDeclared == [
    SpacesModeState |-> [route |-> Must, space |-> OrNull],
    SpacesRoute |-> [activity |-> Must, spaceId |-> OrNull, path |-> OrAbsent, roomId |-> OrAbsent, member |-> OrAbsent, section |-> OrAbsent],
    SpacesModeSpace |-> [id |-> Must, name |-> Must, role |-> Must, kind |-> Must, root |-> OrNull]]
SelectionDeclared == [f \in {"theme", "themeKey", "modeId", "modeSelection"} |-> Must]
ThemeCatalogEntryDeclared == [f \in {"themeKey", "label", "modes"} |-> Must]
WorkspaceDeclared == [f \in {"provider", "namespace", "repository", "ref", "label"} |-> Must]
FsChangeDeclared == [paths |-> Must, epoch |-> Must, mount |-> OrAbsent]
AuthDeclared == [status |-> Must, user |-> OrNull]
FormFactorDeclared == [f \in {"class", "orientation", "width", "height"} |-> Must]
ChromeDeclared == [overlay |-> Must, tab |-> Must]
DiagnosticsDeclared == [buildErrors |-> Must, consoleEntries |-> Must, provenance |-> OrNull]
EditorContextDeclared == [dirtyPaths |-> Must, openFiles |-> Must, activeFile |-> OrNull, viewedFile |-> OrNull]
HostAttentionDeclared == [awaiting |-> {"valid", "off"}, kind |-> OrNull, since |-> OrNull]
ProviderDeclared == [providerId |-> Must, hostVouched |-> Must, features |-> Must,
    displayName |-> OrAbsent, executor |-> OrAbsent, models |-> OrAbsent, connectedProviders |-> OrAbsent]
ModelInfoDeclared == [id |-> Must, name |-> Must, features |-> Must, contextTokens |-> Must, outputTokens |-> Must,
    inputModalities |-> Must, outputModalities |-> Must, thinking |-> Must, pricing |-> OrAbsent]
FeaturesDeclared == [f \in {"vision", "tools", "jsonMode", "reasoning", "maxContextTokens"} |-> Must]
KindModelDeclared == [id |-> Must, name |-> Must, dimensions |-> OrAbsent, maxInputs |-> OrAbsent]
ChoiceDeclared == [providerId |-> Must, displayName |-> Must, features |-> OrAbsent, modelsByKind |-> OrAbsent]

Declared == [
    VcsChange |-> VcsPartsDeclared.VcsChange, VcsAgentSession |-> VcsPartsDeclared.VcsAgentSession, VcsTarget |-> VcsPartsDeclared.VcsTarget,
    SpacesModeState |-> SpacesDeclared.SpacesModeState, SpacesRoute |-> SpacesDeclared.SpacesRoute, SpacesModeSpace |-> SpacesDeclared.SpacesModeSpace,
    VcsState |-> VcsDeclared, HostThemeSelection |-> SelectionDeclared, ThemeCatalogEntry |-> ThemeCatalogEntryDeclared,
    Workspace |-> WorkspaceDeclared, FsChange |-> FsChangeDeclared, AuthState |-> AuthDeclared,
    FormFactor |-> FormFactorDeclared, ChromeState |-> ChromeDeclared, Diagnostics |-> DiagnosticsDeclared,
    EditorContext |-> EditorContextDeclared, HostAttention |-> HostAttentionDeclared,
    ChatProviderInfo |-> ProviderDeclared, ChatModelInfo |-> ModelInfoDeclared, ChatFeatures |-> FeaturesDeclared,
    ChatProviderChoice |-> ChoiceDeclared, KindModelInfo |-> KindModelDeclared]

ASSUME SnapshotsAssumption == SnapshotShapes \subseteq DOMAIN Declared

----------------------------------------------------------------------------
(* Parsers *)

\* null, another type, not there; a list or object with something bad in it; a string that the
\* closed union of the field does not name; a boolean `false` that decides.
Missed == {"null", "foreign", "absent", "mixed", "unnamed", "off"}
Composites == {"branch", "provenance", "changes", "prs", "diffWarnings", "excludedPhantoms", "paths", "openFiles", "dirtyPaths", "modes",
          "buildErrors", "consoleEntries", "connectedProviders", "modelsByKind", "inputModalities", "outputModalities"}
ClosedUnions == {"status", "refKind", "defaultSaveMode", "activity", "role", "kind", "theme", "class", "orientation", "overlay", "executor"}
RawOf(field) == {"valid", "null", "foreign", "absent"} \union (IF field \in Composites THEN {"mixed"} ELSE {})
                  \union (IF field \in ClosedUnions THEN {"unnamed"} ELSE {})
                  \union (IF field = "awaiting" THEN {"off"} ELSE {})

\* A field that is taken as it is when its token is in `takes`, and becomes `otherwise`.
Raws == {"valid"} \union Missed
Rule(takes, otherwise) == [raw \in Raws |-> IF raw \in takes THEN raw ELSE otherwise]
Required == Rule(Must, "refused")
RequiredOrNull == Rule(OrNull, "refused")
AbsentOrRefused == Rule(OrAbsent, "refused")
Optional == Rule(Must, "absent")
OptionalOrNull == Rule(OrNull, "absent")
Nulled == Rule(Must, "null")
Defaulted == Rule(Must, "valid")
Deciding == Rule({"valid", "off"}, "refused")
AsSent == Rule(Raws, "valid")
NulledUnread == Rule({"valid", "mixed"}, "null")     \* what is inside is handed on
DefaultedUnread == Rule({"valid", "mixed"}, "valid")
RequiredUnread == Rule({"valid", "mixed"}, "refused")
RequiredForeign == Rule({"valid", "foreign"}, "refused")
RequiredString == Rule({"valid", "unnamed"}, "refused")
Usable == [raw \in Raws |-> IF raw \in {"valid", "mixed"} THEN "valid" ELSE "absent"]   \* the entries that can be used

VcsRules == [changes |-> Required, branch |-> NulledUnread, prs |-> DefaultedUnread, diffLoading |-> Defaulted,
    agentSession |-> Optional, target |-> OptionalOrNull, openPR |-> OptionalOrNull, canPushUpstream |-> OptionalOrNull,
    diffError |-> OptionalOrNull, defaultSaveMode |-> Optional, manifestMissing |-> Optional, diffWarnings |-> Optional,
    excludedPhantoms |-> Optional, manifestTruncated |-> Optional]
VcsPartsRules == [
    VcsChange |-> [path |-> Required, status |-> RequiredString],
    VcsAgentSession |-> [repo |-> Required, conversationId |-> Required, messageCount |-> Required, running |-> Required,
                         updatedAt |-> AbsentOrRefused],
    VcsTarget |-> [namespace |-> Required, repository |-> Required, ref |-> Required, refKind |-> Required,
                   commitSha |-> RequiredOrNull, defaultBranch |-> RequiredOrNull]]
SpacesRules == [
    SpacesModeState |-> [route |-> Required, space |-> RequiredOrNull],
    SpacesRoute |-> [activity |-> Required, spaceId |-> RequiredOrNull, path |-> AbsentOrRefused, roomId |-> AbsentOrRefused,
                     member |-> AbsentOrRefused, section |-> AbsentOrRefused],
    SpacesModeSpace |-> [id |-> Required, name |-> Required, role |-> Required, kind |-> Required, root |-> RequiredOrNull]]
\* A selection without `modeSelection` has its `modeId` there.
SelectionRules == [theme |-> Required, themeKey |-> Required, modeId |-> Required, modeSelection |-> Defaulted]
ThemeCatalogEntryRules == [f \in {"themeKey", "label", "modes"} |-> Required]
WorkspaceRules == [f \in {"provider", "namespace", "repository", "ref", "label"} |-> Required]
FsChangeRules == [paths |-> Required, epoch |-> Required, mount |-> Optional]
AuthRules == [status |-> Required, user |-> RequiredOrNull]
FormFactorRules == [f \in {"class", "orientation", "width", "height"} |-> Required]
ChromeRules == [overlay |-> Required, tab |-> Required]
DiagnosticsRules == [buildErrors |-> RequiredUnread, consoleEntries |-> RequiredUnread, provenance |-> NulledUnread]
EditorContextRules == [dirtyPaths |-> Required, openFiles |-> Defaulted, activeFile |-> Nulled, viewedFile |-> Nulled]
HostAttentionRules == [awaiting |-> Deciding, kind |-> Nulled, since |-> Nulled]
\* A provider without features makes the parser throw, which refuses the push as well.
ProviderRules == [providerId |-> AsSent, hostVouched |-> AsSent, features |-> RequiredForeign,
    displayName |-> Optional, executor |-> Optional, models |-> Optional, connectedProviders |-> Usable]
ModelInfoRules == [id |-> Required, name |-> Required, features |-> Required, contextTokens |-> Required, outputTokens |-> Required,
    inputModalities |-> Required, outputModalities |-> Required, thinking |-> Required, pricing |-> Optional]
\* Whether a model reasons fails closed.
FeaturesRules == [vision |-> Required, tools |-> Required, jsonMode |-> Required, reasoning |-> Defaulted, maxContextTokens |-> Required]
KindModelRules == [id |-> Required, name |-> Required, dimensions |-> Optional, maxInputs |-> Optional]
ChoiceRules == [providerId |-> Required, displayName |-> Required, features |-> Optional, modelsByKind |-> Usable]

Rules == [
    VcsChange |-> VcsPartsRules.VcsChange, VcsAgentSession |-> VcsPartsRules.VcsAgentSession, VcsTarget |-> VcsPartsRules.VcsTarget,
    SpacesModeState |-> SpacesRules.SpacesModeState, SpacesRoute |-> SpacesRules.SpacesRoute, SpacesModeSpace |-> SpacesRules.SpacesModeSpace,
    VcsState |-> VcsRules, HostThemeSelection |-> SelectionRules, ThemeCatalogEntry |-> ThemeCatalogEntryRules,
    Workspace |-> WorkspaceRules, FsChange |-> FsChangeRules, AuthState |-> AuthRules,
    FormFactor |-> FormFactorRules, ChromeState |-> ChromeRules, Diagnostics |-> DiagnosticsRules,
    EditorContext |-> EditorContextRules, HostAttention |-> HostAttentionRules,
    ChatProviderInfo |-> ProviderRules, ChatModelInfo |-> ModelInfoRules, ChatFeatures |-> FeaturesRules,
    ChatProviderChoice |-> ChoiceRules, KindModelInfo |-> KindModelRules]

\* What the parsers hand on without a look, or as the host sent it: of the status of a change
\* they see that it is a string.
Unchecked == {<<"VcsState", f>> : f \in {"branch", "prs"}} \union {<<"VcsChange", "status">>}
    \union {<<"Diagnostics", f>> : f \in {"buildErrors", "consoleEntries", "provenance"}}
    \union {<<"ChatProviderInfo", f>> : f \in {"providerId", "hostVouched", "features"}}

\* The value of a push: its fields by their rules.  Nobody is waited for once `awaiting` is off.
Parsed(shape, raw) ==
    [f \in DOMAIN raw |-> IF shape = "HostAttention" /\ f # "awaiting" /\ raw["awaiting"] = "off"
                          THEN "null" ELSE Rules[shape][f][raw[f]]]

IsRefused(shape, raw) == \E f \in DOMAIN raw : Parsed(shape, raw)[f] = "refused"

----------------------------------------------------------------------------
(* The models of a connected provider *)

\* An entry of the wire list: an id by itself, an object that describes a model, or one
\* that does not.
NoId == ""
ModelEntries == [id : ModelIds, form : {"id", "described", "bad"}] \union {[id |-> NoId, form |-> "bad"]}

ASSUME ModelsAssumption == NoId \notin ModelIds

\* The ids of a list that are in `keep`, each once, where it was first.
Once(ids, keep) ==
    LET seen[n \in 0..Len(ids)] ==
          IF n = 0 THEN <<>>
          ELSE IF ids[n] \in keep \ ToSet(seen[n - 1]) THEN Append(seen[n - 1], ids[n]) ELSE seen[n - 1]
    IN  seen[Len(ids)]

IdsOf(entries) == [k \in DOMAIN entries |-> entries[k].id]
DescribedIn(entries) == [k \in DOMAIN entries |-> IF entries[k].form = "described" THEN entries[k].id ELSE NoId]

\* Mutant of PartitionModels: only what is described is listed.
PartitionDescribed(raw) == [ids |-> Once(DescribedIn(raw), ModelIds), infos |-> Once(DescribedIn(raw), ModelIds)]

PartitionModels(raw) == [ids |-> Once(IdsOf(raw), ModelIds), infos |-> Once(DescribedIn(raw), ModelIds)]

\* One choice of usableConnectedProviders: a wire list of ids wins over the entries.
UsableChoice(raw, wireIds) ==
    LET parts == PartitionModels(raw)
        wire == Once(wireIds, ModelIds)
    IN  IF wire = <<>> THEN [models |-> parts.ids, modelInfo |-> parts.infos]
        ELSE [models |-> wire, modelInfo |-> Once(parts.infos, ToSet(wire))]

----------------------------------------------------------------------------
VARIABLES
    snapshotShape,   \* the parser of this behaviour
    snapshotPushed,  \* the last push
    snapshotHeld,    \* the value: the last that was taken
    snapshotTaken,   \* whether the last push was taken
    snapshotFaults,  \* fields missed so far
    snapshots,       \* pushes so far
    modelsPushed,    \* the last list of models: [entries, wireIds]
    modelsHeld       \* what became of it

snapshotVars == <<snapshotShape, snapshotPushed, snapshotHeld, snapshotTaken, snapshotFaults, snapshots, modelsPushed, modelsHeld>>

AllValid(shape) == [f \in DOMAIN Declared[shape] |-> "valid"]

\* A value the interface allows: what a channel holds before the first push.
SnapshotsInit ==
    /\ snapshotShape \in SnapshotShapes
    /\ snapshotPushed = AllValid(snapshotShape)
    /\ snapshotHeld = AllValid(snapshotShape)
    /\ snapshotTaken = TRUE
    /\ snapshotFaults = 0 /\ snapshots = 0
    /\ modelsPushed = [entries |-> <<>>, wireIds |-> <<>>]
    /\ modelsHeld = [models |-> <<>>, modelInfo |-> <<>>]

\* A push that misses the interface in the fields F; if the parser refuses it, the value of
\* the one before stays.
PushSnapshot ==
    /\ snapshots < MaxSnapshots
    /\ \E n \in 0..(MaxFaults - snapshotFaults) : \E F \in kSubset(n, DOMAIN Declared[snapshotShape]) :
         /\ \E tokens \in [F -> Missed] :
              /\ \A f \in F : tokens[f] \in RawOf(f)
              /\ snapshotPushed' = [f \in DOMAIN Declared[snapshotShape] |-> IF f \in F THEN tokens[f] ELSE "valid"]
              /\ snapshotTaken' = ~IsRefused(snapshotShape, snapshotPushed')
              /\ snapshotHeld' = IF snapshotTaken' THEN Parsed(snapshotShape, snapshotPushed') ELSE snapshotHeld
         /\ snapshotFaults' = snapshotFaults + n
    /\ snapshots' = snapshots + 1
    /\ UNCHANGED <<snapshotShape, modelsPushed, modelsHeld>>

\* A push of a provider whose list of models may be anything.
PushModels ==
    /\ snapshotShape = "ChatProviderChoice" /\ snapshots = 0
    /\ \E entries \in BoundedSeq(ModelEntries, MaxEntries), wireIds \in BoundedSeq(ModelIds \union {NoId}, MaxEntries) :
         /\ modelsPushed' = [entries |-> entries, wireIds |-> wireIds]
         /\ modelsHeld' = UsableChoice(entries, wireIds)
    /\ snapshots' = MaxSnapshots
    /\ UNCHANGED <<snapshotShape, snapshotPushed, snapshotHeld, snapshotTaken, snapshotFaults>>

SnapshotsNext == PushSnapshot \/ PushModels

----------------------------------------------------------------------------
\* The shapes that are taken whole or not at all, their optional fields included.
AllOrNothing == {"SpacesRoute", "VcsAgentSession"}

\* Whatever hosts of other versions push, in whatever order: of the fields that a parser looks
\* into (all but Unchecked) an app reads values its interface allows; a field that is missed
\* costs nothing but itself, and the push only if it is required; the good fields of a push
\* that was taken are what the app reads.
FaultCostsItself ==
    /\ \A f \in DOMAIN snapshotHeld :
         <<snapshotShape, f>> \notin Unchecked => snapshotHeld[f] \in Declared[snapshotShape][f]
    /\ ~snapshotTaken => \/ snapshotShape \in AllOrNothing
                        \/ \E f \in DOMAIN snapshotPushed :
                             LET allowed == Declared[snapshotShape][f]
                             IN  snapshotPushed[f] \notin allowed /\ "absent" \notin allowed
    /\ snapshotTaken => \A f \in DOMAIN snapshotPushed :
         snapshotPushed[f] = "valid" => \/ snapshotHeld[f] = "valid"
                                        \/ snapshotShape = "HostAttention" /\ snapshotPushed["awaiting"] = "off"

\* A description belongs to a model the app may choose, no model is listed or described
\* twice, and every id the host named is there unless its own list of ids says otherwise.
ModelsAgree ==
    LET models == ToSet(modelsHeld.models)
        named == {e.id : e \in ToSet(modelsPushed.entries)} \ {NoId}
        wire == ToSet(modelsPushed.wireIds) \ {NoId}
    IN  /\ ToSet(modelsHeld.modelInfo) \subseteq models
        /\ Len(modelsHeld.models) = Cardinality(models)
        /\ Len(modelsHeld.modelInfo) = Cardinality(ToSet(modelsHeld.modelInfo))
        /\ models = IF wire = {} THEN named ELSE wire
        /\ \A e \in ToSet(modelsPushed.entries) :
             e.form = "described" /\ e.id \in models => Contains(modelsHeld.modelInfo, e.id)
=============================================================================
