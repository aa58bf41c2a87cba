CONSTANTS
    MaxToApp = 2
    Parts = {"provider", "task", "boot", "entry", "sources", "pictures", "dialogs", "launch", "debug", "snapshots", "files", "links", "metadata", "routes", "chat", "replies"}
    Providers = {pro1, pro2}
    NoProvider = NoProvider
    ProviderHooks = {hook}
    StateSubscribers = {sub}
    MaxProviderChanges = 2
    Inputs <- MCInputs
    Unwritable = {"bigint"}
    Image <- MCImage
    NoInput = NoInput
    MaxDeliveries = 2
    ReadyListeners = {r1, r2}
    MaxAnnouncements = 2
    Children <- MCChildren
    Body = 1
    MaxNodes = 3
    MaxDepth = 2
    Viewport = 4
    Queries <- MCQueries
    MaxQueries = 2
    MaxSwitches = 2
    Owners = {"older", "newer", "other"}
    MaxSaves = 2
    MaxArrivals = 2
    Paths = {p1, p2}
    MaxReads = 3
    Pictures = {cat, dog}
    NoPicture = NoPicture
    MaxLoads = 3
    DialogSet = {d1, d2, d3}
    MaxKeys = 2
    LaunchCalls = {la1, la2}
    MaxPendingEnded = 1
    SnapshotShapes = {"VcsState", "VcsChange", "VcsAgentSession", "VcsTarget", "SpacesModeState", "SpacesRoute", "SpacesModeSpace", "HostThemeSelection", "ThemeCatalogEntry", "Workspace", "FsChange", "AuthState", "FormFactor", "ChromeState", "Diagnostics", "EditorContext", "HostAttention", "ChatProviderInfo", "ChatProviderChoice", "ChatModelInfo", "ChatFeatures", "KindModelInfo"}
    MaxFaults = 2
    MaxSnapshots = 2
    ModelIds = {"m1", "m2"}
    MaxEntries = 2
    Names = {"a", "b"}
    MaxSegments = 2
    MountRoots <- MCMountRoots
    Siblings <- MCSiblings
    AppRoot <- MCAppRoot
    ExploredRules <- MCRules
    LinkNames <- MCLinkNames
    Rewritten <- MCRewritten
    MaxLinkSegments = 2
    Repositories = {"r1", "r2"}
    Refs <- MCRefs
    Documents <- MCDocuments
    Stored <- MCStored
    Stamps = {0, 1}
    MaxUpdates = 2
    DefaultLimit = 2
    MaxLimit = 3
    FieldValues <- MCFieldValues
    Globs <- MCGlobs
    Filters <- MCFilters
    RoutePaths <- MCRoutePaths
    RouteTables <- MCRouteTables
    RouteRefs = {"main", "other"}
    Candidates <- MCCandidates
    MaxRouteArrivals = 3
    Envelopes <- MCEnvelopes
    Deltas <- MCDeltas
    MaxDeltas = 3
    MaxRequests = 3
SPECIFICATION FairSpec
INVARIANTS ToldCurrent ReadsSettle OneReplyPerQuery LaunchEndsTold PathsAgree ParsedIsSound ListsAgree
PROPERTIES RepeatKeepsObject MissedIsRecovered CleanupKeepsOthers
CHECK_DEADLOCK FALSE
