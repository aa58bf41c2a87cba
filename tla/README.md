# A verification project for the immediately.run SDK

The SDK (`src/src/`) is the library an app links when it runs in the immediately.run
sandbox: an iframe that talks to its host over a message bus. Nearly everything it does is
a protocol with a partner it does not control - the host, the model behind the host's
`chat` slot, the person in front of the screen - carried on one JavaScript thread. What is
hard about it is therefore not computation but order: which message, timer, abort or click
falls between which two `await`s, and what of the state read before them is still true
after. The repository also holds the pipeline that releases the SDK (`src/scripts/`,
`src/.github/workflows/`), where the partners are overlapping CI runs and three registries.

This directory models both: TLA+ modules translated from the sources, TLC runs that check
them on small instances, and TLAPS proofs of the most important properties for every value
of the constants. `PROJECT.json` is the index: for every definition the lines it models,
for every property a mutation of the code that breaks it, for every hazard the property
that would show it.

To repeat a check: `tlc -config <run>.cfg <module>.tla` with the pairs of section 4, and
`tlapm <module>_proofs.tla`.

Contents: 1 inventory, 2 plan and what became of it, 3 modules, 4 runs, 5 fairness,
6 proofs, 7 what is not modelled, 8 differences seen without a run.

## 1. Inventory

Paths are below `src/src/` unless they begin with `scripts/` or `.github/`.

| Component | State | Operations | Talks to |
|---|---|---|---|
| Agent loop, `agentLoop.ts` | transcript, turn, nudge and truncation counters, context and spend | `runAgent`, `compactTranscript` | model client, tool executor, steering queue, pause, stop signal |
| Steering queue, `agentSteering.ts` | pending corrections, the interrupt `AbortController` | `enqueue`, `cancel`, `drain`, `rearm`, `anySignal` | the app's UI; drained by the loop |
| Pause, `agentPause.ts` | `paused`, the waiters | `set`, `isPaused`, `whenResumed` | the host's region visibility; read by the loop |
| Agent chat client, `agentChatClient.ts` | per request: blocks, open text and reasoning, tool calls | `createMessage`, deltas of the stream to a turn | a host stream per turn; called by the loop |
| Chat provider, `llm.ts` | provider value, the two marks beside it | normalisation, `useChatProviderState`, model lists | a push channel |
| Host stream, `protocolStream.ts` | frame queue, `wake`, `settled`, `started`, timers | `consumeStream`: subscribe, send, pull, abort, time out, cancel | host's generator, consumer's `for await` |
| Bounded call, `sandboxUtils.ts`, `protocolDeadline.ts`, `hostAttention.ts` | idle and ceiling timers, notice | `withDeadline`, `createSuspendableDeadline`, the attendance table | host, attention channel, caller's abort |
| Refusals and verb wrappers, `protocolRefusal.ts`, `secrets.ts`, `vcs.ts`, `mounts.ts`, `netFetch.ts`, `catalog.ts` and others | none | `throwOnRefusal`; one host request per verb | bounded call |
| Push channel, `pushChannel.ts` | current value, started, listeners | `get`, `onChange`, `use`, `start` | host; a dozen read-only channels are instances |
| Session channels, `vcs.ts`, `spacesMode.ts`, `theme.ts`, `auth.ts`, `workspace.ts` and others | one value each | parse, read, subscribe | host |
| Transport and runtime, `hostTransport.ts`, `hostRuntime.ts` | none | `transport`, `sendMessage`, `addListener` | the bus |
| Tasks, `tasks.ts` | latest task input, two latches | input listener, `useTaskInput`, `completeTask`, `cancelTask`, `invokeTask` | host |
| Readiness, `ready.ts`, `runtime.ts`, `region.ts` | reported word, listeners, the handshake | `reportReady`, `onReady`, `announceHandshake`, `useRegion` | host |
| Debug, `debug.ts` | gate, ring buffer, responder | log, `snapshotDom`, `dispatchPointer`, `dispatchKey` | host |
| Launch, `launch.ts` | handles, buffered ends | `launch`, `onDismiss`, `dismiss` | host |
| Mounts, `mounts.ts`, `mountMatch.ts` | mount cache, listeners, waiters | add, remove, replay, `waitForMount`, `requestMountInternal`, `openSettings` | host |
| Files, `fs.ts`, `SafeInclude.tsx`, `bundle.ts` | watchers | path resolution, `canWrite`, reads and writes, bundle paths | mounted file systems |
| Source cache and object URLs, `sourceCache.ts`, `hooks.ts` | promises by path; one object URL per hook | read, invalidate; `useObjectUrl` | file systems |
| Metadata, `metadataSource.tsx`, `metadataQueryTool.ts`, `hooks.ts` | frontmatter per document, sources | update, `useMetadataQuery`, `runMetadataQuery` | boot's listener, the agent's tool |
| Navigation and routing, `routing.tsx`, `routeMatch.ts`, `contextUtils.ts`, `components/Routes.tsx`, `FileRouter.tsx`, `MainContent.tsx` | location, route context, probes | `navigate`, `urlchange`, matching, redirect | host's history, entry state, scrolling |
| Links and paths, `urlUtils.ts`, `bundleLinkPath.ts`, `anchorClick.ts`, `components/Link.tsx`, `WikiLink.tsx` | none | parse, construct, internal or not, who handles a click | navigation |
| Entry state, `entryState.ts` | queued values, collectors by key, last arrival | `saveEntryState`, `registerEntryStateCollector`, `takeQueuedEntryState`, `receiveNavigation` | `navigate`, `urlchange` |
| Arrival and scrolling, `boot.tsx`, `components/ScrollRestoration.tsx`, `ScrollAfterNavigation.tsx` | one attempt each: timers, observer, listener | start, sample, apply, abandon | the arrival, the page, the reader |
| Dialogs, `dialog.tsx` | stack of open dialogs, focus to give back | open, close, Escape, focus | keyboard |
| Release pipeline, `scripts/check-publish-version.mjs`, `check-published-parity.mjs`, `backfill*.mjs`, `sync-repo-integrity.mjs`, `.github/workflows/` | trust root on main, tags, gh-pages, npm, the deployed host | pull request checks, the steps of a release run | GitHub, npm, people who approve |
| Public surface gate, `scripts/check-api-stability.mjs`, `lib/dts-shape.mjs` | snapshot, ledger of removals | surface walk, comparison, `--update` | every branch |
| Wire, lockstep and pin gates, `scripts/check-protocol-snapshot.mjs`, `codegen-prototype/verify-lockstep.mjs`, `check-dependency-pins.mjs`, `check-lock-version.mjs` | pinned contract, host mirror, lockfile | extract, compare | every branch, npm |

### How the parts interact

- Everything that reaches the host goes through one of three shapes: a **bounded call**
  (one request, one answer, a deadline), a **host stream** (one request, many frames, a
  terminal frame, a cancel) or a **push channel** (one poll, then values whenever the host
  likes). A verb wrapper adds what it refuses beforehand and what it makes of the answer; a
  session channel adds a parser.
- A bounded call listens to the host-attention channel, itself a push channel, to tell a
  host that is wedged from a host that is asking a person.
- The agent loop awaits a chat client, which is a host stream per turn, and a tool executor,
  which makes bounded calls. It reads two controllers that the app's UI and the host's
  visibility write: the steering queue at each turn boundary, and the pause.
- `mounts` mirrors the host's mount table from messages; files, spaces and `launch` wait for
  a mount to appear in that mirror.
- A `urlchange` from the host first delivers the entry's remembered state (`entryState`), then
  the location (`contextUtils`), then React renders the first route that matches, and two
  effects may scroll the page.
- The gates run on every pull request and see only files; a release run starts at each merge
  and shares main, tags, gh-pages and npm with every other run that has not ended.

### What is hard here, and what makes each part correct

| Part | Hard | Correct when |
|---|---|---|
| Agent loop | stop, correction, hide and reveal between any two awaits; retries that resend a turn; a transcript that providers reject if one `tool_use` is unanswered | every transcript it sends or leaves is paired; every correction is heard once and in order; a stop ends the run cleanly; no retry goes on for ever |
| Chat client | deltas that come sliced, out of order or not at all | the turn that is sent back says what the stream said |
| Host stream | frames and aborts while the generator is not at its `await`; a consumer that leaves early; silence | no frame is lost, repeated or reordered; the host's generator is stopped when nobody reads; only silence times out |
| Bounded call | three timers, prompts of any app that suspend one of them, an abort, a late answer | no call waits past its ceiling; the idle bound measures only time in which nobody was asked; a caller is told what is true; nothing stays behind |
| Answers | hosts of other versions; a field missing or of another type | one bad optional field costs itself; a refusal is never taken for a result |
| Mounts | announcements before the listeners exist, a replay that repeats others, a mount found inside the subscription | the mirror converges to the host's table; a wait sees the mount that is there |
| Push channel, tasks, readiness | the transport is not there yet; a poll that fails; the same message several times | a value the host has is seen by every reader in the end; a repeat changes nothing |
| Debug, launch | a gate that opens and shuts; an end before the answer | each query handled once; each end reaches its handle once |
| Caches, object URLs | a result that settles after it was invalidated or unmounted | a late result never replaces a newer one; each URL is revoked once |
| Entry state, dialogs | owners that come and go in any order | a cleanup takes out its own entry only |
| Scrolling | a page that grows while the attempt waits, a reader who scrolls meanwhile, a fragment and an offset on one arrival | one scroller; never over the reader; never clamped; every attempt ends |
| Paths, links, routes | several readers of one text | they agree on what it names |
| Metadata | updates, boot snapshot and sources in any order; rows that lack a key | hook and tool show the rows there are, in a well-defined order |
| Release pipeline | overlapping, failing and rerun runs over shared registries | a version has one set of bytes for ever; a green run has shipped |
| Gates | sequences of branches; cycles; caches; a pin that lags | a pass means what the gate says it means |

The hazards of `PROJECT.json` list these at the line where they bite.

## 2. The plan and what became of it

| Step | Modules | State |
|---|---|---|
| 1 | `AgentSteering`, `AgentPause`, composed in `AgentLoop` | modelled, checked; safety proved |
| 2 | `StreamContract` (abstract), `HostStream` (refines it) | modelled, checked; safety and refinement proved |
| 3 | `BoundedCall` | modelled, checked; safety proved |
| 4 | `Mounts` | transport, watch and wait modelled, checked; safety proved |
| 5 | `EntryState`, `Arrival` | modelled, checked; safety of `Arrival` proved |
| 6 | `HostBus` with `ProviderChannel`, `TaskInput`, `BootSignals`, `DebugResponder`, `Launch` | modelled, checked; safety proved but the caps of `DebugResponder` |
| 7 | `FileReads`, `Dialogs`, with `EntryState` | modelled, checked; safety proved |
| 8 | `ChatClient`, `Snapshots`, `Replies`: what is made of what the host sends | modelled, checked; safety proved |
| 9 | `Files`, `Links`, `Metadata`, `Routes` | modelled, checked; safety proved but the rows of a query in `Metadata` |
| 10 | `ReleasePipeline` | modelled, checked; safety proved |
| 11 | `ApiGate`, `SurfaceWalk`, `WireGate`, `Lockstep`, `Pins`, composed in `Gates` | modelled, checked; safety proved |

The abstract specifications are `StreamContract`, a component of its own, and reference
definitions beside the code's: the first rule that matches (`Routes`), the walk of a relative
link (`Links`), the set of exports (`SurfaceWalk`), the rows in order (`Metadata`), a schema
that fits (`Lockstep`). What was planned and is left out is in section 7.

## 3. The modules

One convention throughout: JavaScript runs to completion between two awaits, so one action
is everything that happens from one resolution, message or timer to the next await. Host and
person are environment actions that may fall between any two of those. Text, images, token
counts and payloads are abstracted to the choices the code makes from them.

**`AgentSteering`, `AgentPause`, `AgentLoop`** (`agentSteering.ts`, `agentPause.ts`,
`agentLoop.ts`). `pc` names the await the loop is at: `hidden` in `whenResumed`, `compacting`
in a compaction before a turn, `model` in `client.turn`, `recovering` in the compaction after
a context overflow, `tools` in `executor.execute`; `returned` and `rejected` are how the
promise settled. A message is its kind and the ids of the calls it makes or answers, so a
transcript keeps exactly what pairing and compaction look at. `TopOfLoop` is the head of the
`for` (turn limit, stop, pause, drain and re-arm, compaction), and every action that ends an
iteration goes through it. `RespondText`, `RespondCalls` and `RespondTruncated` are the three
shapes of a turn, `ModelFails` the `catch`. Left out: usage reports, rendering callbacks, the
text of nudges and errors. `issued`, `cancelled` and `delivered` are histories for
`SteersInOrder`: the delivered and the waiting corrections are those typed and not taken back, and
of two of them the first was typed first.

**`ChatClient`** (`agentChatClient.ts`). One request at a time: deltas of the stream are folded
into blocks, the end of the stream or its failure makes the turn, and the next request sends
back what was made. `TurnIsSentBack` compares what was streamed with what is sent. The filter of a
list that it and `Files` are written with is in `Lists`.

**`StreamContract`, `HostStream`** (`protocolStream.ts`). The contract knows three things:
what was sent, what was seen, how it ended. `HostStream` has the generator at one of its
suspension points, its queue, both directions of the bus, the host's own generator and a
clock; `Begin`, `Pull`, `TimeOut`, `BreakOut` and the end in `End` (the `finally`) are
`consumeStream`. `wake` is not a variable: it is set exactly while `pc = "waiting"`.

**`BoundedCall`** (`sandboxUtils.ts`, `protocolDeadline.ts`, with
`hostAttention.ts` as it is read). `timers` are the ticks each of the three timers has left;
`Suspended` is `setAwaiting`, `End` the settled promise with its `finally`. `prompting` is the
host's screen, `current` the channel's value, `awaiting` what this call knows: the three differ
while messages travel. Its second part, from `Attended` on, is the table that gives a scheme its
attendance and thereby its bounds; `SchemeSpec` is the call under it.

**`Mounts`** (`mounts.ts`, `mountMatch.ts`). `hostMounts` is the truth, `mirror` the service's
cache, `toApp` the bus. `Fire` is a change of the mirror with every listener it calls.
`WaitSees` with `inReplay` is the first call of a listener within its own subscription, before
the unsubscribe function exists.

**`Arrival`** (`boot.tsx`, `contextUtils.ts`, the two scroll components, `scrollRestore.ts`,
`scrollToId.ts`). An arrival, the render and its effects are one step; an effect runs only if
what it depends on has changed, as `RestoreKey` and the comparison of locations say. The page
(height, target, offset, undispatched scroll event) and the reader are external.

**`AppState`** composes fifteen small modules. Five of them share the bus of **`HostBus`**, whose
transport is absent, takes listeners only, or works: **`ProviderChannel`** (`pushChannel.ts` in its
instance with state beside the value, `llm.ts`), **`TaskInput`** (`tasks.ts`), **`BootSignals`**
(`ready.ts`, `runtime.ts`, `region.ts`), **`DebugResponder`** (`debug.ts`) and **`Launch`**
(`launch.ts`). The others have state of their own: **`EntryState`** (`entryState.ts`; one key, any
number of owners), **`FileReads`** (`sourceCache.ts`, `useObjectUrl`), **`Dialogs`** (`dialog.tsx`;
the history `above` has the pairs of open dialogs of which the first opened later, so `TopDialog`
does not depend on the stack), **`Snapshots`** (the parsers of the channels, field by field),
**`Files`** (`fs.ts`, `SafeInclude.tsx`, `bundle.ts`), **`Links`** (`urlUtils.ts`,
`bundleLinkPath.ts` and the link components), **`Metadata`** (`metadataSource.tsx`,
`metadataQueryTool.ts`), **`Routes`** (`routeMatch.ts`, `routing.tsx`, `Routes.tsx`,
`FileRouter.tsx`, `MainContent.tsx`), **`ChatClient`**, and **`Replies`** (`protocolRefusal.ts` and
the verbs built on it). These parts share at most the bus, so a behaviour follows one of them:
`part` says which, `Only(p)` is the frame of its steps. One run asks of all of them the questions
they have in common.

Three abstractions of these modules matter to what they show. A task input has an image under
JSON (`Image`), and `sameTaskInput` compares images: what differs only in what JSON loses (a `Map`,
a `Blob`, an `undefined`) is a repeat to the code, so the properties of `TaskInput` speak of images
(`InputIsHosts`). A name has a form of its own in a URL (`Rewritten`): `new URL` percent-encodes the
path, and `parsePath` decodes the ref and nothing else, so `/files/my notes.md` comes back as
`/files/my%20notes.md` and `UrlLeadsBack` says so; a page an app can be on is one that was parsed
from a URL (`Pages`), a page a link names need not be (`LinkedPages`). A field of a push is valid,
or missed in one of the ways a parser could tell apart, among them a string its closed union does
not name (`unnamed`); what a parser hands on unseen is `Unchecked`.

**`ReleasePipeline`** (`scripts/`, `.github/workflows/ci.yml`, `pages.yml`). A pull request is
checked and merged; `run[p]` is the release run of its merge, one action per step of a job that
can fail by itself. `main` is the branch with its trust root, `tags`, `pages`, `npm` and `host`
the four places that hold what was released. A tag holds the whole trust root of its commit, and
a deploy of the host pins what the newest tag holds (`ci.yml:378`), older versions included and
newer ones not. Two builds of one tree are the same bytes
(`check-build-reproducible.mjs`), so a build is the set of changes in it. `Violations` and
`SkipIsNoOp` are the verdicts of the two scripts that guard a version.

**`Gates`** composes the five checks of a branch: **`ApiGate`** (the comparison, the ledger,
`--update`, over sequences of merges), **`SurfaceWalk`** (what a built file exports, through
stars, named re-exports and cycles, with the walk's cache; an activation's `next` is the edge it
follows next, and `LeadsWithin` is what a name leads to by the rules of the language), **`WireGate`**
(the vocabulary of the calls against the pinned contract; `Extract` says of each field of an entry
which of the calls that mention it has its text kept), **`Lockstep`** (a descriptor against the
host's mirror; what lies under a `void` of the wrapper, which takes no notice of it, is `Ignored`)
and **`Pins`** (package.json, the lockfile, and siblings that publish meanwhile). `gate` says
which one a behaviour follows.

`MCAgentLoop`, `MCHostStream`, `MCBoundedCall`, `MCAppState` and `MCGates` hold the inputs of
the model checker: records and functions that a configuration cannot write down.

### The properties that combine several

Where several parts owe the same thing, one named property says it of all of them.

| Property | Is |
|---|---|
| `HostIsFollowed` | `MirrorConverges`, `WaitSeesMount` |
| `ToldCurrent` | whoever is subscribed to the provider, the task input or readiness was last told what is true |
| `MissedIsRecovered` | what was sent before the other side was there is made good by asking |
| `CleanupKeepsOthers` | `OwnerKept` of entry state, `EscapeDismissesTop` of dialogs |
| `ReadsSettle` | `ReadOnce` of the cache, `UrlsReleased` of object URLs |
| `PathsAgree` | `UrlLeadsBack`, `LinkStatesAgree`, `BundleLinkIsWalk`, `RouteIsFirst`, `RedirectsOnce`, `FilesAgree` (with `BundleLeadsBack`) |
| `ParsedIsSound` | `ReplyIsTaken`, `FaultCostsItself`, `ModelsAgree`, `TurnIsSentBack`, `MetadataAgrees` (`HookShowsScope`, `NothingMissed`) |
| `ListsAgree` | `ToolAnswersQuery` of the metadata tool, `AnswersBounded` of the debug responder |
| `PassMeansFit` | `PassMeansContract`, `LockstepFits`, `PassMeansInstalls` |

## 4. The runs

| Run | Module, configuration | Bounds | States | Shows |
|---|---|---|---|---|
| `agent_loop` | `MCAgentLoop`, `agent_loop.cfg` | 2 corrections, 2 calls, 2 turns, 1 nudge, 1 truncation retry, a tail of 2, a fresh and a compacted history | 794,622 | pairing of every request and result; every correction heard once, in order; the interrupt signal; at most one turn while hidden; a compaction keeps the newest; a stop returns, and a run ends or waits hidden (liveness) |
| `agent_steer_cancel` | `MCAgentLoop`, `agent_steer_cancel.cfg` | as above | 5,570 | violation, see below |
| `host_stream` | `MCHostStream`, `host_stream.cfg` | 3 frames, bounds of 1, 2 and none in either order | 10,058 | `HostStream` implements `StreamContract` (`FulfilsContract`); an early end stops the host; only silence times out; it ends |
| `bounded_call` | `MCBoundedCall`, `bounded_call.cfg` | 3 changes of the prompt, attendances of 2, 3 and 5 ticks, five schemes and a caller without a bound | 191,887 | the ceiling, the idle bound from both sides, the notice, cleanup, no deadline too short for a person; it settles |
| `mounts` | `Mounts`, `mounts.cfg` | 2 keys, one an id, 3 changes by the host | 911,712 | the mirror converges and waits see what is there, watchers follow, no wait in vain |
| `mount_overlooked` | `Mounts`, `mount_overlooked.cfg` | as above | 17,045 | violation, see below |
| `arrival` | `Arrival`, `arrival.cfg` | 3 locations, one with a fragment, offsets to 2, a deadline of 2, 3 arrivals | 13,828 | one scroller, the reader wins, exact landing, attempts end |
| `app_state` | `MCAppState`, `app_state.cfg` | part by part, below | 245,080 | the properties of section 3, for all sixteen parts |
| `provider_hook` | `MCAppState`, `provider_hook.cfg` | the provider part | 1,236 | violation, see below |
| `rows_lacking_key` | `MCAppState`, `rows_lacking_key.cfg` | the metadata part | 8,649 | violation, see below |
| `release` | `ReleasePipeline`, `release.cfg` | 2 requests, versions 0 to 2, 1 failure, 2 manifests derived from the origin | 476,753 | one set of bytes per version, green means shipped, a pin is never moved, what can ship does, and is served unless a greater version was tagged without it (liveness) |
| `gates` | `MCGates`, `gates.cfg` | 1 export beside the release constant, 8 shapes, 1 ledger entry; 3 files, 2 names; 3 places of calls; 2 versions of a sibling | 188,551 | a loss is in the ledger, the walk finds what a file exports, a pass means a fit |

The states of a violation are those found before it, and vary a little.

The parts of `app_state`: 2 providers, 2 changes of them; 2 deliveries of a task
input out of one that is plain, two maps with one image under JSON and one that JSON cannot write;
2 `ready` listeners; a document of 6 nodes against caps of 3 nodes and depth 2; 2 queries, 2
switches of the gate; 3 owners of an entry's key, 2 saves, 2 arrivals; 2 paths and 3 reads; 2
pictures and 3 loads; 3 dialogs and 2 keys; 2 launches with a buffer of 1; 22 shapes of a snapshot
with up to 2 faults in each of 2 pushes; 2 file names, 2 segments, 2 mount roots with a sibling
each, 10 rules; 2 repositories, 3 refs of which one holds a slash and one begins another, names of
which one has another form in URLs, URLs with and without the slash behind the ref; 4 documents, 2
updates, limits 2 and 3, 7 kinds of filter in ones and twos; 73 route tables (boot's own, and two
rules out of 12 patterns by 3, in boot's table or nested), 7 paths, 2 refs, 3 arrivals, 2
candidates for the main file; 8 deltas, an empty one among them, 3 of them in 3 requests; 144
envelopes for each verb.

Why the bounds are enough. Pairing and compaction depend on the messages around one cut:
two turns, with two calls in a batch, on a history longer than the tail put the cut at every
kind of message, and two corrections are the fewest that can be reordered or of which one can
be taken back. Three frames allow one before, one during and one after the consumer works.
The idle bound under a longer ceiling lets it be suspended, restarted in full and suspended
again before the ceiling. Two keys distinguish a mount with an id from one without; three
changes are a mount, its re-announcement in another mode and its removal. An offset of 2 is
the smallest for which a page can be too short and still scrolled, and three arrivals give an
attempt one predecessor and one successor. Two reads of one path and one of another are the
fewest for which a late rejection could evict a newer promise; three dialogs have one on top,
one below and one between; a buffer of 1 with two launches overflows. Two requests with one
version, one failure and a rerun are the shortest dispute over a version; a third request
would repeat one of the two. Three files hold a cycle and a file outside it. Documents of two
segments reach every boundary between a directory and a name that begins with it. The envelopes
are all combinations of the kinds of value a field can have, so those of `Replies` are complete
for the fields they have.

Every configuration switches the deadlock check off: a run of the agent, a stream, a call, an
attempt or a release is over at some time, and the system is then where it should stop. That
nothing stops too early is what the liveness properties say.

For every property of a passing run a mutant of the code is listed under which it fails: a
dropped re-arm, a cancel only on abort, a deadline armed once, a removal looked up too late, a
remover that clears whoever owns the key, one latch for two jobs, a push that is forced, a
refusal recognised by `!ok`, and so on. Their definitions stand beside the originals, named as
mutants.

### Where the code does something else than its text says

Four runs expect a violation.

- `agent_steer_cancel` (`SteerNeverRejectsRun`, `agentLoop.ts:618`): an interrupt correction
  aborts the turn in flight; taken back before the aborted call has settled, it leaves neither
  signal fired, and the run **rejects** with the abort error, although a steer is to end a turn
  and never the run.
- `mount_overlooked` (`NoMountOverlooked`, `mounts.ts:497`): a call answered with a mount that
  has no id waits with the mount's path as its id, which no mount can match. The mount is there
  and the call never returns, or times out.
- `provider_hook` (`HookShowsState`, `llm.ts:726`): `useChatProviderState` derives its state from
  variables beside the channel's value; the host's first answer "no provider" leaves the value
  at `null`, React does not render, and the component goes on showing `unknown`.
- `rows_lacking_key` (`LackingKeyLast`, `metadataQueryTool.ts:267`): rows that lack the sort key
  come first in ascending order, and a limit then cuts off rows that have it; the doc says they
  sort last.

Section 8 lists smaller differences that were seen while translating and have no run.

## 5. Fairness

- `AgentLoop!FairSpec`, `WF(Loop)`: each await of the loop settles in the end. The model call is
  a host stream with an idle bound, a tool a bounded call; a resolved continuation runs. Nothing
  is assumed of the person or of the region's visibility, which is why `RunEnds` allows a run to
  wait hidden for ever.
- `HostStream!FairSpec`: the event loop runs what is due (`Pull`, `TimeOut`), time passes, the
  consumer's loop body ends, messages reach the host. The host's generator owes nothing.
- `BoundedCall!SchemeSpec` (and its `FairSpec`): time passes and due timers fire. No
  answer and no end of a prompt is assumed.
- `Mounts!FairSpec`: messages are delivered, and the host answers `request-mounts`. It owes the
  call neither an answer nor a mount.
- `Arrival!FairSpec`: the timers of an attempt fire, and time passes while there is one. Neither
  the page nor the reader owes anything.
- `AppState!FairSpec`: the transport comes in the end (`BusNext`), messages are delivered, the
  host asks for the handshake after it has listened and answers a poll it keeps getting
  (`SF(HostReplies)`: it cannot while the bus is full, so answering comes and goes),
  the `ready` promise resolves, and an app that is a task's callee goes on reading its input.
- `ReleasePipeline!FairSpec`: each step of a run is taken, a failed run is run again, a pages
  deployment comes, and the host deploys what was asked. Failures are bounded by `MaxFaults`,
  that is, they stop in the end; approvals come, but in any order.

## 6. The proofs

All assumptions are those on constants: `LoopAssumption` (limits are numbers; a history that seeds
a run is itself paired, as the transcript of an earlier run is), `StreamAssumption` and
`BoundAssumption` (bounds are ticks or infinite, and no idle bound is above its ceiling, as
`protocolDeadline.ts:225` makes them), `MountAssumption`, `ArrivalAssumption`, `ReleaseAssumption`,
`ProviderAssumption`, `InputAssumption`, `EntryStateAssumption` and `LaunchAssumption` (numbers are
numbers, and the word for nothing is not a value), `RoutesAssumption` (a template is a list of
tokens or one of boot's two regular expressions, and the main content is at `/`, as boot puts it),
`MetadataAssumption` (the default limit is a limit), `FilesAssumption` and `LinksAssumption` (a name
is none of `.`, `..` and the empty one, nor an encoded dot; roots are made of names), `ModelsAssumption` (the empty
text is no id), `ChatAssumption` (a delta is its type and what it is of, and a report of usage tells
of some), `SnapshotsAssumption` (the shapes that are pushed are declared), `ShapeAssumption` (a callable lists its
parameters, a constant is a text), `CallAssumption` (a call has a name, a method exactly if it is a
request or a stream, and a type of which the revision is not the name of a layer),
`SchemaAssumption` (a result that has a node has its ancestors) and `ContentsAssumption` (a build
has finitely many files, whose edges lead to files or nowhere). The model checker evaluates each of
them on its instance.

Induction is not at the prover's hand as a rule one can instantiate, so where an argument is one
over numbers (the tail of a compaction, the path of a result, the length of a way through
re-exports, a list read to its n-th place) it takes the least counterexample (`LeastNatural`, from
well-foundedness) instead. What a filter, a fold or a walk computes for a list of any length is
proved in this way too: it is written as a function of the place in the list, a lemma gives its
value at each place (`FoldIsThere`, `ClimbIsThere`, `OnceIsThere`, `FilterIsThere`), and another
what holds there, the least place where it does not being one step behind a place where it does.

**`AgentLoop_proofs`** - `TypeCorrect`, `PairingCorrect`, `SummaryRequestCorrect`,
`InterruptSignalCorrect`, `SteersCorrect`, `PauseCorrect`, `CompactionCorrect`: every safety property
of the run. `ToolPairing` is not inductive: within a batch the transcript is open, and what closes it
depends on the last message. The invariant `IInv` says (`TranscriptOK`) that outside a batch the
transcript is paired, that within one it is paired up to its last message, which is the batch, and
that a compaction in flight has a tail to keep; `CallerOK` adds that a run that goes on has
truncation retries left. The lemmas `AppendOpens`, `AnswerCloses` and `CompactPaired` say what
appending, answering and folding do to pairing, `CompactShape` and `CompactKeepsTail` what a
compaction leaves; they need that a tail starts with an assistant message (`TailStartIsAssistant`).
The turn of the loop is proved through the operators it is written with. `SteersCorrect` rests on
`HeardInv`: the delivered and the waiting corrections are in order (`InOrder`), and no id was typed
twice or taken back untyped (`TypedOnce`), without which a second typing would break the order.
Typing adds at the end (`TypedLast`), taking back removes one (`TakenBack`), draining changes
nothing of the two together. That a finished run leaves nothing waiting is a fact about steps
(`FinishedEmpty`): only a reply of text ends a run as finished, and it looks at the queue itself.
The theorem on hiding uses `PauseInv`: a turn begun while paused has used up the wake that allowed
it, and there is one waiter at most.

**`HostStream_proofs`** - `StreamTypeCorrect`, `TimeoutCorrect`, `StopCorrect`,
`ContractFulfilled`. `Ends` ties the generator's place to its flags, `Silence` the timer to the
clock, `Wire` and `HostSent` the request, the cancel and the host's generator to each other, and
`Pipe` says that what was seen, what is queued and what is on the bus, one after the other, is
what was sent: from it every step maps to a step of `StreamContract` or to a stutter.

**`BoundedCall_proofs`** - `CallTypeCorrect`, `WaitCorrect`, `IdleCorrect`, `AbortCorrect`,
`ToldCorrect`, `CleanupCorrect`, `PeopleCorrect`, with `CeilingCorrect` and `FaultCorrect` on the
way. The properties speak of time that passed, the code only of timers. `IInv` ties them: what the
ceiling has left and what has elapsed add up to the ceiling (`CeilingRuns`); while nobody is
asked, what the idle leg has left and the quiet time add up to the idle bound (`IdleRuns`).
`PeopleCorrect` is about `SchemeSpec` and needs three facts more: a call's bounds are those of its
scheme (`OwnBounds`), what settled it had the cause it reports (`Cause`), and where there is no
ceiling there is no timer for it (`NoCeilingNoTimer`). It needs no assumption on how far the three
attendances are apart.

**`Mounts_proofs`** - `MountTypeCorrect`, `FollowCorrect`, `WatcherCorrect`. The mirror is what the
messages under way would make of it: `LastSays` says that the last message about a key says what
the host's table says, `NothingMore` and `NothingLess` that without one the mirror agrees with it,
`NotUp` that before the service starts there is none, `WaitHasKey` what a wait looks for.

**`Arrival_proofs`** - `ArrivalTypeCorrect`, `ScrollerCorrect`, `ReaderCorrect`,
`LandingCorrect`. `OneScroller` does not carry itself over an arrival that leaves an effect
alone; `ScrollerFits` adds that a restoration runs only where there is no fragment and a search
only where there is one. `ReaderHeard` says that a restoration during which the reader scrolled
knows it, from which both action properties follow.

**`AppState_proofs`** - `ToldStaysCurrent`, `RepeatsKeepObject`, `CleanupsKeepOthers`,
`ReadsAlwaysSettle`, `QueriesHaveOneReply`, `LaunchEndsAreTold`, `PathsAreAgreed`,
`WhatIsParsedIsSound`. A step is a step of one part, so each part has an invariant of its own and a
one lemma says of all that the others leave its variables alone (`PartStep`; `ProviderOrNot`, ...,
`ChatOrNot` are its instances). The last two
put together a theorem per conjunct: `UrlsLeadBack`, `LinkStatesAreAgreed`, `BundleLinksAreWalks`,
`RoutesAreFirst`, `RedirectsHappenOnce` and `FilesAreAgreed`; `RepliesAreTaken`,
`FaultsCostThemselves`, `ModelsAreAgreed`, `TurnsGoBack` and `MetadataIsAgreed`.
- Provider and task input: `ProviderInv` and `TaskInv` say what may be on the bus and that whoever
  is subscribed holds what the channel holds (`ProviderTold`, `HookHolds`); for the task input also
  that a failed poll was reported once.
- Readiness: `ReadyTold` is inductive by itself.
- Debug: `GateInv` looks ahead in the queue: the last word of the host on the way is what the host
  thinks now, and if none is on the way an open gate is open by that word (`LastWordHolds`); a gate
  whose channel has not started is shut.
- Entry state: `OwnerAlive`, the key is owned by one that is mounted, or by nobody.
- Dialogs: `StackIsOpen`, the stack holds the open dialogs once each in the order of opening, and the
  listener is there while one is open; from it the top of the stack is the dialog none opened after
  (`EscapeTop`).
- Reads: `MemoIsRead`, each memo is a read of the path in its present epoch that has not failed, and
  conversely every such read is the memo; so two reads in one epoch mean that the first failed.
  `UrlIsEffects`: only the load of the last effect is alive, and only it has a URL, the one the
  component shows.
- Launches: `LaunchInv`, while a create is in flight an end that has arrived is in the buffer, unless
  that was full (`EndIsKept`), what the buffer and the bus say is true (`EndsAreTrue`), and a call
  without a handle has neither a status nor a callback (`HandleFirst`).
- Routes: `RoutesInv`. That the index is redirected to once is inductive only with what was found and
  sent for where the app is (`Redirecting`) and with the main content being there at `/` only
  (`MainAtItsUrl`). What is shown is what the tables make of the present path (`ShownIsOfUrl`); a rule
  is then the first that fits because a template has one reading at most over a path (`OneReading`)
  and matching finds it (`MatchIsReading`).
- Metadata: `MetadataInv`. What the hook holds was selected from the scope of now
  (`EntriesAreSelected`), and for every document the last update on its way that names it says what
  the collection says (`UpdatesLead`), so an update lost before the listener came is covered by the
  first frame.
- Answers: `CallIsAtHand`, the outcome is what the wrapper makes of the reply. Every verb has a lemma
  of its own that this is sound for any envelope (`VoidIsSound`, ..., `LaunchIsSound`).
- Links: `LinkIsAtHand` and `BundleIsAtHand`, the answer is of the link that was asked about and of
  the page it is on. A URL leads back, with each name in the form URLs give it, because the encoded
  ref is one segment (`PageIsRead`), and a page that was itself parsed from a URL leads back as it is
  because a form has no further form (`AtHandLeadsBack`); prefixes are compared with the slash behind
  them (`InternalIs`). A link of a bundle is folded from
  the left, with the segments read so far in hand, and walked from the right, with the steps up not
  yet met in hand: what is read of the front and what is walked of the rest always meet in the same
  place (`StepsMeet`), so at the two ends the fold is the walk (`FoldIsClimb`).
- Pushed state: `SnapshotInv`, with one lemma per table of a parser that it fits what its interface
  declares, and `ParsedIsFair`, what a parser that fits makes of any push. Of the status of a change
  nothing is claimed but that it is a string: `Unchecked` names what no parser looks into.
- Models: `OnceIs`, what is left of a list when each id is kept once, for any list; the property is
  then inductive by itself.
- Files: `FilesInv`. `KeptAre` and `KeptOfJoined` say what a filter leaves, `UnderTheRoot` that a path
  that was accepted names something below its root, `RuleIsDeepest` that the longest rule around a
  file is the deepest, `EntryIs` and `ScopeLeadsBack` that an entry of a bundle leads to its document.
- Turns of a chat: `ChatInv`. The reply is what the deltas so far say (`ReplyIs`, kept by each kind of
  delta in `GatheredIs`); the transcript is made of what each turn was told, in order, every turn
  with calls followed by their answers (`HistoryIs`); the last request is the transcript of its time
  (`RequestIs`). The n-th turn of a request is the n-th that was told because turns are only ever
  appended (`HistoryGrows`, `RanksStay`).

**`ReleasePipeline_proofs`** - `ReleaseTypeCorrect`, `BytesCorrect`, `GreenCorrect`, `PinsCorrect`,
for any number of requests, versions and failures. `RunFits` says for each place a run can be at
what main, tags, pages and npm hold for its version; `FirstStays` keeps what was out before;
`RootGrows` and `ShopGrows` say that pins and packages only come. The invariant is needed because
`OneSetOfBytes` says nothing of a run that has compared and not yet pushed. Version 0, which is
out before the first request, is promised less (section 8).

**`Gates_proofs`** - `LossCorrect`, `FitCorrect`, `SurfaceCorrect`, for any exports, calls, schemas,
pins and files.
- Losses (`LossInv`): the snapshot and the ledger of each copy know every use the surface ever
  offered. That a comparison finds every loss (`LossIsFound`) and every gain (`GainIsFound`) is
  proved of the code's case distinctions, not assumed.
- The wire (`WireInv`): the contract is the snapshot of the calls it was blessed from. The snapshot
  tells the text of every call that is alone in its entry (`AloneIsHeld`) and nothing that no call
  says (`SnapshotIsSaid`); a text ends with the field's revision or with a name (`ShapeEnds`), so
  two equal texts in plain sight are of one revision (`SameShape`).
- The lockstep (`FitsInLockstep`): the walk of a result reaches every node the host describes
  (`PathReached`).
- The pins (`PinsInv`): a pass is a verdict on the files as they are now, and npm forgets nothing.
- The walk (`WalkInv`): what an activation holds is what the edges it has followed bring
  (`StackInv`, `FollowBrings`), a kept surface is what all edges of its file bring, declarations over
  them (`CacheInv`), and the edges on the stack lead one to the next, so without a cycle no file is
  called that waits (`StackRanks`). A file is right as far as the files one edge on are
  (`OneEdgeRight`), and a way through re-exports without a cycle is no longer than there are files,
  which is how far `LeadsWithin` goes (`Ladder`).

Model-checked only: liveness under fairness (`RunEnds`, `StreamEnds`, `Settles`, `NoWaitInVain`,
`AttemptsEnd`, `MissedIsRecovered`, `BumpShips`), which the prover does not handle; `ListsAgree`, of
which one half compares a sort with the order it should give and the other walks a tree, both by
recursion over data that the prover cannot take apart; and the four violations.

## 7. What is not modelled

`PROJECT.json` lists every component with its state. Left out for good, because no order of steps
could make them wrong: the module cache (nothing evicts), telemetry and markers (one-way
messages), the small conversions and the fence around untrusted text, the React components that
render content and the safe-content package, generated constants, the tests' mock host.

Within the modelled components: wording and formatting; callbacks that only render, with the
`onChange` sets of the steering queue and the pause; the order of the mount list, the injected
(non-transport) mount service, the session-mount and invitation channels; JSON and byte caps of an
entry's state; which of its two sources the transport comes from; how a node is described and
redacted in a debug snapshot; the cycle of Tab in a dialog; the resolver of wiki links; the scan of
headings; the parameters a verb sends; push channels whose parser is a cast; the loading
indicators; dynamic families and the stream envelope of the wire gate; linked checkouts of the pin
gate; the reproducibility and self-host resolvability checks, taken for what they establish; and a
clock that is set back. Names of files hold no `#`, `?` or backslash, the coordinates of a repository
and a fragment read the same in a URL as outside, and the search part of a URL is left out. "The newest
release tag" (`ci.yml:379`) is read as the tag of the greatest version; which it is is the host's to say.

## 8. Differences seen without a run

Met while translating. Each is what the code does, with the place where its text or a reader would
expect otherwise; where one touches a property above, the property is stated so as to leave it out
and says so.

**Agent and models.** The token budget is tested only after a tool batch (`agentLoop.ts:736`), so
truncated turns, nudges and follow-ups pass it by, although "when exceeded the loop stops"
(`:224`). A drained correction puts two user messages in a row, against the aim at
`agentLoop.ts:615`. `mapStop` never yields `refusal`, so the terminal stop of a filtered turn
(`agentLoop.ts:266`) is out of reach through the chat client, and such a turn can be nudged. A
turn without a block leaves an assistant message without content (`agentLoop.ts:660`), which
`dropBlocks` says providers reject; reasoning between tool calls is sent back in front of all of
them. `withReasoningClosed` (`llm.ts:437`) throws when a host sends a provider without features,
after `answered` was set, although `spacesMode.ts:182` says that a throw takes down the push loop.

**Host protocol.** `createPushChannel` sets `started` before it sends its poll
(`pushChannel.ts:69`) and swallows a poll that cannot be sent, so no later read sends it; that "a
proactive push will still arrive" (`:74`) is true if the host's answer changes afterwards, as
`MissedIsRecovered` says, and `tasks.ts` keeps a latch of its own for its poll. `isChangeArray`
(`vcs.ts:143`) takes any string as the status of a change, which `:31` declares as one of three,
although "a malformed push is ignored" (`:256`). A terminal frame queued when the consumer leaves
is not counted (`protocolStream.ts:192`) and gets a redundant cancel. `firstFrameBoundsFor`
(`protocolDeadline.ts:229`) is used by nothing: a stream's bound for its first frame is not
suspended by prompts. A prompt that is on screen but not yet told does not suspend
(`sandboxUtils.ts:132`). The waits of `mounts.ts:497` have no bound. `announceHandshake` is called
idempotent, but each call registers another listener. `useRegion` reads the discovery global once:
absent when the effect runs, it is never read again. `debug.ts`: without a transport at load and
with nobody reading the gate later, the responder never starts. `launch.ts`: a create that rejects
does not sweep, so buffered ends stay, against `:104`; an unsubscribe of an `onDismiss` registered
after the end does nothing; a refusal's code that is not a string passes (`:250`), and a code is
ignored unless `ok` is exactly `false`, unlike in `throwOnRefusal`. Branch and pull requests in
`vcs.ts` (`Unchecked`), and the entries of diagnostics, secrets, catalog, session mounts and
invites are cast without validation. Verbs that read a field of `data` reject with a `TypeError`
without a code if the host answers `ok: true` without data. Comments at `catalog.ts` and
`mounts.ts:860` describe the unchecked reading that `throwOnRefusal` replaced; `protocolRefusal.ts`
counts its call sites as twenty, twenty-one and twenty-three.

**Navigation, scrolling, entry state.** A second click on the same `#fragment` changes nothing the
effect depends on (`ScrollAfterNavigation.tsx:64`), although "a fresh click on the same target
re-scrolls" (`:19`). The scroll event of an earlier restoration ends a new attempt
(`ScrollRestoration.tsx:134`). A value saved on one entry goes out with the next navigation from
another if the reader pressed Back in between (`entryState.ts:100`, against `:44`); two navigations
before the first arrival both take the collectors' values of the same page (`routing.tsx:163`).
Closing a lower dialog while an upper one is open moves the focus behind it (`dialog.tsx:112`).
`useObjectUrl` shows the old URL for one render after its inputs change.

**Routes.** A location that no rule of an app's own table matches throws in the state updater and
unmounts the app (`contextUtils.ts:17`, "TODO: better error"). A template with a repeated name, or
`:wild` beside `*`, makes `new RegExp` throw, when it is reached; a lone `:wild` surfaces under `*`
(`routeMatch.ts:57`). The redirect of the main content pushes, so Back returns to `/` and redirects
again, and StrictMode runs its effect twice; its probes are never invalidated.

**Links and files.** `useTinkerableLink` (`routing.tsx:24`) overwrites the parsed path with the raw
target, so `/a#sec` becomes `/a#sec#sec`, and joins a relative target to the file, not to its
directory. The URL of the app's own root without the slash behind the ref parses as that root and
is external to `isInternalHref` (`urlUtils.ts:126`), although `:85` speaks of the prefix "every
same-app URL starts with"; `UrlLeadsBack` says which URLs are internal. A relative link may climb
out of the repository and be internal. `parsePath` does not decode `sandboxPath`, so a path with a
blank comes back encoded (`UrlForm`); `absPath('/../a')` is the relative `a`; `parseTarget` drops
what follows a second `#`; `FragmentLink` takes clicks with a modifier, unlike the other links.
`canWrite` answers for paths that `writeFile` refuses, and a rule whose subtree ends in `/` does
not govern the directory itself (`fs.ts:214`). An interpreted include of exactly the app root reads
`/app/app` (`SafeInclude.tsx:40`). `**/x` matches no `x` at the top. A deleted file's metadata is
never removed (a TODO in `boot.tsx`). `collectHeadings.ts:35` keeps three characters of a fence, so
a block of four backticks is closed by an inner three; duplicates are numbered from `-1`, not `-2`
as its comment says, and a heading `a-1` can collide with the second `a`.

**Release.** If version 0 was not pinned before, lowering main's version to 0 in a request that
needs no bump, after the check of one that does, with npm unreadable in the build (`--offline-ok`),
lets a run pin other bytes for it than npm holds. A version check can be stale at the merge
(`check-publish-version.mjs:131`). npm's `latest` can move backwards when approvals come out of
order. A deploy reads the newest tag only, so a version released after a greater one is pinned by
no host until a tag that has it comes, and one tagged on a trust root without an earlier pin drops
that pin (`BumpShips` excepts them). After the rebase a tag may sit on a commit with later merges.
"Rebasing it onto the moved main is always safe" (`ci.yml:315`), but two runs that pin one version
conflict, and so does a rerun of a run that derived timestamped manifests with its own earlier
push. `classifyRegistryReply` counts "absent" as a pass in the strict publish job.

**Gates.** An entry of the removal ledger is never used up and waives a later second removal
(`check-api-stability.mjs:31`). Of two files that re-export each other with a star, the one reached
second is recorded without what the first declares, although "a cycle contributes nothing new by
definition" (`dts-shape.mjs:313`); `SurfaceIsExports` is about builds without a cycle. Two calls
with one name and method and different payloads are merged in silence
(`check-protocol-snapshot.mjs:394`: "never silently unified away"); names that are request and
stream fall out of the list of dynamic schemes. The pin gate passes a range whose locked version
lies outside it, and two branches that each pass it can merge into a main that does not.
`check-selfhost-resolvable.mjs` does not find an `export { x } from './y'` of a name `y` lacks.
