------------------------------ MODULE Metadata ------------------------------
(***************************************************************************)
(* The frontmatter of an app's documents: how the bundler's collection     *)
(* becomes the store of the context (boot.tsx, injectedBundler.ts), what   *)
(* a MetadataSource lays over it, the result useMetadataQuery shows        *)
(* (hooks.ts), and the tool an agent queries an index with                 *)
(* (metadataQueryTool.ts).  A frontmatter object has one field that        *)
(* matters and an identity; the bundler and its emitter, which keeps       *)
(* events until it is enabled, are external.                               *)
(***************************************************************************)
EXTENDS Integers, SequencesExt

CONSTANTS
    Documents,      \* paths of an index in its order: [corpus, segs]
    Stored,         \* those the bundler's collection has
    Stamps,         \* tell apart objects with the same fields
    MaxUpdates,     \* changes of the bundler's collection and of the source
    DefaultLimit,   \* rows without a limit, 100
    MaxLimit,       \* 500
    FieldValues,    \* what the field of a row may be, for the tool
    Globs,          \* path globs, <<>> for none
    Filters         \* `where` lists

NoDocument == [field |-> 0, stamp |-> 0]
Frontmatters == [field : {1, 2}, stamp : Stamps]
Collections == [Stored -> Frontmatters \union {NoDocument}]
Empty == [d \in Stored |-> NoDocument]

ASSUME MetadataAssumption ==
    /\ Stored \subseteq ToSet(Documents) /\ MaxUpdates \in Nat
    /\ DefaultLimit \in 1..MaxLimit

----------------------------------------------------------------------------
(* Stores *)

\* {...base, ...update}
LaidOver(base, update) == [d \in Stored |-> IF update[d] # NoDocument THEN update[d] ELSE base[d]]

UpdateAlreadyApplied(base, update) == \A d \in Stored : update[d] # NoDocument => base[d] = update[d]

NoSource == [mode |-> "none", value |-> Empty]

\* MetadataSource: what its subtree sees instead of `outer`.
Provided(source, outer) ==
    CASE source.mode = "none" -> outer
      [] source.mode = "merge" -> LaidOver(outer, source.value)
      [] source.mode = "replace" -> source.value

\* The query of a component: it wants a field, or all, derives one from each, or throws.  It
\* lists what it finds by path, so that a set says as much.
Selected(query, files) ==
    {[path |-> d, meta |-> files[d], extra |-> files[d].field] :
        d \in {x \in Stored : files[x] # NoDocument /\ (query = "all" \/ files[x].field = 1)}}

Throws(query, files) == query = "strict" /\ \E d \in Stored : files[d].field = 2

\* Mutant of EntriesEqual: the paths only.
EntriesEqualPaths(a, b) == {e.path : e \in a} = {e.path : e \in b}

\* entriesEqual: paths, identities, derived fields.
EntriesEqual(a, b) ==
    /\ {e.path : e \in a} = {e.path : e \in b}
    /\ \A e \in a, f \in b : e.path = f.path => e.meta = f.meta /\ e.extra = f.extra

----------------------------------------------------------------------------
(* The query tool.  The field of a row: absent, a text, or a list of texts, *)
(* where a text is a sequence of letters.                                   *)

Absent == <<>>
Text(letters) == <<letters>>
IsText(v) == Len(v) = 1

Includes(text, needle) == \E k \in 0..Len(text) : IsPrefix(needle, SubSeq(text, k + 1, Len(text)))
Matches(v, w) ==
    CASE w.op = "exists" -> v # Absent
      [] w.op = "eq" -> IsText(v) /\ v[1] = w.value[1]
      [] w.op = "contains" -> \E k \in DOMAIN v : Includes(v[k], w.value[1])
      [] w.op = "in" -> IsText(v) /\ Contains(w.value, v[1])

\* globToRegExp: `*` is a segment, `**` one or more.
GlobMatches(glob, segs) ==
    \E width \in [DOMAIN glob -> 1..Len(segs)] :
        LET before(k) == FoldFunctionOnSet(+, 0, width, 1..(k - 1))
        IN  /\ before(Len(glob) + 1) = Len(segs)
            /\ \A k \in DOMAIN glob :
                 /\ glob[k] # "**" => width[k] = 1
                 /\ glob[k] \in {"*", "**"} \/ glob[k] = segs[before(k) + 1]

\* validateInput: what it takes; the shapes it refuses are one.
Valid(query) == ~query.malformed /\ ToSet(query.limit) \subseteq 1..MaxLimit

\* Letters compare as texts do, a list as the text that it begins with.
Rank(v) == IF v = Absent THEN 0
           ELSE FoldLeftDomain(LAMBDA sum, k : sum + v[1][k] * 3 ^ (2 - k), 0, v[1])
\* compare: absent before anything that is there.
Compare(a, b) ==
    IF (a = Absent) # (b = Absent) THEN (IF a = Absent THEN -1 ELSE 1)
    ELSE IF Rank(a) < Rank(b) THEN -1 ELSE IF Rank(a) > Rank(b) THEN 1 ELSE 0

\* Mutant of Sorted: rows that compare equal change places.
SortedUnstable(index, rows, order) ==
    LET dir == IF order = "desc" THEN -1 ELSE 1
        position(d) == CHOOSE k \in DOMAIN rows : rows[k] = d
    IN  SetToSortSeq(ToSet(rows), LAMBDA x, y :
            \/ dir * Compare(index[x], index[y]) < 0
            \/ Compare(index[x], index[y]) = 0 /\ position(x) > position(y))

Sorted(index, rows, order) ==
    LET dir == IF order = "desc" THEN -1 ELSE 1
        position(d) == CHOOSE k \in DOMAIN rows : rows[k] = d
    IN  SetToSortSeq(ToSet(rows), LAMBDA x, y :
            \/ dir * Compare(index[x], index[y]) < 0
            \/ Compare(index[x], index[y]) = 0 /\ position(x) < position(y))

Wanted(index, query, d) ==
    /\ d.corpus
    /\ query.glob # <<>> => GlobMatches(query.glob, d.segs)
    /\ \A w \in ToSet(query.where) : Matches(index[d], w)

\* runMetadataQuery, and executeMetadataQuery around it: the chroot, the glob, the filters,
\* the order, the limit, the fields.
RunMetadataQuery(index, query) ==
    IF ~Valid(query) THEN [isError |-> TRUE, rows |-> <<>>]
    ELSE LET rows == SelectSeq(Documents, LAMBDA d : Wanted(index, query, d))
             ordered == IF query.order = "none" THEN rows ELSE Sorted(index, rows, query.order)
             limit == IF query.limit = <<>> THEN DefaultLimit ELSE query.limit[1]
             sliced == SubSeq(ordered, 1, IF limit < Len(ordered) THEN limit ELSE Len(ordered))
         IN  [isError |-> FALSE,
              rows |-> [k \in DOMAIN sliced |->
                  [path |-> sliced[k], field |-> IF query.withField THEN index[sliced[k]] ELSE Absent]]]

----------------------------------------------------------------------------
VARIABLES
    injected,     \* the bundler is in the app's realm
    collection,   \* its collection
    updates,      \* changes so far
    emitted,      \* updates on their way to the app
    booted,       \* the app has its first context
    subscribed,   \* and its listener
    files,        \* filesMetadata of the context
    layers,      \* the MetadataSource around the component's, and its own
    query,        \* the component's query
    failed,       \* it shows an error
    previous,     \* the last entries: [entries, array]
    toolAsked,    \* the index and the last query of the tool
    toolAnswer    \* its answer

metadataVars == <<injected, collection, updates, emitted, booted, subscribed, files, layers, query, failed, previous, toolAsked, toolAnswer>>
hookVars == <<injected, collection, updates, emitted, booted, subscribed, files, layers, query, failed, previous>>

NoQuery == [kind |-> "none"]

MetadataInit ==
    /\ injected \in BOOLEAN
    /\ collection = Empty /\ updates = 0 /\ emitted = <<>>
    /\ booted = FALSE /\ subscribed = FALSE
    /\ files = Empty /\ layers = <<NoSource, NoSource>>
    /\ query \in {"all", "ones", "strict"}
    /\ failed = FALSE /\ previous = [entries |-> {}, array |-> 0]
    /\ toolAsked = NoQuery /\ toolAnswer = NoQuery

\* useMetadataStore
StoreOf(store, provided) == Provided(provided[2], Provided(provided[1], store))

\* A render: the entries before are kept if nothing the component can see changed.
Render(store, provided) ==
    LET seen == StoreOf(store, provided)
        entries == Selected(query, seen)
    IN  IF Throws(query, seen) THEN failed' = TRUE /\ UNCHANGED previous
        ELSE /\ failed' = FALSE
             /\ previous' = IF EntriesEqual(entries, previous.entries) THEN previous
                            ELSE [entries |-> entries, array |-> previous.array + 1]

\* The emitter keeps what it cannot deliver yet as one update; a transport keeps nothing.
BundlerUpdates(update) ==
    /\ updates < MaxUpdates
    /\ updates' = updates + 1
    /\ collection' = LaidOver(collection, update)
    /\ emitted' = IF subscribed THEN Append(emitted, update)
                  ELSE IF ~injected THEN emitted
                  ELSE IF emitted = <<>> THEN <<update>> ELSE <<LaidOver(emitted[1], update)>>
    /\ UNCHANGED <<injected, booted, subscribed, files, layers, query, failed, previous>>

\* getInitialContext: an injected bundler's collection is there in the first frame.
BootApp ==
    /\ ~booted
    /\ booted' = TRUE
    /\ files' = IF injected THEN collection ELSE Empty
    /\ Render(files', layers)
    /\ UNCHANGED <<injected, collection, updates, emitted, subscribed, layers, query>>

\* The effect: the listener, then enable().
SubscribeMetadata ==
    /\ booted /\ ~subscribed
    /\ subscribed' = TRUE
    /\ UNCHANGED <<injected, collection, updates, emitted, booted, files, layers, query, failed, previous>>

MetadataDelivered ==
    /\ subscribed /\ emitted # <<>>
    /\ emitted' = Tail(emitted)
    /\ files' = IF UpdateAlreadyApplied(files, emitted[1]) THEN files ELSE LaidOver(files, emitted[1])
    /\ Render(files', layers)
    /\ UNCHANGED <<injected, collection, updates, booted, subscribed, layers, query>>

\* A MetadataSource is mounted, changed or taken away.
ProvideSource(k, source) ==
    /\ booted /\ updates < MaxUpdates /\ layers[k] # source
    /\ updates' = updates + 1
    /\ layers' = [layers EXCEPT ![k] = source]
    /\ Render(files, layers')
    /\ UNCHANGED <<injected, collection, emitted, booted, subscribed, files, query>>

\* The tool reads its index when it is called.
ExecuteMetadataQuery(index, asked) ==
    /\ toolAsked' = [kind |-> "tool", index |-> index, query |-> asked]
    /\ toolAnswer' = RunMetadataQuery(index, asked)
    /\ UNCHANGED hookVars

Single == {[Empty EXCEPT ![d] = o] : d \in Stored, o \in Frontmatters}

\* The objects of a source are its own: one stamp for all.
Own == {v \in Single : \A d \in Stored : v[d].stamp \in {0, CHOOSE n \in Stamps : TRUE}}

\* Orders and limits over any index; filters, which look at one row, over rows that are alike;
\* and input that is refused.
ToolQueries == [malformed : BOOLEAN, glob : Globs, where : Filters, order : {"none", "asc", "desc"},
                limit : {<<>>} \union {<<n>> : n \in 0..(MaxLimit + 1)}, withField : BOOLEAN]
ToolIndexes == [ToSet(Documents) -> FieldValues]
Alike(index) == \E v \in FieldValues : \A d \in ToSet(Documents) : index[d] = v
AsksInOrder(asked, index) ==
    /\ ~asked.malformed /\ asked.glob = <<>> /\ Len(asked.where) < 2
    /\ asked.withField /\ \A w \in ToSet(asked.where) : w.op = "exists"
    /\ \A d \in ToSet(Documents) : ~d.corpus => index[d] = index[Documents[1]]
AsksForRows(asked) == asked.order = "none" /\ asked.limit = <<>> /\ (asked.malformed => asked.where = <<>>)

MetadataNext ==
    \/ toolAsked = NoQuery /\ UNCHANGED <<toolAsked, toolAnswer>>
         /\ \/ \E update \in Single : BundlerUpdates(update)
            \/ BootApp \/ SubscribeMetadata \/ MetadataDelivered
            \/ \E k \in 1..2, mode \in {"merge", "replace"}, value \in Own :
                 ProvideSource(k, [mode |-> mode, value |-> value])
            \/ \E k \in 1..2 : ProvideSource(k, NoSource)
    \/ toolAsked = NoQuery /\ ~booted /\ updates = 0 /\ injected /\ query = "all"
         /\ \E asked \in ToolQueries, index \in ToolIndexes :
              /\ AsksInOrder(asked, index) \/ (AsksForRows(asked) /\ Alike(index))
              /\ ExecuteMetadataQuery(index, asked)

----------------------------------------------------------------------------
\* Where each path's frontmatter comes from: the innermost source that names it, unless one
\* nearer replaces what it is mounted in (metadataSource.tsx:83).
InScope(d) ==
    LET names(k) == layers[k].value[d] # NoDocument
        own == IF names(2) THEN layers[2].value[d] ELSE NoDocument
    IN  CASE layers[2].mode = "replace" -> own
          [] layers[2].mode = "merge" /\ names(2) -> own
          [] OTHER -> IF layers[1].mode # "none" /\ (names(1) \/ layers[1].mode = "replace")
                      THEN layers[1].value[d] ELSE files[d]

\* What a component shows is what its query finds now in the scope it is in, however the
\* updates, the boot and the sources around it interleaved, and an error only while the
\* query fails (hooks.ts:70).
HookShowsScope ==
    booted =>
        LET wants(d) == InScope(d) # NoDocument /\ (query = "all" \/ InScope(d).field = 1)
        IN  /\ failed <=> Throws(query, [d \in Stored |-> InScope(d)])
            /\ ~failed =>
                 /\ {e.path : e \in previous.entries} = {d \in Stored : wants(d)}
                 /\ \A e \in previous.entries : e.meta = InScope(e.path) /\ e.extra = InScope(e.path).field

Asked == toolAsked.query
RowsIn == {toolAnswer.rows[k].path : k \in DOMAIN toolAnswer.rows}
Place(d) == CHOOSE k \in DOMAIN Documents : Documents[k] = d

\* The tool answers with the rows of the corpus that pass every filter and with no other, each
\* once; a limit cuts the end of the order off; rows with a key are in its order, rows that
\* compare equal in the index's (metadataQueryTool.ts:293).
ToolAnswersQuery ==
    toolAsked # NoQuery =>
        LET index == toolAsked.index
            wanted == {d \in ToSet(Documents) : Wanted(index, Asked, d)}
            least == IF Asked.limit = <<>> THEN DefaultLimit ELSE Asked.limit[1]
            comesBefore(x, y) ==   \* of two rows that have the key
                IF Asked.order = "none" \/ Rank(index[x]) = Rank(index[y]) THEN Place(x) < Place(y)
                ELSE (Rank(index[x]) < Rank(index[y])) = (Asked.order = "asc")
        IN  /\ toolAnswer.isError <=> ~Valid(Asked)
            /\ ~toolAnswer.isError =>
                 /\ RowsIn \subseteq wanted /\ \A d \in RowsIn : d.corpus
                 /\ Len(toolAnswer.rows) = Cardinality(RowsIn)
                 /\ Len(toolAnswer.rows) = (IF Cardinality(wanted) < least THEN Cardinality(wanted) ELSE least)
                 /\ \A j, k \in DOMAIN toolAnswer.rows :
                      LET x == toolAnswer.rows[j].path
                          y == toolAnswer.rows[k].path
                      IN  j < k /\ index[x] # Absent /\ index[y] # Absent => comesBefore(x, y)
                 /\ \A x \in RowsIn, y \in wanted \ RowsIn :
                      index[x] # Absent /\ index[y] # Absent => comesBefore(x, y)

\* Of the collection of an injected bundler nothing is missed between the first frame and the
\* listener: what the app has not got yet is on its way to it (injectedBundler.ts:59).
NothingMissed ==
    booted /\ injected =>
        \A d \in Stored :
            LET named == {k \in DOMAIN emitted : emitted[k][d] # NoDocument}
            IN  collection[d] = IF named = {} THEN files[d] ELSE emitted[Max(named)][d]

MetadataAgrees == HookShowsScope /\ NothingMissed

\* "rows lacking it sort last, stably" (metadataQueryTool.ts:56)
LackingKeyLast ==
    toolAsked # NoQuery /\ Asked.order # "none" =>
        \A j, k \in DOMAIN toolAnswer.rows :
            LET at(n) == toolAsked.index[toolAnswer.rows[n].path]
            IN  j < k /\ at(j) = Absent => at(k) = Absent
=============================================================================
