------------------------------ MODULE WireGate ------------------------------
(***************************************************************************)
(* The gate on the wire (check-protocol-snapshot.mjs): the vocabulary is   *)
(* extracted from the calls in the sources and compared with the contract  *)
(* that is pinned.  The contract is published elsewhere; this repository   *)
(* can bump the pin to one and not write it.                               *)
(*                                                                         *)
(* A type is the path of its layers from the outside to one innermost      *)
(* field, of which there are revisions.  A layer is an array, an anonymous *)
(* or a named object of this repository (`own`) or of a library (`lib`),   *)
(* an anonymous union or an alias of one.                                  *)
(***************************************************************************)
EXTENDS Naturals, Sequences, FiniteSets, FiniteSetsExt

CONSTANTS
    Places,      \* the call sites in the order of the walk: the file each is in
    Calls,       \* what may stand at a place
    MinNames     \* fewer extracted names are a broken extractor

VARIABLES
    source,      \* the call at each place
    reexports,   \* src/generated/protocol.ts re-exports the contract
    blessed,     \* history: the sources the pinned contract was published for
    contract     \* the pinned snapshot

wireVars == <<source, reexports, blessed, contract>>

MaxDepth == 2
Layers == {"array", "object", "own", "lib", "union", "alias"}
Type(layers, revision) == [layers |-> layers, revision |-> revision]
NoCall == [kind |-> "none", name |-> "", method |-> "", type |-> Type(<<>>, ""), poll |-> ""]

\* Only a request has a method and only a push channel a poll; a field is not spelt like a layer.
ASSUME CallAssumption ==
    /\ Places \in Seq(STRING)
    /\ \A c \in Calls :
          /\ c.kind \in {"message", "listener", "push", "request", "stream"} /\ c.name # ""
          /\ (c.method # "") = (c.kind \in {"request", "stream"})
          /\ c.poll # "" => c.kind = "push"
          /\ c.type.layers \in Seq(Layers)
          /\ c.type.revision \notin Layers \cup {"fields", "named"}

----------------------------------------------------------------------------
(* describeType *)

Namings == {"own", "lib", "alias"}

\* A printed type, from layer i on: a name stands for everything under it.
Text(t, i) ==
    LET named == {j \in i..Len(t.layers) : t.layers[j] \in Namings}
    IN  IF named = {} THEN SubSeq(t.layers, i, Len(t.layers)) \o <<t.revision>>
        ELSE SubSeq(t.layers, i, CHOOSE j \in named : \A k \in named : j <= k)

Layer(t, i) == IF i \in DOMAIN t.layers THEN t.layers[i] ELSE "leaf"

\* Mutant of AtCap: a type at the cap is its text, named or not.
AtCapByName(t, i) == Text(t, i)

\* At the cap a named object of this repository still shows its fields, one level, and an
\* array of such a type is looked through (namedObjectAtCap).
AtCap(t, i) ==
    CASE Layer(t, i) = "own" -> <<"fields", "named">> \o Text(t, i + 1)
      [] Layer(t, i) = "array" /\ Layer(t, i + 1) = "own" -> <<"array", "fields", "named">> \o Text(t, i + 2)
      [] OTHER -> Text(t, i)

\* Above it everything expands: what a name stands for is shown and the name is not.
Expanded(layer) == IF layer = "array" THEN "array" ELSE IF layer \in {"union", "alias"} THEN "union" ELSE "fields"

\* describeType(type, depth), depth being `start` at the first layer.
Cap(start) == MaxDepth + 2 - start
Describe(t, start) ==
    LET stop == Min({Cap(start), Len(t.layers) + 1})
    IN  [i \in 1..(stop - 1) |-> Expanded(t.layers[i])] \o AtCap(t, stop)

----------------------------------------------------------------------------
(* extract *)

Undescribed == <<>>
NoFields == <<"fields">>
HasFields(d) == d # Undescribed /\ d[1] = "fields"

\* What a call says of a name, its own or its poll's, under which it mints a request without
\* fields.  A push channel describes its value from depth 1 on.
Start(c) == IF c.kind = "push" THEN 1 ELSE 0
Shape(c) == Describe(c.type, Start(c))
Kinds(c, n) ==
    (IF c.name = n THEN {IF c.kind = "listener" THEN "message" ELSE c.kind} ELSE {}) \cup (IF c.poll = n THEN {"poll"} ELSE {})
Directions(c, n) ==
    {way \in {"host->app", "app->host"} :
        \/ c.name = n /\ way = (IF c.kind \in {"push", "listener"} THEN "host->app" ELSE "app->host")
        \/ c.poll = n /\ way = "app->host"}
ValueSaid(c, n) == IF c.name = n /\ c.kind = "push" THEN Shape(c) ELSE Undescribed
ParamsSaid(c, n, m) == IF c.name = n /\ c.method = m THEN Shape(c) ELSE Undescribed
PayloadSaid(c, n) ==
    IF c.poll = n THEN NoFields
    ELSE IF c.name = n /\ c.kind \in {"message", "listener"} THEN Shape(c) ELSE Undescribed

\* record: a name minted again keeps all its kinds and directions; of its values and polls
\* the last one stays, of several payloads the first one with fields, of those for one
\* method the last one if none has fields.
WithFields(said) == {p \in DOMAIN said : HasFields(said[p])}
LastSaid(said, nothing) ==
    LET places == {p \in DOMAIN said : said[p] # nothing} IN IF places = {} THEN nothing ELSE said[Max(places)]
KeptParams(said) == IF WithFields(said) = {} THEN LastSaid(said, Undescribed) ELSE said[Min(WithFields(said))]
KeptPayload(said) ==
    IF DOMAIN said = {} THEN Undescribed ELSE said[Min(IF WithFields(said) = {} THEN DOMAIN said ELSE WithFields(said))]

WireNames == ({c.name : c \in Calls} \cup {c.poll : c \in Calls}) \ {""}
Methods == {c.method : c \in Calls} \ {""}
MintedAt(calls, n) == {p \in DOMAIN Places : n \in {calls[p].name, calls[p].poll}}

\* What the snapshot holds of a name: its methods, or else its payload.
Extract(calls, n) ==
    LET at == MintedAt(calls, n)
        methods == [m \in Methods |-> KeptParams([p \in at |-> ParamsSaid(calls[p], n, m)])]
    IN  [kinds      |-> UNION {Kinds(calls[p], n) : p \in at},
         directions |-> UNION {Directions(calls[p], n) : p \in at},
         poll       |-> LastSaid([p \in at |-> IF calls[p].name = n THEN calls[p].poll ELSE ""], ""),
         value      |-> LastSaid([p \in at |-> ValueSaid(calls[p], n)], Undescribed),
         methods    |-> methods,
         payload    |-> IF \E m \in Methods : methods[m] # Undescribed THEN Undescribed
                        ELSE KeptPayload([p \in at |-> PayloadSaid(calls[p], n)]),
         sites      |-> {Places[p] : p \in at}]

Snapshot(calls) == [n \in WireNames |-> Extract(calls, n)]
Unused == Extract([p \in DOMAIN Places |-> NoCall], "unused")

----------------------------------------------------------------------------
(* compare and main *)

Removed(now, was) == {n \in WireNames : was[n] # Unused /\ now[n] = Unused}
Added(now, was) == {n \in WireNames : was[n] = Unused /\ now[n] # Unused}
Changed(now, was) == {n \in WireNames : Unused \notin {now[n], was[n]} /\ now[n] # was[n]}

WirePasses ==
    LET now == Snapshot(source)
    IN  /\ Cardinality({n \in WireNames : now[n] # Unused}) >= MinNames
        /\ Removed(now, contract) \cup Added(now, contract) \cup Changed(now, contract) = {}
        /\ reexports

----------------------------------------------------------------------------
\* A call is added, removed, renamed, re-pointed or reshaped.
EditCall(p) ==
    /\ \E c \in Calls \cup {NoCall} : c # source[p] /\ source' = [source EXCEPT ![p] = c]
    /\ UNCHANGED <<reexports, blessed, contract>>

\* Somebody re-inlines the constants, or undoes it.
EditModule ==
    /\ reexports' = ~reexports
    /\ UNCHANGED <<source, blessed, contract>>

\* The contract is published for these sources, and the pin is bumped to it.
BumpPin ==
    /\ blessed # source
    /\ blessed' = source
    /\ contract' = Snapshot(source)
    /\ UNCHANGED <<source, reexports>>

WireInit ==
    /\ source \in [DOMAIN Places -> Calls \cup {NoCall}]
    /\ blessed = source
    /\ contract = Snapshot(source)
    /\ reexports = TRUE

WireNext == (\E p \in DOMAIN Places : EditCall(p)) \/ EditModule \/ BumpPin

----------------------------------------------------------------------------
(***************************************************************************)
(* What a peer sees of a type without opening a named type that is not its *)
(* own contract: the layers down to the first name past the cap, and of a  *)
(* type of this repository that stands at the cap its fields too.          *)
(***************************************************************************)
Hides(c, j) ==
    LET cap == Cap(Start(c))
    IN  /\ j >= cap
        /\ Layer(c.type, j) \in Namings
        /\ ~(Layer(c.type, j) = "own" /\ (j = cap \/ (j = cap + 1 /\ Layer(c.type, cap) = "array")))
InPlainSight(c) == \A j \in DOMAIN c.type.layers : ~Hides(c, j)

\* The only call of its name and method, and no message of a name that is also a poll.
Alone(calls, p) ==
    \A q \in DOMAIN Places \ {p} :
        /\ calls[q].name = calls[p].name => "" \notin {calls[q].method, calls[p].method} /\ calls[q].method # calls[p].method
        /\ calls[p].method = "" => calls[q].poll # calls[p].name

SameOnWire(c, d) ==
    /\ c.name = d.name /\ c.method = d.method /\ Start(c) = Start(d)
    /\ InPlainSight(c) => c.type.revision = d.type.revision

Covered(these, those) ==
    \A p \in DOMAIN Places : these[p] # NoCall /\ Alone(these, p) =>
        /\ \E q \in DOMAIN Places : SameOnWire(these[p], those[q])
        /\ \E q \in DOMAIN Places : those[q].name = these[p].name /\ those[q].poll = these[p].poll

\* While the gate passes, whatever was edited since the pin was bumped, every call that has
\* its name and method to itself speaks as the sources did that the contract was published
\* for, and none of theirs is gone: no rename, removal, swapped constant, lost poll or
\* reshaped field gets past it (check-protocol-snapshot.mjs:22, its self-test at line 747).
PassMeansContract == WirePasses => Covered(source, blessed) /\ Covered(blessed, source)
=============================================================================
