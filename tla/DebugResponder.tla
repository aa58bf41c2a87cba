--------------------------- MODULE DebugResponder ---------------------------
(***************************************************************************)
(* The instruments for a developer's session (debug.ts): a push channel    *)
(* that says whether there is one, a log to the host and a responder to    *)
(* its queries, which reads the document within fixed budgets and          *)
(* dispatches single bounded events.                                       *)
(***************************************************************************)
EXTENDS HostBus, Integers, SequencesExt

CONSTANTS
    Children,      \* the document: the children of every element, in order
    Body,          \* its root
    MaxNodes, MaxDepth,   \* the caps of snapshotDom
    Viewport,      \* the largest coordinate
    Queries,       \* [method, params] the host may send
    MaxQueries,    \* bound: queries the host sends
    MaxSwitches    \* bound: how often the host changes its mind

VARIABLES
    hostDebug,     \* the host's answer to the poll
    switches,      \* how often it changed
    gateStarted, gatePoll, enabled,   \* the channel, its poll on the way
    responders,    \* listeners for debug-query
    queried,       \* how many queries the host sent
    answers,       \* history: what the app did for the last query that came, in order
    logged         \* history: an entry went out while the last word of the host was no

debugVars == <<hostDebug, switches, gateStarted, gatePoll, enabled, responders, queried, answers, logged>>

----------------------------------------------------------------------------
(* snapshotDom *)

\* walk(el, depth) with a budget: the nodes it makes, each with whether it is marked
\* truncated, and the budget it leaves.
\* Mutant of Walk: a node is counted after its children.
WalkCountingLate(el, depth, budget, maxDepth) ==
    LET walk[e \in DOMAIN Children, d \in 0..(MaxDepth + 1), b \in (-Cardinality(DOMAIN Children))..MaxNodes] ==
            LET kids == IF d < maxDepth /\ b > 0 THEN Children[e] ELSE <<>>
                visit(acc, kid) == IF acc.budget <= 0 THEN [acc EXCEPT !.cut = TRUE]
                                   ELSE LET w == walk[kid, d + 1, acc.budget] IN [acc EXCEPT !.nodes = @ \o w.nodes, !.budget = w.budget]
                done == FoldLeft(visit, [nodes |-> <<>>, budget |-> b, cut |-> kids = <<>> /\ Children[e] # <<>>], kids)
            IN  [nodes |-> <<[element |-> e, depth |-> d, truncated |-> done.cut]>> \o done.nodes, budget |-> done.budget - 1]
    IN  walk[el, depth, budget]

Walk(el, depth, budget, maxDepth) ==
    LET walk[e \in DOMAIN Children, d \in 0..(MaxDepth + 1), b \in (-Cardinality(DOMAIN Children))..MaxNodes] ==
            LET kids == IF d < maxDepth /\ b - 1 > 0 THEN Children[e] ELSE <<>>
                visit(acc, kid) == IF acc.budget <= 0 THEN [acc EXCEPT !.cut = TRUE]
                                   ELSE LET w == walk[kid, d + 1, acc.budget] IN [acc EXCEPT !.nodes = @ \o w.nodes, !.budget = w.budget]
                done == FoldLeft(visit, [nodes |-> <<>>, budget |-> b - 1, cut |-> kids = <<>> /\ Children[e] # <<>>], kids)
            IN  [nodes |-> <<[element |-> e, depth |-> d, truncated |-> done.cut]>> \o done.nodes, budget |-> done.budget]
    IN  walk[el, depth, budget]

Smaller(a, b) == IF a < b THEN a ELSE b
SnapshotDom(params) == Walk(Body, 0, Smaller(params.maxNodes, MaxNodes), Smaller(params.maxDepth, MaxDepth)).nodes

----------------------------------------------------------------------------
(* dispatchPointer and dispatchKey *)

PointerTypes == {"pointerdown", "pointerup", "pointermove", "click", "dblclick"}
KeyTypes == {"keydown", "keyup", "keypress"}

ClampCoord(n) == IF n < 0 THEN 0 ELSE Smaller(n, Viewport)

HeldButtons(type, params) ==
    IF type = "pointerdown" \/ (type = "pointermove" /\ params.drag) THEN 1 ELSE 0

DispatchPointer(params) ==
    LET type == IF params.type \in PointerTypes THEN params.type ELSE "click"
    IN  [type |-> type, x |-> ClampCoord(params.x), y |-> ClampCoord(params.y), buttons |-> HeldButtons(type, params)]

DispatchKey(params) == [type |-> IF params.type \in KeyTypes THEN params.type ELSE "keydown", key |-> params.key]

NoEvent == [type |-> "none"]

\* What a query does and is answered; an unknown method, a missing key or a read that throws
\* is answered with an error.
Handled(query) ==
    CASE query.method = "snapshotDom" -> [ok |-> TRUE, dom |-> SnapshotDom(query.params), event |-> NoEvent]
      [] query.method = "dispatchPointer" -> [ok |-> TRUE, dom |-> <<>>, event |-> DispatchPointer(query.params)]
      [] query.method = "dispatchKey" /\ query.params.key # "" -> [ok |-> TRUE, dom |-> <<>>, event |-> DispatchKey(query.params)]
      [] OTHER -> [ok |-> FALSE, dom |-> <<>>, event |-> NoEvent]

----------------------------------------------------------------------------
(* The gate *)

\* Module evaluation: onChange starts the channel, if there is a transport.
DebugInit ==
    /\ hostDebug \in BOOLEAN
    /\ switches = 0
    /\ gateStarted = HasTransport
    /\ gatePoll = CanSend
    /\ enabled = FALSE
    /\ responders = 0
    /\ queried = 0
    /\ answers = <<>>
    /\ logged = FALSE

\* debug.log: the read of the gate starts the channel that could not start before.
Log ==
    /\ gateStarted' = (gateStarted \/ HasTransport)
    /\ gatePoll' = (gatePoll \/ (~gateStarted /\ CanSend))
    /\ logged' = (logged \/ (enabled /\ CanSend /\ ~hostDebug /\ toApp = <<>>))
    /\ UNCHANGED <<hostDebug, switches, enabled, responders, queried, answers, busVars>>

\* The host pushes its word when it changes, and when it is asked.
HostSwitches ==
    /\ switches < MaxSwitches
    /\ HostSends("debug-enabled", ~hostDebug)
    /\ switches' = switches + 1
    /\ hostDebug' = ~hostDebug
    /\ UNCHANGED <<gateStarted, gatePoll, enabled, responders, queried, answers, logged, transport, polls>>

HostAnswersGate ==
    /\ gatePoll
    /\ gatePoll' = FALSE
    /\ HostSends("debug-enabled", hostDebug)
    /\ UNCHANGED <<hostDebug, switches, gateStarted, enabled, responders, queried, answers, logged, transport, polls>>

HostQueries(query) ==
    /\ queried < MaxQueries
    /\ queried' = queried + 1
    /\ HostSends("debug-query", query)
    /\ UNCHANGED <<hostDebug, switches, gateStarted, gatePoll, enabled, responders, answers, logged, transport, polls>>

\* Mutant of StartResponder: it listens once more whenever the gate opens.
StartResponderAgain == responders' = responders + 1

\* startResponder(): once.
StartResponder == responders' = 1

\* The handler of the channel, and its one subscriber.
GateArrives ==
    /\ Arriving("debug-enabled")
    /\ toApp' = Tail(toApp)
    /\ IF gateStarted THEN enabled' = Head(toApp).body ELSE UNCHANGED enabled
    /\ IF enabled' THEN StartResponder ELSE UNCHANGED responders
    /\ answers' = <<>>
    /\ UNCHANGED <<hostDebug, switches, gateStarted, gatePoll, queried, logged, transport, polls>>

\* Every listener handles the query, while the gate is open.
QueryArrives ==
    /\ Arriving("debug-query")
    /\ toApp' = Tail(toApp)
    /\ answers' = IF enabled THEN [i \in 1..responders |-> Handled(Head(toApp).body)] ELSE <<>>
    /\ UNCHANGED <<hostDebug, switches, gateStarted, gatePoll, enabled, responders, queried, logged, transport, polls>>

DebugNext ==
    \/ Log \/ HostSwitches \/ HostAnswersGate \/ GateArrives \/ QueryArrives
    \/ \E query \in Queries : HostQueries(query)

----------------------------------------------------------------------------
\* However often the gate opens and shuts, a query is handled at most once, never while the
\* host's last word was no, and always once it was yes; nothing is logged after a no
\* (debug.ts:383, 433).
OneReplyPerQuery ==
    /\ Len(answers) <= 1
    /\ enabled => responders = 1
    /\ ~logged

\* Whatever the host asks for, a snapshot has no more nodes than the cap, none deeper than
\* it, and marks exactly the nodes of which a child is missing; an event is of a type that
\* is listed and within the viewport, and only a press or a drag holds the button
\* (debug.ts:20, 30).
AnswersBounded == \A i \in DOMAIN answers :
    LET dom == answers[i].dom
        event == answers[i].event
    IN  /\ Len(dom) <= MaxNodes
        /\ \A n \in DOMAIN dom :
             /\ dom[n].depth <= MaxDepth
             /\ dom[n].truncated <=> \E kid \in Range(Children[dom[n].element]) : \A k \in DOMAIN dom : dom[k].element # kid
        /\ event.type \in PointerTypes =>
             /\ event.x \in 0..Viewport /\ event.y \in 0..Viewport
             /\ event.buttons = 1 => event.type \in {"pointerdown", "pointermove"}
        /\ event.type \in PointerTypes \union KeyTypes \union {"none"}
=============================================================================
