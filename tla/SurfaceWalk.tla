---------------------------- MODULE SurfaceWalk ----------------------------
(***************************************************************************)
(* The surface the API gate compares (lib/dts-shape.mjs): for every built  *)
(* .d.ts the names it exports, each with the shape of the declaration it   *)
(* leads to, through star and named re-exports of other files.  surfaceOf  *)
(* calls itself; its activations are the frames of `stack`, the `seen` set *)
(* they hand on breaks cycles and the results are kept in `cache`.         *)
(*                                                                         *)
(* A shape is the declaration it was printed from.                         *)
(***************************************************************************)
EXTENDS Naturals, Sequences, FiniteSets, Functions

CONSTANTS
    Files,      \* the .d.ts files of the build
    Names,      \* names they export
    Contents    \* per file, what it may hold: [locals, stars, named]

Nowhere == "nowhere"    \* a specifier that resolves to no file
None == <<"none">>
Unknown == <<"unknown">>
Declaration(f, n) == <<"declared", f, n>>
Nothing == [n \in Names |-> None]
EmptyFile == [locals |-> {}, stars |-> <<>>, named |-> <<>>]

VARIABLES
    parsed,   \* per file: its exported declarations, its stars and its named re-exports
    left,     \* the files extractSurface has still to ask for
    cache,    \* the surfaces computed so far
    seen,     \* the files asked for since extractSurface asked
    stack     \* the activations of surfaceOf, the innermost first

walkVars == <<parsed, left, cache, seen, stack>>

Star(t) == [kind |-> "star", target |-> t]
Named(exported, local, t) == [kind |-> "named", target |-> t, exported |-> exported, local |-> local]

StarEdges == {Star(t) : t \in Files \cup {Nowhere}}
NamedEdges == {Named(x, y, t) : x \in Names, y \in Names, t \in Files \cup {Nowhere}}

ASSUME ContentsAssumption ==
    /\ Nowhere \notin Files /\ IsFiniteSet(Files)
    /\ \A f \in Files : \A c \in Contents[f] :
          /\ c.locals \subseteq Names
          /\ c.stars \in Seq(StarEdges)
          /\ c.named \in Seq(NamedEdges)

\* A file's stars are followed first, then its named re-exports: `next` is the one to follow.
Edges(f) == parsed[f].stars \o parsed[f].named
Activation(f) == [file |-> f, next |-> 1, out |-> Nothing]

\* A star adds what the target exports, a later one over an earlier one; a named re-export
\* that leads nowhere is recorded as unknown.
Follow(out, edge, surface) ==
    IF edge.kind = "star" THEN [n \in Names |-> IF surface[n] # None THEN surface[n] ELSE out[n]]
    ELSE [out EXCEPT ![edge.exported] = IF surface[edge.local] # None THEN surface[edge.local] ELSE Unknown]

----------------------------------------------------------------------------
\* extractSurface, in whatever order the directory is read.
Ask(f) ==
    /\ stack = <<>>
    /\ f \in left
    /\ left' = left \ {f}
    /\ IF f \in DOMAIN cache THEN UNCHANGED <<seen, stack>>
       ELSE seen' = {f} /\ stack' = <<Activation(f)>>
    /\ UNCHANGED <<parsed, cache>>

\* What a call for an edge's target returns without an activation of its own.
Answer(t) == IF t \in DOMAIN cache THEN cache[t] ELSE Nothing

\* The next edge of the innermost activation: a call for a file that is neither cached nor
\* seen comes first, and the edge is followed when it has returned.
FollowEdge ==
    LET top == Head(stack)
        edge == Edges(top.file)[top.next]
    IN  /\ stack # <<>> /\ top.next <= Len(Edges(top.file))
        /\ IF edge.target \in Files \ (DOMAIN cache \cup seen)
           THEN seen' = seen \cup {edge.target} /\ stack' = <<Activation(edge.target)>> \o stack
           ELSE stack' = <<[top EXCEPT !.next = @ + 1, !.out = Follow(@, edge, Answer(edge.target))]>> \o Tail(stack)
                /\ UNCHANGED seen
    /\ UNCHANGED <<parsed, left, cache>>

\* Mutant of Exported: what a star brought goes over the declarations of the file.
ExportedUnderStars(f, out) ==
    [n \in Names |-> IF out[n] = None /\ n \in parsed[f].locals THEN Declaration(f, n) ELSE out[n]]

\* The declarations of the file go over what its stars brought.
Exported(f, out) == [n \in Names |-> IF n \in parsed[f].locals THEN Declaration(f, n) ELSE out[n]]

\* The activation returns and its result is kept.
Return ==
    LET top == Head(stack)
    IN  /\ stack # <<>> /\ top.next > Len(Edges(top.file))
        /\ cache' = [f \in DOMAIN cache \cup {top.file} |-> IF f = top.file THEN Exported(f, top.out) ELSE cache[f]]
        /\ stack' = Tail(stack)
        /\ UNCHANGED <<parsed, left, seen>>

WalkInit ==
    /\ parsed \in {p \in [Files -> UNION {Contents[f] : f \in Files}] : \A f \in Files : p[f] \in Contents[f]}
    /\ left = Files
    /\ cache = <<>>
    /\ seen = {}
    /\ stack = <<>>

WalkNext == (\E f \in Files : Ask(f)) \/ FollowEdge \/ Return

----------------------------------------------------------------------------
(* What a file exports by the rules of the language *)

Targets(f) == {e.target : e \in Range(Edges(f))} \cap Files

Acyclic == \E rank \in [Files -> 1..Cardinality(Files)] : \A f \in Files : \A t \in Targets(f) : rank[t] < rank[f]

\* What a name of a file may lead to, one more edge away than in `known`: its own
\* declaration, else what its named re-exports lead to, which are there even if that is
\* nothing, else what its stars lead to.
OneEdgeMore(known) == [f \in Files |-> [n \in Names |->
    LET named == {e \in Range(parsed[f].named) : e.exported = n}
        through(e, m) == IF e.target \in Files THEN known[e.target][m] ELSE {}
    IN  IF n \in parsed[f].locals THEN {Declaration(f, n)}
        ELSE IF named # {} THEN UNION {IF through(e, e.local) # {} THEN through(e, e.local) ELSE {Unknown} : e \in named}
        ELSE UNION {through(e, n) : e \in Range(parsed[f].stars)}]]

LeadsWithin[i \in 0..Cardinality(Files)] ==
    IF i = 0 THEN [f \in Files |-> [n \in Names |-> {}]] ELSE OneEdgeMore(LeadsWithin[i - 1])

IsExports(surface) == LET leads == LeadsWithin[Cardinality(Files)] IN \A f \in Files, n \in Names :
    IF leads[f][n] = {} THEN surface[f][n] = None ELSE surface[f][n] \in leads[f][n]

\* With no cycle of re-exports the surface of a file is what the language says it exports:
\* in whatever order the files are asked for, no name is missing, none is invented, and none
\* is recorded as unknown that leads to a declaration (dts-shape.mjs:311).
SurfaceIsExports == left = {} /\ stack = <<>> /\ Acyclic => IsExports(cache)
=============================================================================
