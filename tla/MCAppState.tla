----------------------------- MODULE MCAppState -----------------------------
(* The inputs of AppState for model checking. *)
EXTENDS AppState

\* JSON writes both maps as {}.
MCInputs == {"note", "map1", "map2", "bigint"}
MCImage == ("note" :> "note") @@ ("map1" :> "{}") @@ ("map2" :> "{}")

\* A root with two children, of which the first has one child with two of its own.
MCChildren == (1 :> <<2, 3>>) @@ (2 :> <<4>>) @@ (3 :> <<>>) @@ (4 :> <<5, 6>>) @@ (5 :> <<>>) @@ (6 :> <<>>)

Params == [type |-> "other", x |-> 0, y |-> 0, drag |-> FALSE, key |-> "", maxNodes |-> 9, maxDepth |-> 9]
MCQueries ==
    {[method |-> "snapshotDom", params |-> [Params EXCEPT !.maxNodes = n, !.maxDepth = d]] : n \in {2, 9}, d \in {1, 9}}
    \union {[method |-> "dispatchPointer", params |-> [Params EXCEPT !.type = t, !.x = x, !.drag = TRUE]] :
                t \in {"pointermove", "load"}, x \in {-1, 5}}
    \union {[method |-> "dispatchKey", params |-> [Params EXCEPT !.key = k]] : k \in {"", "a"}}
    \union {[method |-> "eval", params |-> Params]}

MCAppRoot == <<"app">>
MCMountRoots == {MCAppRoot, <<"mnt", "s">>}
MCSiblings == {<<"app2">>, <<"mnt", "s2">>}
MCRules == {[segs |-> p, slash |-> p = <<>>, mode |-> m] : p \in {<<>>, <<"a">>, <<"a", "b">>, <<"b">>}, m \in {"ro", "rw"}}
             \union {[segs |-> <<"a">>, slash |-> TRUE, mode |-> m] : m \in {"ro", "rw"}}
MCLinkNames == {"a", "a b", "a%20b"}
MCRewritten == "a b" :> "a%20b"
MCRefs == {<<"main">>, <<"claude", "x">>, <<"claude">>}

MCDocuments == <<[corpus |-> TRUE, segs |-> <<"wiki", "one">>], [corpus |-> FALSE, segs |-> <<"readme">>],
                 [corpus |-> TRUE, segs |-> <<"two">>], [corpus |-> TRUE, segs |-> <<"wiki", "sub", "three">>]>>
MCStored == {MCDocuments[1], MCDocuments[2]}
MCFieldValues == {<<>>, << <<1>> >>, << <<1, 2>> >>, << <<2>>, <<1>> >>}
MCGlobs == {<<>>, <<"*">>, <<"wiki", "*">>, <<"wiki", "**">>, <<"**", "one">>}
MCFilterOne == {[op |-> "exists", value |-> <<>>]}
    \union {[op |-> o, value |-> <<v>>] : o \in {"eq", "contains"}, v \in {<<1>>, <<2>>}}
    \union {[op |-> "in", value |-> v] : v \in {<<>>, << <<1>>, <<2>> >>}}
MCFilters == {<<>>} \union {<<f>> : f \in MCFilterOne} \union {<<f, g>> : f, g \in MCFilterOne}

MCRoutePaths == {<<"">>, <<"a">>, <<"a", "">>, <<"a", "b">>, <<"a", "b", "a">>, <<"files", "">>, <<"files", "a", "b">>}
MCPatterns == {<<Literal("a")>>, <<Param("x")>>, <<Wildcard>>, <<Literal("a"), Param("x")>>, <<Literal("a"), Wildcard>>,
               <<Wildcard, Param("x")>>, <<Literal("a"), Wildcard, Param("x")>>, <<Param("x"), Param("wild")>>,
               <<Param("x"), Param("x")>>, <<Param("wild"), Wildcard>>, <<Literal("a"), Literal("")>>, Anything}
MCLastPatterns == {<<Literal("a"), Wildcard>>, <<Param("x"), Param("x")>>, Anything}
AppRule(pattern) == [pattern |-> pattern, element |-> "page"]
\* The tables of boot without and with children, and tables of an app's own in either place.
MCDefaultRoutes == <<[pattern |-> <<Literal("")>>, element |-> "main"], [pattern |-> <<Literal("files"), Wildcard>>, element |-> "files"],
                     [pattern |-> AnyPath, element |-> "notfound"]>>
MCRouteTables == {[main |-> MCDefaultRoutes, nested |-> <<>>]}
    \union {[main |-> <<AppRule(p), AppRule(q)>>, nested |-> <<>>] : p \in MCPatterns, q \in MCLastPatterns}
    \union {[main |-> <<AppRule(Anything)>>, nested |-> <<AppRule(p), AppRule(q)>>] : p \in MCPatterns, q \in MCLastPatterns}
MCCandidates == <<"App.tsx", "README.md">>

MCDeltas == {[type |-> "text-delta", of |-> "hi"], [type |-> "text-delta", of |-> NoWords], [type |-> "tool-call", of |-> "c1"],
    [type |-> "reasoning-delta", of |-> "slice"], [type |-> "reasoning", of |-> "signed"],
    [type |-> "reasoning-redacted", of |-> "opaque"], [type |-> "usage", of |-> "cached"], [type |-> "usage", of |-> "bare"]}

MCData == {<<>>, <<{}>>, <<{"ok"}>>,
           <<{"ok", "path", "sha", "commits", "ancestor", "files", "paths", "canWrite", "kid", "created", "projects", "copied",
              "launchId", "uid", "pub", "alg", "addedAt", "d"}>>}
MCNoEnvelope == [ok |-> Missing, code |-> Missing, wait |-> Missing, limit |-> Missing, data |-> <<>>]
MCEnvelopes == {[MCNoEnvelope EXCEPT !.ok = o, !.code = c, !.wait = e[1], !.limit = e[2], !.data = d] :
    o \in {"true", "false", "text", Missing}, c \in {"text", "number", Missing},
    e \in {<<Missing, Missing>>, <<"finite", "number">>, <<"infinite", "text">>}, d \in MCData}
=============================================================================
