------------------------------- MODULE MCGates -------------------------------
(* The inputs of the gates for model checking. *)
EXTENDS Gates, TLC

MCShapes == {Absent, Callable(1, 1, {}), Callable(1, 2, {}), Callable(2, 2, {"try"}),
             Listed("iface", {"a"}), Listed("iface", {"a", "b"}), FreeText("const", "1.0"), FreeText("const", "1.1")}

Holding(locals, stars, named) == {[locals |-> l, stars |-> s, named |-> n] : l \in locals, s \in stars, n \in named}

\* f1 may read f2 and f3, f2 may read f3, and f3 may lead back to f1.
MCContents ==
    ("f1" :> Holding({{}, {"x"}, {"x", "y"}},
                     {<<>>, <<Star("f2")>>, <<Star("f3"), Star("f2")>>},
                     {<<>>, <<Named("y", "x", "f2")>>, <<Named("x", "y", "f3")>>, <<Named("x", "x", Nowhere)>>}))
    @@ ("f2" :> Holding({{}, {"x"}}, {<<>>, <<Star("f3")>>}, {<<>>, <<Named("y", "x", "f3")>>}))
    @@ ("f3" :> Holding({{}, {"x"}, {"x", "y"}}, {<<>>, <<Star("f1")>>}, {<<>>}))

Call(kind, name, method, layers, revision, poll) ==
    [kind |-> kind, name |-> name, method |-> method, type |-> Type(layers, revision), poll |-> poll]

MCPlaces == <<"tasks.ts", "tasks.ts", "vcs.ts">>
MCCalls ==
    {Call("message", "x", "", <<"own">>, "1", "")}
    \cup {Call("request", "y", "m", <<"lib", "array", "own", "own">>, r, "") : r \in {"1", "2"}}
    \cup {Call("push", "x", "", <<"union", "own", "array", "own">>, r, "y") : r \in {"1", "2"}}

Node(type, values, props, required, closed) ==
    [type |-> type, values |-> values, props |-> props, required |-> required, closed |-> closed, ref |-> FALSE]
HostRef == [Node("", {}, {}, {}, FALSE) EXCEPT !.ref = TRUE]

MCRoots == {Node("object", {}, {"k", "l"}, r, c) : r \in SUBSET {"k", "l"}, c \in BOOLEAN}
           \cup {Node("void", {}, {}, {}, FALSE), Node("object", {}, {}, {}, FALSE), Node("object", {}, {"l"}, {"l"}, TRUE)}
MCLeaves == {Node("object", {}, {"k"}, {"k"}, TRUE), Node("object", {}, {"k"}, {}, FALSE),
             Node("string", {"ro"}, {}, {}, FALSE), Node("string", {"ro", "rw"}, {}, {}, FALSE), HostRef}
MCSchemas == {NoSchema} \cup {IF "k" \in r.props THEN (<<>> :> r) @@ (<<"k">> :> n) ELSE (<<>> :> r) : r \in MCRoots, n \in MCLeaves}

MCDescriptors ==
    {[capability |-> "c", kind |-> k, params |-> {"p", "q"}, required |-> r, constants |-> {"q"} \ r, errors |-> {"e"}, result |-> s] :
        k \in {"request", "stream"}, r \in {{}, {"p"}}, s \in {NoSchema}}
    \cup {[capability |-> c, kind |-> "request", params |-> {}, required |-> {}, constants |-> {}, errors |-> e, result |-> s] :
        c \in {"c"}, e \in {{"e"}}, s \in MCSchemas}
MCMirrors ==
    {[declared |-> TRUE, capability |-> c, stream |-> FALSE, params |-> p, required |-> p \ {"p"}, errorCodes |-> e, result |-> NoSchema] :
        c \in {"c", "d"}, p \in SUBSET {"p", "q"}, e \in {{}, {"e"}}}
    \cup {[declared |-> d, capability |-> "c", stream |-> FALSE, params |-> {}, required |-> {}, errorCodes |-> {"e"}, result |-> s] :
        d \in BOOLEAN, s \in MCSchemas}
=============================================================================
