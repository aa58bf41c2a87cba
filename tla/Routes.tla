-------------------------------- MODULE Routes --------------------------------
(***************************************************************************)
(* Which page a location shows (routeMatch.ts, routing.tsx, contextUtils.ts, *)
(* components/Routes.tsx, MainContent.tsx, FileRouter.tsx).  A path is the *)
(* sequence of its segments, <<"">> for `/`; a template is a sequence of   *)
(* tokens, one for each segment but `*`, which takes any number.  A table  *)
(* of rules is matched at every arrival, nested <Routes> at every render.  *)
(* The default table redirects `/` to the first main file there is.  The   *)
(* host, which turns a navigation into an arrival, is external.            *)
(***************************************************************************)
EXTENDS Naturals, SequencesExt, FiniteSetsExt

CONSTANTS
    RoutePaths,      \* the paths to arrive at
    RouteTables,     \* pairs of tables: that of boot, and of the <Routes> in its pages
    RouteRefs,       \* revisions of the repository: the rest of a URL
    Candidates,      \* the main files, in their order
    MaxRouteArrivals \* bound: arrivals

CandidateSet == ToSet(Candidates)

----------------------------------------------------------------------------
(* Templates *)

Blank == ""      \* the empty segment
RestKey == "*"   \* the key of what a wildcard took

Literal(name) == [kind |-> "literal", name |-> name]
Param(name) == [kind |-> "param", name |-> name]
Wildcard == [kind |-> "rest", name |-> "wild"]
\* Regular expressions as authored: any path, with the path captured or not.
AnyPath == <<[kind |-> "regexp", name |-> "path"]>>
Anything == <<[kind |-> "regexp", name |-> Blank]>>

IsTemplate(t) ==
    \/ t \in {AnyPath, Anything}
    \/ t \in Seq(ToSet(t)) /\ \A k \in DOMAIN t : t[k].name # RestKey /\ (t[k].kind \in {"literal", "param"} \/ t[k] = Wildcard)
IsTable(table) == table \in Seq(ToSet(table)) /\ \A i \in DOMAIN table : IsTemplate(table[i].pattern)

\* MainContent is in the default table only, at `/` (boot.tsx:158).
ASSUME RoutesAssumption ==
    /\ MaxRouteArrivals \in Nat /\ Candidates \in Seq(CandidateSet)
    /\ \A path \in RoutePaths : path \in Seq(ToSet(path)) /\ path # <<>>
    /\ \A tables \in RouteTables :
         /\ IsTable(tables.main) /\ IsTable(tables.nested)
         /\ \A i \in DOMAIN tables.main : tables.main[i].element = "main" => tables.main[i].pattern = <<Literal(Blank)>>

Groups(template) == {k \in DOMAIN template : template[k].kind \in {"param", "rest"}}

\* A group name that occurs twice makes new RegExp throw; `*` is the group `wild`.
Compiles(template) == \A j, k \in Groups(template) : template[j].name = template[k].name => j = k

\* The key of a group in the parameters.
KeyOf(token) == IF token.name = "wild" THEN RestKey ELSE token.name

\* The segments of the path that each token takes, the greedy rest between the others.
Taken(template, path, k) ==
    LET surplus == Len(path) - Len(template)
        rest == {j \in DOMAIN template : template[j].kind = "rest"}
    IN  IF \E j \in rest : j < k THEN <<path[k + surplus]>>
        ELSE IF k \in rest THEN SubSeq(path, k, k + surplus)
        ELSE <<path[k]>>

\* matchRoute on what compileTemplate makes of a template.
RouteMatches(template, path) ==
    LET rest == {j \in DOMAIN template : template[j].kind = "rest"}
    IN  \/ template \in {AnyPath, Anything}
        \/ /\ IF rest = {} THEN Len(path) = Len(template) ELSE Len(path) >= Len(template)
           /\ \A k \in DOMAIN template :
                LET taken == Taken(template, path, k)
                IN  /\ template[k].kind = "literal" => taken = <<template[k].name>>
                    /\ template[k].kind = "param" => taken # <<Blank>>

ParamsOf(template, path) ==
    IF template = AnyPath THEN [key \in {"path"} |-> path]
    ELSE IF template = Anything THEN <<>>
    ELSE [key \in {KeyOf(template[k]) : k \in Groups(template)} |->
            Taken(template, path, CHOOSE k \in Groups(template) : KeyOf(template[k]) = key)]

\* applyRoutingRule, and the loop of <Routes>: the first rule that matches, unless one
\* before it does not compile.
NoRule == [result |-> "none"]
ApplyRoutingRule(table, path) ==
    LET stops == {i \in DOMAIN table : ~Compiles(table[i].pattern) \/ RouteMatches(table[i].pattern, path)}
    IN  IF stops = {} THEN NoRule
        ELSE LET i == Min(stops)
             IN  IF ~Compiles(table[i].pattern) THEN [result |-> "threw"]
                 ELSE [result |-> "rule", rule |-> i, params |-> ParamsOf(table[i].pattern, path)]

----------------------------------------------------------------------------
VARIABLES
    routes,      \* the two tables
    routeUrl,    \* where the app is: [path, ref]
    routed,      \* the rule of boot's table and its parameters, or "gone": the app threw
    scoped,      \* the rule of the nested table, if any
    present,     \* the candidates that exist
    probe,       \* MainContent: what each probe answered; "unmounted" for all if it is not there
    redirected,  \* the URL its redirect effect ran for last
    navigations, \* navigations sent, not yet answered by the host
    sent,        \* history: navigations since MainContent was mounted
    shownFile,   \* what FileRouter includes
    routeArrivals

routeVars == <<routes, routeUrl, routed, scoped, present, probe, redirected, navigations, sent, shownFile, routeArrivals>>

Unmounted == [c \in CandidateSet |-> "unmounted"]
MainIsThere == probe # Unmounted
NoUrl == [path |-> <<>>, ref |-> "none"]
NoFile == <<>>

\* FILES_PREFIX and useTinkerableLink: the URL of a file in the revision the app is at.
FileUrl(c, ref) == [path |-> <<"files", c>>, ref |-> ref]

\* The element of the rule that won.
ElementAt(answer) == IF answer.result = "rule" THEN routes.main[answer.rule].element ELSE "nothing"

\* MainContentInner: the first candidate that was found, once every probe has answered.
FirstFound(answers) ==
    LET found == {k \in DOMAIN Candidates : answers[Candidates[k]] = "there"}
    IN  IF found = {} \/ \E c \in CandidateSet : answers[c] \in {"unmounted", "asked"} THEN {}
        ELSE {Candidates[Min(found)]}

\* Mutant of EffectRuns: the redirect is sent at every render.
EffectAlways(url) == TRUE

\* The redirect is an effect keyed on its URL.
EffectRuns(url) == url # redirected

\* MainContentRedirect is rendered at `url`, with `answers`; `left` are the navigations before.
Redirect(answers, url, left) ==
    IF \E c \in FirstFound(answers) : EffectRuns(FileUrl(c, url.ref))
    THEN LET target == FileUrl(CHOOSE c \in FirstFound(answers) : TRUE, url.ref)
         IN  /\ redirected' = target
             /\ navigations' = Append(left, target)
             /\ sent' = Append(sent, target)
    ELSE navigations' = left /\ UNCHANGED <<redirected, sent>>

\* What is rendered for a location: a throw in the matching of either table takes the root
\* down, if the app has no boundary of its own.  MainContent stays mounted, with its answers, while the same rule wins.
RenderRoute(url, left) ==
    LET answer == ApplyRoutingRule(routes.main, url.path)
        nested == ApplyRoutingRule(routes.nested, url.path)
        gone == answer.result # "rule" \/ (ElementAt(answer) = "page" /\ nested.result = "threw")
        stays == routed.result = "rule" /\ routed.result = answer.result /\ routed.rule = answer.rule
    IN  /\ routeUrl' = url
        /\ routed' = IF gone THEN [result |-> "gone"] ELSE answer
        /\ scoped' = IF gone \/ ElementAt(answer) # "page" THEN NoRule ELSE nested
        /\ shownFile' = IF gone \/ ElementAt(answer) # "files" \/ answer.params[RestKey] = <<Blank>> THEN NoFile
                        ELSE answer.params[RestKey]
        /\ IF gone \/ ElementAt(answer) # "main"
           THEN probe' = Unmounted /\ redirected' = NoUrl /\ sent' = <<>> /\ navigations' = left
           ELSE IF stays THEN UNCHANGED probe /\ Redirect(probe, url, left)
           ELSE /\ probe' = [c \in CandidateSet |-> "asked"]
                /\ navigations' = left /\ UNCHANGED <<redirected, sent>>

FirstRoutes == CHOOSE tables \in RouteTables : TRUE

RoutesInit ==
    /\ routes \in RouteTables
    /\ routeUrl = NoUrl /\ routed = NoRule /\ scoped = NoRule
    /\ present \in SUBSET CandidateSet
    /\ (\A i \in DOMAIN routes.main : routes.main[i].element # "main") => present = {}   \* nothing looks at them
    /\ probe = Unmounted /\ redirected = NoUrl
    /\ navigations = <<>> /\ sent = <<>>
    /\ shownFile = NoFile /\ routeArrivals = 0

\* Boot, or a move of the person's; updateContext does nothing for the href it is at.
RouteArrives(url) ==
    /\ routeArrivals < MaxRouteArrivals
    /\ routed.result # "gone" /\ url # routeUrl
    /\ RenderRoute(url, navigations)
    /\ routeArrivals' = routeArrivals + 1
    /\ UNCHANGED <<routes, present>>

\* The host answers a navigation with an arrival.
HostFollows ==
    /\ navigations # <<>> /\ routed.result # "gone"
    /\ IF Head(navigations) # routeUrl THEN RenderRoute(Head(navigations), Tail(navigations))
       ELSE /\ navigations' = Tail(navigations)
            /\ UNCHANGED <<routeUrl, routed, scoped, probe, redirected, sent, shownFile>>
    /\ UNCHANGED <<routes, present, routeArrivals>>

\* fileExists; the last answer settles the promise MainContentInner waits for.
ProbeAnswers(c) ==
    /\ probe[c] = "asked"
    /\ probe' = [probe EXCEPT ![c] = IF c \in present THEN "there" ELSE "absent"]
    /\ Redirect(probe', routeUrl, navigations)
    /\ UNCHANGED <<routes, routeUrl, routed, scoped, present, shownFile, routeArrivals>>

\* The files of the app change; the metadata that follows renders all that reads the context.
CandidatesChange ==
    /\ MainIsThere
    /\ present' \in SUBSET CandidateSet
    /\ Redirect(probe, routeUrl, navigations)
    /\ UNCHANGED <<routes, routeUrl, routed, scoped, probe, shownFile, routeArrivals>>

RoutesNext ==
    \/ \E path \in RoutePaths, ref \in RouteRefs : RouteArrives([path |-> path, ref |-> ref])
    \/ HostFollows
    \/ \E c \in CandidateSet : ProbeAnswers(c)
    \/ CandidatesChange

----------------------------------------------------------------------------
\* Reference: the path read token by token, each from the end of the one before.
Fits(token, path, from, to) ==
    CASE token.kind \in {"rest", "regexp"} -> from < to
      [] token.kind = "literal" -> to = from + 1 /\ path[to] = token.name
      [] OTHER -> to = from + 1 /\ path[to] # Blank
Readings(template, path) ==
    {ends \in [0..Len(template) -> 0..Len(path)] :
        /\ ends[0] = 0 /\ ends[Len(template)] = Len(path)
        /\ \A k \in DOMAIN template : Fits(template[k], path, ends[k - 1], ends[k])}
Stands(template, path) == Readings(template, path) # {}

\* The parameters are what the tokens they are named for read.
Spells(template, params, path) ==
    \E ends \in Readings(template, path) :
        \A k \in DOMAIN template : template[k].kind # "literal" =>
            params[KeyOf(template[k])] = SubSeq(path, ends[k - 1] + 1, ends[k])

WinsFairly(table, answer, path) ==
    LET template == table[answer.rule].pattern
    IN  /\ \A i \in 1..answer.rule - 1 : ~Stands(table[i].pattern, path)
        /\ IF template = Anything THEN Stands(template, path) ELSE Spells(template, answer.params, path)

\* The page of a location is that of the first rule, and of the first nested rule, whose
\* template stands for its path, with the parameters that spell it, none of them left over
\* from an earlier location; only a table that cannot be matched takes the app down.
RouteIsFirst ==
    /\ routed.result = "rule" => WinsFairly(routes.main, routed, routeUrl.path)
    /\ scoped.result = "rule" => WinsFairly(routes.nested, scoped, routeUrl.path)
    /\ scoped.result = "none" /\ ElementAt(routed) = "page" =>
         \A i \in DOMAIN routes.nested : ~Stands(routes.nested[i].pattern, routeUrl.path)
    /\ routed.result = "gone" =>
         \/ \E i \in DOMAIN routes.main : ~Compiles(routes.main[i].pattern)
         \/ \E i \in DOMAIN routes.nested : ~Compiles(routes.nested[i].pattern)
         \/ \A i \in DOMAIN routes.main : ~Stands(routes.main[i].pattern, routeUrl.path)

\* `/` redirects once for each URL it may be at, always to one file, the first there was when
\* it was asked for, however late the host follows and whatever renders meanwhile
\* (MainContent.tsx:64).
RedirectsOnce ==
    /\ \A k \in 2..Len(sent) : sent[k] # sent[k - 1]
    /\ Len(sent) <= routeArrivals
    /\ \A k \in DOMAIN sent : \E c \in FirstFound(probe) : sent[k].path = <<"files", c>>
=============================================================================
