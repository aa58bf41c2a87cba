-------------------------------- MODULE Links --------------------------------
(***************************************************************************)
(* Where a link of an app leads (urlUtils.ts, bundleLinkPath.ts,           *)
(* components/Link.tsx, components/WikiLink.tsx, platformLink.tsx).  The   *)
(* outer URL of a page is the coordinates of a repository, a ref that may  *)
(* hold slashes and a path; paths are sequences of segments.  A wire       *)
(* segment is a sequence of parts: more than one if slashes are encoded    *)
(* in it.  `new URL` percent-encodes names on the way, and nobody decodes  *)
(* them: a name has a form of its own in a URL.  No name has a `#` or `?`  *)
(* in it.  What a browser does with a click is external.                   *)
(***************************************************************************)
EXTENDS Naturals, SequencesExt

CONSTANTS
    LinkNames,       \* names of files and directories, as written and as in URLs
    Rewritten,       \* what `new URL` makes of a name it percent-encodes
    MaxLinkSegments, \* segments of a path
    Repositories,    \* coordinates in front of a ref: one wire segment each
    Refs             \* refs, sequences of parts

FilesPrefix == "files"

\* A name is none of the steps a link may be written with; encoding a name twice changes
\* nothing more.
ASSUME LinksAssumption ==
    /\ LinkNames \intersect {"..", ".", "%2e"} = {}
    /\ DOMAIN Rewritten \subseteq LinkNames /\ FilesPrefix \notin DOMAIN Rewritten
    /\ \A name \in DOMAIN Rewritten : Rewritten[name] \in LinkNames \ DOMAIN Rewritten

----------------------------------------------------------------------------
(* Outer URLs *)

UrlForm(name) == IF name \in DOMAIN Rewritten THEN Rewritten[name] ELSE name
InUrl(path) == [k \in DOMAIN path |-> UrlForm(path[k])]
UrlNames == LinkNames \ DOMAIN Rewritten

Parts1(segs) == [k \in DOMAIN segs |-> <<segs[k]>>]
NoText == ""
Hashes == {NoText, "sec"}
LinkPaths == BoundedSeq(LinkNames, MaxLinkSegments)

\* Mutant of EncodeRef: the slashes of a ref are written as they are.
EncodeRaw(ref) == Parts1(ref)

\* encodeURIComponent on a ref: one segment, whatever is in it.
EncodeRef(ref) == <<ref>>

\* constructUrl; its path has a slash behind the ref, even if nothing follows.
ConstructUrl(nav) == [segs |-> << <<nav.repository>> >> \o EncodeRef(nav.ref) \o Parts1(nav.sandboxPath),
                      slash |-> nav.sandboxPath = <<>>, hash |-> nav.hash]

\* parsePath and parseHref: without a ref every field is empty.  The path is what `new URL` has
\* made of it and stays so; the ref is decoded.
ParseHref(url) ==
    IF Len(url.segs) < 2 THEN [repository |-> NoText, ref |-> <<>>, sandboxPath |-> <<>>, hash |-> url.hash]
    ELSE [repository |-> url.segs[1][1], ref |-> url.segs[2],
          sandboxPath |-> InUrl(FlattenSeq(SubSeq(url.segs, 3, Len(url.segs)))), hash |-> url.hash]

RepositoryPrefixURL(nav) == ConstructUrl([nav EXCEPT !.sandboxPath = <<>>, !.hash = NoText])

\* isInternalHref of an absolute URL: it starts with the prefix, whose slash is part of it.
IsInternalHref(url, nav) ==
    LET prefix == RepositoryPrefixURL(nav)
    IN  IsPrefix(prefix.segs, url.segs) /\ (Len(url.segs) = Len(prefix.segs) => url.slash)

\* constructOuterUrl of an absolute target: below the files, its own fragment or none.
ConstructOuterUrl(target, nav) ==
    ConstructUrl([nav EXCEPT !.sandboxPath = <<FilesPrefix>> \o target.path, !.hash = target.hash])

----------------------------------------------------------------------------
(* Links out of a bundle *)

LinkSegs == LinkNames \union {"..", ".", "%2e", "bad"}
\* A link as written: rooted (`/x`) or relative, with a query, a backslash, fragments after `#`.
Hrefs == [rooted : BOOLEAN, segs : BoundedSeq(LinkSegs, MaxLinkSegments), query : BOOLEAN,
          backslash : BOOLEAN, fragments : 0..2]
EncodedDot == [ups |-> 0, segs |-> <<"%2e">>]

\* One segment: up takes back a name, or leaves; what hides a dot is not read.
Folded(at, part) ==
    IF at = EncodedDot \/ part = "." THEN at
    ELSE IF part = "%2e" THEN EncodedDot
    ELSE IF part # ".." THEN [at EXCEPT !.segs = Append(@, part)]
    ELSE IF at.segs # <<>> THEN [at EXCEPT !.segs = Front(@)]
    ELSE [at EXCEPT !.ups = @ + 1]

\* fold
FoldSegments(start, parts) ==
    LET at[n \in 0..Len(parts)] == IF n = 0 THEN start ELSE Folded(at[n - 1], parts[n])
    IN  at[Len(parts)]

Top == [ups |-> 0, segs |-> <<>>]

\* bundleRelativeTarget, for a link in the entry in directory `dir`.
BundleRelativeTarget(href, dir) ==
    LET target == FoldSegments(IF href.rooted THEN Top ELSE [ups |-> 0, segs |-> dir], href.segs)
    IN  IF href.backslash \/ target = EncodedDot THEN [kind |-> "refused", ups |-> 0, segs |-> <<>>]
        ELSE IF href.rooted \/ target.ups = 0 THEN [kind |-> "inside", ups |-> 0, segs |-> <<>>]
        ELSE IF href.query \/ href.fragments > 1 \/ target.segs = <<>> \/ Contains(target.segs, "bad")
        THEN [kind |-> "refused", ups |-> 0, segs |-> <<>>]
        ELSE [kind |-> "leaves", ups |-> target.ups, segs |-> target.segs]

\* followBundleLink: handled here, with or without a message, or routed as any other.
FollowBundleLink(target) == [handled |-> target.kind # "inside", sent |-> target.kind = "leaves"]

----------------------------------------------------------------------------
(* Wiki links and clicks *)

\* The state a wiki link is drawn in; the shared resolver is external.
WikiState(link) ==
    IF link.path = "none" THEN (IF link.fragment THEN "anchor" ELSE "text")
    ELSE IF link.path = "invalid" THEN "broken"
    ELSE IF link.path = "itself" THEN (IF link.fragment THEN "anchor" ELSE "self")
    ELSE IF link.path = "missing" /\ link.loaded THEN "broken" ELSE "resolved"

\* useComposedAnchorClick with the handler of each anchor: who moves, the app or the browser.
\* "" is an anchor without a target.
SameContext == {NoText, "_self", "_top", "_parent"}
ClickedBy(anchor, click) ==
    IF click.ownPrevents THEN "nobody"
    ELSE IF anchor = "fragment" THEN "app"
    ELSE IF click.gesture THEN "browser"
    ELSE IF anchor = "internal" THEN (IF click.target \in {NoText, "_self"} THEN "app" ELSE "browser")
    ELSE IF anchor = "platform" THEN (IF click.target \in SameContext /\ click.host THEN "app" ELSE "browser")
    ELSE "browser"

----------------------------------------------------------------------------
VARIABLES
    page,       \* the page the links are on: [repository, ref, sandboxPath, hash]
    linkAsked,  \* the link that was looked at
    linkAnswer  \* what became of it

linkVars == <<page, linkAsked, linkAnswer>>

\* Pages as links name them, and those an app can be on: parsed from the URL of its host.
LinkedPages == [repository : Repositories, ref : Refs, sandboxPath : LinkPaths, hash : Hashes]
Pages == [repository : Repositories, ref : Refs, sandboxPath : BoundedSeq(UrlNames, MaxLinkSegments), hash : Hashes]
NoLink == [kind |-> "none"]

LinksInit == page \in Pages /\ linkAsked = NoLink /\ linkAnswer = NoLink

\* An absolute URL of a page; if it has no path, with or without the slash behind the ref.
LookAtUrl(other, slash) ==
    /\ other.sandboxPath # <<>> => slash
    /\ linkAsked' = [kind |-> "url", other |-> other, slash |-> slash]
    /\ LET url == [ConstructUrl(other) EXCEPT !.slash = @ /\ slash]
       IN  linkAnswer' = [url |-> url, internal |-> IsInternalHref(url, page)]

FollowAbsolute(path, hash) ==
    /\ linkAsked' = [kind |-> "absolute", path |-> path, hash |-> hash]
    /\ linkAnswer' = ConstructOuterUrl([path |-> path, hash |-> hash], page)

\* A link in a document of the bundle; the document is the page's.
FollowInBundle(href) ==
    /\ page.sandboxPath # <<>>
    /\ linkAsked' = [kind |-> "bundle", href |-> href]
    /\ LET target == BundleRelativeTarget(href, Front(page.sandboxPath))
       IN  linkAnswer' = [target |-> target, follow |-> FollowBundleLink(target)]

DrawWikiLink(link) ==
    /\ linkAsked' = [kind |-> "wiki", link |-> link]
    /\ linkAnswer' = [state |-> WikiState(link)]

ClickAnchor(anchor, click) ==
    /\ linkAsked' = [kind |-> "click", anchor |-> anchor, click |-> click]
    /\ linkAnswer' = [by |-> ClickedBy(anchor, click)]

WikiLinks == [path : {"none", "invalid", "itself", "missing", "there", "unknown"}, fragment : BOOLEAN, loaded : BOOLEAN]
Clicks == [ownPrevents : BOOLEAN, gesture : BOOLEAN, target : SameContext \union {"_blank"}, host : BOOLEAN]
\* Documents stand for the pages of a bundle, and one page for all a wiki link or click is on.
FirstPage == CHOOSE p \in Pages : p.sandboxPath = <<>>
Document == page.repository = FirstPage.repository /\ page.ref = FirstPage.ref /\ page.hash = FirstPage.hash

LinksNext ==
    /\ linkAsked = NoLink /\ UNCHANGED page
    /\ \/ \E other \in LinkedPages, slash \in BOOLEAN : LookAtUrl(other, slash)
       \/ \E path \in LinkPaths, hash \in Hashes : FollowAbsolute(path, hash)
       \/ Document /\ \E href \in Hrefs : FollowInBundle(href)
       \/ page = FirstPage /\ \E link \in WikiLinks : DrawWikiLink(link)
       \/ page = FirstPage /\ \E anchor \in {"fragment", "internal", "platform", "plain"}, click \in Clicks : ClickAnchor(anchor, click)

----------------------------------------------------------------------------
SameApp(other) == other.repository = page.repository /\ other.ref = page.ref

\* The URL of a page leads back to it, slashes in its ref and all, and that of a file to the
\* page with its name as URLs write it, which leads back to itself (urlUtils.ts:205); a page of
\* another repository or ref is never internal, and one of the same is if its URL has a slash
\* behind the ref, whatever fragment either carries (urlUtils.ts:85); an absolute target keeps
\* to the page's repository and ref and takes its own fragment only.
UrlLeadsBack ==
    /\ linkAsked.kind = "url" =>
         /\ ParseHref(linkAnswer.url) = [linkAsked.other EXCEPT !.sandboxPath = InUrl(@)]
         /\ ParseHref(linkAnswer.url) \in Pages
         /\ linkAsked.other \in Pages => ParseHref(linkAnswer.url) = linkAsked.other
         /\ linkAnswer.internal <=> SameApp(linkAsked.other) /\ linkAsked.slash
    /\ linkAsked.kind = "absolute" =>
         ParseHref(linkAnswer) = [page EXCEPT !.sandboxPath = <<FilesPrefix>> \o InUrl(linkAsked.path), !.hash = linkAsked.hash]

\* Reference: read from its end, a step up takes the next name to its left.
Climbed(at, seg) ==
    IF seg = ".." THEN [at EXCEPT !.ups = @ + 1]
    ELSE IF seg = "." THEN at
    ELSE IF at.ups > 0 THEN [at EXCEPT !.ups = @ - 1]
    ELSE [at EXCEPT !.segs = <<seg>> \o @]
Climb(segs) ==
    LET at[n \in 0..Len(segs)] == IF n = 0 THEN Top ELSE Climbed(at[n - 1], segs[Len(segs) - n + 1])
    IN  at[Len(segs)]

\* A link leaves the bundle exactly if walking it does, and arrives where the walk ends; what
\* is handed to the host is in normal form, and what could be read in two ways is not routed
\* at all (bundleLinkPath.ts:80).
BundleLinkIsWalk ==
    linkAsked.kind = "bundle" =>
        LET href == linkAsked.href
            walk == Climb(Front(page.sandboxPath) \o href.segs)
            target == linkAnswer.target
        IN  /\ target.kind = "leaves" =>
                 /\ ~href.rooted /\ target.ups > 0
                 /\ [ups |-> target.ups, segs |-> target.segs] = walk
                 /\ ToSet(target.segs) \subseteq LinkNames
            /\ target.kind = "inside" => href.rooted \/ walk.ups = 0
            /\ href.backslash \/ Contains(href.segs, "%2e") => target.kind = "refused"
            /\ linkAnswer.follow.sent => linkAnswer.follow.handled

\* A link that leads nowhere is drawn broken, one whose file is not yet known to be missing
\* is not (WikiLink.tsx:48); a plain click on an in-app link never has the browser move the
\* app's frame to a page of the host (Link.tsx:42), nor one on a platform link, with a host to
\* ask, that frame or one above it (platformLink.tsx:33).
LinkStatesAgree ==
    /\ linkAsked.kind = "wiki" =>
         /\ linkAnswer.state = "broken" => linkAsked.link.path = "invalid" \/ (linkAsked.link.path = "missing" /\ linkAsked.link.loaded)
         /\ linkAsked.link.path = "itself" => linkAnswer.state \in {"anchor", "self"}
    /\ linkAsked.kind = "click" /\ linkAnswer.by = "browser" /\ ~linkAsked.click.gesture =>
         /\ linkAsked.anchor = "internal" => linkAsked.click.target \notin {NoText, "_self"}
         /\ linkAsked.anchor = "platform" /\ linkAsked.click.host => linkAsked.click.target \notin SameContext
=============================================================================
