---------------------------------- MODULE Entry ----------------------------------
(***************************************************************************)
(* How the Mini App is opened and on which page it comes to rest: a link   *)
(* or a button of Telegram, or an address, names a URL; the server answers *)
(* with a redirect or with index.html (server/app.ts); the router shows a  *)
(* page, and two effects may navigate on: DeepLink, which goes to the page *)
(* a start parameter names, and the catch-all route, which goes to '/'     *)
(* (src/app/App.tsx).                                                      *)
(*                                                                         *)
(* A URL is its path, with or without the release prefix of WEBAPP_URL,    *)
(* and the startapp parameter of its query.  A start parameter is its      *)
(* prefix, the length of what follows, and whether all its characters are  *)
(* allowed ones.  Definitions named X_Fault are faulty variants of X, used *)
(* by no action.                                                           *)
(***************************************************************************)
EXTENDS Naturals

CONSTANTS
    Bases,      \* what WEBAPP_URL may be: none, root, path (a release prefix), query
    Clicks      \* how many links the user follows, and reloads

EntryAssumption ==
    /\ Bases \subseteq {"none", "root", "path", "query"}
    /\ Clicks \in Nat

Params ==
    [prefix : {"product_", "category_", "ref_", ""}, rest : {0, 1, 55, 56, 57},
     clean : BOOLEAN]
NoParam == [prefix |-> "", rest |-> 0, clean |-> TRUE]

Routes == {"home", "product", "search", "history"}      \* of the <Routes> in App
Url(release, route, param) == [release |-> release, route |-> route, startapp |-> param]
Root == Url(FALSE, "home", NoParam)

VARIABLES
    base,       \* the kind of WEBAPP_URL
    opened,     \* how the app was opened: by link, button or address, at which URL
    initParam,  \* initDataUnsafe.start_param
    loaded,     \* index.html has arrived and React has mounted
    url,        \* location
    shown,      \* the location the last render was for
    dirty,      \* that render's effects have not run
    clicks,     \* links the user has followed, and reloads
    wish        \* the page the last of them leads to or repeats

vars == <<base, opened, initParam, loaded, url, shown, dirty, clicks, wish>>

\* WEBAPP_URL, with the parameter that /start was given.
WebAppUrl(param) == Url(base = "path", "home", param)

\* A t.me link starts the app at WEBAPP_URL and hands its parameter over in
\* initData; the button of /start and the link of ReferralPage carry it in the
\* query; anything else is opened by its address.
Init ==
    /\ base \in Bases
    /\ \E param \in Params :
        \/ /\ opened = [by |-> "link", at |-> WebAppUrl(NoParam), param |-> param]
           /\ initParam = param
        \/ /\ opened = [by |-> "button", at |-> WebAppUrl(param), param |-> param]
           /\ initParam = NoParam
        \/ /\ opened = [by |-> "referral", at |-> Url(FALSE, "home", param), param |-> param]
           /\ initParam = NoParam
        \/ /\ param = NoParam
           /\ \E route \in Routes, release \in {FALSE, base = "path"} :
                 opened = [by |-> "address", at |-> Url(release, route, param), param |-> param]
           /\ initParam = NoParam
    /\ url = opened.at
    /\ loaded = FALSE
    /\ shown = Root
    /\ dirty = FALSE
    /\ clicks = 0
    /\ wish = "home"

-------------------------------------------------------------------------------
(* The server *)

AtRoot == ~url.release /\ url.route = "home"

\* Only for a WEBAPP_URL that is more than an origin.
Redirects == AtRoot /\ base \in {"path", "query"}

\* app.get('/'): to the path and query of WEBAPP_URL, whatever the query was.
Redirect ==
    /\ ~loaded
    /\ Redirects
    /\ url' = WebAppUrl(NoParam)
    /\ UNCHANGED <<base, opened, initParam, loaded, shown, dirty, clicks, wish>>

\* index.html, under the release prefix and everywhere else; the first render
\* has its effects ahead.
Load ==
    /\ ~loaded
    /\ ~Redirects
    /\ loaded' = TRUE
    /\ shown' = url
    /\ dirty' = TRUE
    /\ UNCHANGED <<base, opened, initParam, url, clicks, wish>>

-------------------------------------------------------------------------------
(* The start parameter *)

\* parseStartParam, on the server.
WellFormed(p) ==
    LET length == p.rest + (CASE p.prefix = "product_"  -> 8
                              [] p.prefix = "category_" -> 9
                              [] p.prefix = "ref_"      -> 4
                              [] OTHER                  -> 0)
    IN p.clean /\ length \in 1..64

Parse(p) ==
    IF ~WellFormed(p) \/ p.rest = 0 THEN "catalog"
    ELSE CASE p.prefix = "product_"  -> "product"
           [] p.prefix = "category_" -> "category"
           [] p.prefix = "ref_"      -> "ref"
           [] OTHER                  -> "catalog"

\* startParam, on the client.
StartParam == IF initParam # NoParam THEN initParam ELSE url.startapp

-------------------------------------------------------------------------------
(* The client *)

\* The two regular expressions of DeepLink.
DeepLink_Short(p, from) ==
    CASE p.prefix = "product_" /\ p.clean /\ p.rest \in 1..55  -> Url(FALSE, "product", NoParam)
      [] p.prefix = "category_" /\ p.clean /\ p.rest \in 1..55 -> Url(FALSE, "search", NoParam)
      [] OTHER -> from

DeepLink(p, from) ==
    CASE p.prefix = "product_" /\ p.clean /\ p.rest \in 1..56  -> Url(FALSE, "product", NoParam)
      [] p.prefix = "category_" /\ p.clean /\ p.rest \in 1..55 -> Url(FALSE, "search", NoParam)
      [] OTHER -> from

\* No route is known under the release prefix: BrowserRouter has no basename.
CatchAll(from) == IF shown.release THEN Root ELSE from

\* The effects of one render, in the order of the tree: DeepLink comes first.
\* Both navigate by replacing the location.
Effects ==
    /\ loaded /\ dirty
    /\ url' = CatchAll(DeepLink(StartParam, url))
    /\ dirty' = FALSE
    /\ UNCHANGED <<base, opened, initParam, loaded, shown, clicks, wish>>

PathOf(u) == <<u.release, u.route>>

\* useNavigate returns another function on another path, so the effects that
\* depend on it run again.
Render_Once ==
    /\ loaded /\ ~dirty
    /\ shown # url
    /\ shown' = url
    /\ UNCHANGED <<base, opened, initParam, loaded, url, dirty, clicks, wish>>

Render ==
    /\ loaded /\ ~dirty
    /\ shown # url
    /\ shown' = url
    /\ dirty' = (PathOf(url) # PathOf(shown))
    /\ UNCHANGED <<base, opened, initParam, loaded, url, clicks, wish>>

Resting == loaded /\ ~dirty /\ shown = url

\* A link of the navigation bar or of a page.
Click ==
    /\ Resting
    /\ clicks < Clicks
    /\ wish' \in Routes
    /\ url' = Url(FALSE, wish', NoParam)
    /\ clicks' = clicks + 1
    /\ UNCHANGED <<base, opened, initParam, loaded, shown, dirty>>

\* The retry button of ErrorBoundary, or the browser's own reload.
Reload ==
    /\ Resting
    /\ clicks < Clicks
    /\ loaded' = FALSE
    /\ clicks' = clicks + 1
    /\ wish' = shown.route
    /\ UNCHANGED <<base, opened, initParam, url, shown, dirty>>

-------------------------------------------------------------------------------
Opening == Redirect \/ Load \/ Effects \/ Render

Next == Opening \/ Click \/ Reload

Spec == Init /\ [][Next]_vars

\* Requests are answered and React does its work.
FairSpec == Spec /\ WF_vars(Opening)

-------------------------------------------------------------------------------
(* Properties *)

Urls == [release : BOOLEAN, route : Routes, startapp : Params]

\* Every variable holds a value the code can give it.
TypeOK ==
    /\ base \in Bases
    /\ opened \in [by : {"link", "button", "referral", "address"}, at : Urls, param : Params]
    /\ initParam \in Params
    /\ loaded \in BOOLEAN
    /\ url \in Urls /\ shown \in Urls
    /\ dirty \in BOOLEAN
    /\ clicks \in 0..Clicks
    /\ wish \in Routes

\* A parameter that outlives the redirect and the catch-all route: one in
\* initData always, one in the query when WEBAPP_URL is a bare origin.
Survives == opened.by = "link" \/ (opened.by \in {"button", "referral"} /\ base \in {"none", "root"})

\* The app opens on the page that the server reads out of the start parameter,
\* although two effects navigate against each other (DeepLink and the
\* catch-all route, parseStartParam).
DeepLinkOpens ==
    Resting /\ clicks = 0 /\ Survives =>
        shown.route = CASE Parse(opened.param) = "product"  -> "product"
                        [] Parse(opened.param) = "category" -> "search"
                        [] OTHER                            -> "home"

\* A page opened by its own address is the page that is shown (the fallback
\* route, App).
AddressOpens ==
    Resting /\ clicks = 0 /\ opened.by = "address" /\ ~opened.at.release =>
        shown.route = opened.at.route

\* Every way of opening the app, and every link followed in it, ends on a page
\* at rest when WEBAPP_URL is an origin with or without a path (it does not for
\* an origin with a query: '/' redirects to itself).
OpeningEnds == base # "query" => []<>Resting

\* What app.ts:93 says: the configured release path and its client routes
\* support direct navigation.
ReleaseRoutesOpen ==
    Resting /\ clicks = 0 /\ opened.by = "address" /\ opened.at.release =>
        shown.route = opened.at.route

\* A link leads where it says, and a reload keeps it, unless a product or
\* category link of Telegram has opened the app (NavLink, DeepLink).
LinksLead ==
    Resting /\ clicks > 0 /\ Parse(initParam) \notin {"product", "category"} =>
        shown.route = wish

\* A link leads where it says for everybody (it does not: DeepLink runs again on
\* every new path and takes such a user back to the page he came for).
UserCanLeave == Resting /\ clicks > 0 => shown.route = wish
===============================================================================
