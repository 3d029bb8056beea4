--------------------------------- MODULE MCFront ---------------------------------
(***************************************************************************)
(* What meets the user, for TLC: the bot (its start-up, the conversation   *)
(* with support, the notification switch), how the Mini App is opened and  *)
(* logs in, and what its requests meet (the bearer token, the request      *)
(* limiter, the favourites on the server and on a device).  They share no  *)
(* state (botStatus; the keys support:, notifications:, session: and rate: *)
(* of the TTL store; the location; the favourites), so each is explored    *)
(* alone, the others at their start.  A part stands for one of them under  *)
(* one way in which its environment may behave.                            *)
(***************************************************************************)
EXTENDS Naturals, FiniteSets

CONSTANTS
    Parts,
    Posted, HasBot, Production, Calls, MaxFailures, MaxOthers, MaxTimeouts,  \* start-up
    Commands, Messages, ChatFailures, FewFailures,      \* support
    Taps, TapFailures,                                  \* switch
    Bases, Clicks,                                      \* entry
    Windows, LoginTokens, MaxAge, CloseSkew, ApartSkew, TTL, Drift, Delay, Horizon,   \* login
    ApiCalls, FewRequests, LogoutCall, Tokens, First, NoToken,           \* session
    Callers, Limit, Window, LimitHorizon,               \* limiter
    Adds, Removes,                                      \* favourites
    Devices, Items, MaxTaps, FewTaps, MaxFaults

VARIABLES
    part,
    status, step, commands, bHook, failures, others, timeouts, moved, state, waiting,
    cut, handled, refused, healthy,                                     \* start-up
    armed, sRequests, sent, sPc, sTold, promised, due, sFailures,       \* support
    setting, button, drawing, nPc, enabled, nTold, nFailures,           \* switch
    base, opened, initParam, loaded, url, page, dirty, clicks, wish,    \* entry
    clock, signed, since, flaw, expires, owner, begun, denied, served,  \* login
    token, rPc, rTok, login, loginTok, sessions, given, loggedOut,      \* session
    now, key, lPc, seen, ends, lAt,                                     \* limiter
    rows, fPc, fReply,                                                  \* favourites
    hook, cloud, local, open, shown, requests, answer, wanted, taps, faults, erased

\* Start-up when a call fails, other deployments register and requests are cut
\* (rough), and when only requests are cut (smooth).
Bot == INSTANCE BotStartup WITH Updates <- Posted, hook <- bHook

\* Updates of a chat handled at a time (overlapping), and one after the other.
Chat == INSTANCE SupportChat WITH
    MaxFailures <- ChatFailures,
    pc <- sPc, told <- sTold, failures <- sFailures, requests <- sRequests

\* Taps in order, with calls that fail (failing) and without (calm).
Switch == INSTANCE Notifications WITH
    InOrder <- TRUE, MaxFailures <- TapFailures,
    pc <- nPc, told <- nTold, failures <- nFailures

\* Every kind of WEBAPP_URL.
Opened == INSTANCE Entry WITH shown <- page

\* Clocks that differ by as much as is tolerated, and by more; a memory store
\* and Redis.
Close == INSTANCE Login WITH
    Tokens <- LoginTokens, Skew <- CloseSkew, Inclusive <- TRUE,
    now <- clock, refused <- denied
Apart == INSTANCE Login WITH
    Tokens <- LoginTokens, Skew <- ApartSkew, Inclusive <- FALSE,
    now <- clock, refused <- denied

\* Requests with a token that dies (renewal); and with a logout, everything
\* failing.
Client == INSTANCE Session WITH Requests <- ApiCalls, Logout <- LogoutCall

\* The two stores of the limiter, the memory store with requests that come in
\* turns of the event loop of their own.
Redis == INSTANCE RateLimit WITH
    Requests <- Callers, Driver <- "redis", Overlap <- FALSE, Horizon <- LimitHorizon,
    pc <- lPc, at <- lAt
Memory == INSTANCE RateLimit WITH
    Requests <- Callers, Driver <- "memory", Overlap <- FALSE, Horizon <- LimitHorizon,
    pc <- lPc, at <- lAt

\* The list in SQLite, and in PostgreSQL, which production demands.
List == INSTANCE Favorites WITH Driver <- "sqlite", pc <- fPc, reply <- fReply
LiveList == INSTANCE Favorites WITH Driver <- "postgres", pc <- fPc, reply <- fReply

\* Users in a hurry with failing clouds, and users who wait and take turns.
Device == INSTANCE DeviceStore

ASSUME FrontAssumption ==
    /\ Bot!StartupAssumption /\ Chat!SupportAssumption /\ Switch!NotificationsAssumption
    /\ Opened!EntryAssumption /\ Close!LoginAssumption /\ Apart!LoginAssumption
    /\ Client!SessionAssumption /\ Redis!LimitAssumption /\ Memory!LimitAssumption
    /\ List!FavoritesAssumption /\ LiveList!FavoritesAssumption /\ Device!DeviceAssumption

startup == <<status, step, commands, bHook, failures, others, timeouts, moved, state,
             waiting, cut, handled, refused, healthy>>
support == <<armed, sRequests, sent, sPc, sTold, promised, due, sFailures>>
switch  == <<setting, button, drawing, nPc, enabled, nTold, nFailures>>
bot     == <<startup, support, switch>>
entry   == <<base, opened, initParam, loaded, url, page, dirty, clicks, wish>>
access  == <<clock, signed, since, flaw, expires, owner, begun, denied, served>>
session == <<token, rPc, rTok, login, loginTok, sessions, given, loggedOut>>
limiter == <<now, key, lPc, seen, ends, lAt>>
listed  == <<rows, fPc, fReply>>
device  == <<hook, cloud, local, open, shown, requests, answer, wanted, taps, faults,
             erased>>
api     == <<session, limiter, listed, device>>
vars    == <<part, bot, entry, access, api>>

\* Idle parts start where there is one way to start.
Init ==
    /\ part \in Parts
    /\ Bot!Init /\ Chat!Init /\ Switch!Init
    /\ part \notin {"rough", "smooth"} => bHook = "ours"
    /\ part \notin {"failing", "calm"} => setting = "none"
    /\ Opened!Init
    /\ part # "entry" => base = "none" /\ opened.by = "address" /\ opened.at = Opened!Root
    /\ Close!Init
    /\ Client!Init /\ Redis!Init /\ List!Init /\ Device!Init
    /\ part \notin {"hurry", "turns"} => hook = "favorites"

StartupNext ==
    /\ \/ part = "rough" /\ Bot!Next
       \/ part = "smooth" /\ Bot!Undisturbed
    /\ UNCHANGED <<part, support, switch, entry, access, api>>

SupportNext ==
    /\ \/ part = "overlapping" /\ Chat!Next /\ sFailures' <= FewFailures
       \/ part = "orderly" /\ Chat!InTurn
    /\ UNCHANGED <<part, startup, switch, entry, access, api>>

SwitchNext ==
    /\ \/ part = "failing" /\ Switch!Next
       \/ part = "calm" /\ Switch!Undisturbed
    /\ UNCHANGED <<part, startup, support, entry, access, api>>

EntryNext ==
    /\ part = "entry" /\ Opened!Next
    /\ UNCHANGED <<part, bot, access, api>>

LoginNext ==
    /\ \/ part = "close" /\ Close!Next
       \/ part = "apart" /\ Apart!Next
    /\ UNCHANGED <<part, bot, entry, api>>

SessionNext ==
    /\ \/ part = "renewal" /\ Client!Undisturbed
       \/ /\ part = "failing login" /\ Client!Next
          /\ \A r \in ApiCalls \ FewRequests : rPc'[r] = "idle"
    /\ UNCHANGED <<part, bot, entry, access, limiter, listed, device>>

LimiterNext ==
    /\ \/ part = "redis" /\ Redis!Next
       \/ part = "memory" /\ Memory!Next
    /\ UNCHANGED <<part, bot, entry, access, session, listed, device>>

FavoritesNext ==
    /\ \/ part = "sqlite" /\ List!Next
       \/ part = "postgres" /\ LiveList!Next
    /\ UNCHANGED <<part, bot, entry, access, session, limiter, device>>

DeviceNext ==
    /\ \/ part = "hurry" /\ Device!Next /\ taps' <= FewTaps
       \/ part = "turns" /\ Device!InTurns
    /\ UNCHANGED <<part, bot, entry, access, session, limiter, listed>>

Next ==
    \/ StartupNext \/ SupportNext \/ SwitchNext
    \/ EntryNext \/ LoginNext
    \/ SessionNext \/ LimiterNext \/ FavoritesNext \/ DeviceNext

\* The fairness of BotStartup, SupportChat, Entry and Session, each for its own
\* part.
Fairness ==
    /\ WF_startup(part = "smooth" /\ Bot!Startup)
    /\ \A u \in Posted :
        /\ WF_startup(part = "smooth" /\ Bot!Deliver(u))
        /\ WF_startup(part = "smooth" /\ (Bot!Refuse(u) \/ Bot!Handle(u)))
    /\ \A u \in Chat!Updates : WF_support(part = "orderly" /\ Chat!HandleInTurn(u))
    /\ WF_entry(part = "entry" /\ Opened!Opening)
    /\ WF_session(part = "failing login" /\ Client!Relogin)
    /\ \A r \in ApiCalls : WF_session(part = "failing login" /\ Client!Reply(r))

Spec == Init /\ [][Next]_vars /\ Fairness

-------------------------------------------------------------------------------
\* 'ready' is set only once the webhook is ours and the commands are set
\* (botReady).
ReadyMeansRegistered == Bot!ReadyMeansRegistered

\* No update is handled before the bot is ready (webhook handler).
NothingBeforeReady == Bot!NothingBeforeReady

\* An update is refused for good only when the start-up failed.
RefusedOnlyWhenFailed == Bot!RefusedOnlyWhenFailed

\* An update answered 200 was handled (webhook handler).
ConfirmedMeansHandled == Bot!ConfirmedMeansHandled

\* An instance the platform was told is ready refuses no update (/health/ready).
HealthyServes == Bot!HealthyServes

\* When the start-up succeeds every update is handled, cut requests included.
UpdatesHandled == part = "smooth" => Bot!UpdatesHandled

\* 'Passed on' is said only of a message that was stored (the message handler).
StoredWhenTold == Chat!StoredWhenTold

\* In order, the message the bot asked for is never turned away (/support).
PromiseKept == part = "orderly" => Chat!PromiseKept

\* In order, the message the bot asked for reaches support (/support).
PromiseFulfilled == part = "orderly" => Chat!PromiseFulfilled

\* At rest the button and the last answer name the stored setting (settings
\* callbacks).
ButtonShowsSetting == Switch!ButtonShowsSetting

\* Without failures every tap is one change of the setting.
EveryTapCounts == part = "calm" => Switch!EveryTapCounts

\* The page that opens is the one the start parameter names (DeepLink).
DeepLinkOpens == Opened!DeepLinkOpens

\* The page that opens is the one the address names (App).
AddressOpens == Opened!AddressOpens

\* A link leads where it says (DeepLink).
LinksLead == Opened!LinksLead

\* The release path and its client routes support direct navigation, as
\* app.ts:93 says (they do not: App knows no such routes).
ReleaseRoutesOpen == Opened!ReleaseRoutesOpen

\* Every opening of the app ends on a page (app.get('/'), DeepLink).
OpeningEnds == part = "entry" => Opened!OpeningEnds

\* A login ends a session's length after its initData has become too old, give or
\* take the time a login waits (validateTelegramInitData).
AccessEnds == IF part = "apart" THEN Apart!AccessEnds ELSE Close!AccessEnds

\* Who has just opened the app is not turned away (validateTelegramInitData).
RefusedOnlyWhenOld ==
    IF part = "apart" THEN Apart!RefusedOnlyWhenOld ELSE Close!RefusedOnlyWhenOld

\* No request is refused for a token that died while renewals are served
\* (request, client.ts).
DeadTokenUnnoticed == part = "renewal" => Client!DeadTokenUnnoticed

\* The client logs in a bounded number of times (renewal, client.ts).
LoginsBounded == part = "failing login" => Client!LoginsBounded

\* Every request ends, failing logins included (client.ts).
RequestsEnd == part = "failing login" => Client!RequestsEnd

\* No window lets more than the limit pass, on either store (rateLimit).
WindowIsBounded == Redis!WindowIsBounded

\* No span of a window's length lets twice the limit pass (Redis).
BurstIsBounded == part = "redis" => Redis!BurstIsBounded

\* A request is turned away only when its window is full, lost answers included
\* (Redis).
LimitedOnlyWhenFull == part = "redis" => Redis!LimitedOnlyWhenFull

\* The answers to adds and removes add up to the row that is left (favourites
\* routes).
AnswersBalance == List!AnswersBalance

\* A list in SQLite answers a second add like the first (POST favourites; one in
\* PostgreSQL does not).
AddingIsIdempotent == part = "sqlite" => List!AddingIsIdempotent

\* On either, what was added is listed however the add was answered (POST
\* favourites).
AddTakesEffect == List!AddTakesEffect

\* Users who wait for the cloud see what they chose (preferences.ts).
ShownIsChosen == part = "turns" => Device!ShownIsChosen

\* Devices used in turns show the same at rest (preferences.ts).
SharedAtRest == part = "turns" => Device!SharedAtRest

\* While the bot starts, fails to start or has started, no update is lost or
\* handled too early, and the status tells the truth (botReady, webhook).
StartupIsSound ==
    /\ Bot!TypeOK
    /\ ReadyMeansRegistered
    /\ NothingBeforeReady
    /\ RefusedOnlyWhenFailed
    /\ ConfirmedMeansHandled

\* What the bot says of a support message is what becomes of it, and what its
\* switch shows is what is stored and was tapped (the message and callback
\* handlers).
ConversationsAreTrue ==
    /\ Chat!TypeOK
    /\ StoredWhenTold
    /\ PromiseKept
    /\ Switch!TypeOK
    /\ ButtonShowsSetting
    /\ EveryTapCounts

\* However the app is opened, it comes to rest on the page that was meant, and
\* its links lead on from there (DeepLink, the catch-all route).
EntryIsSound ==
    /\ Opened!TypeOK
    /\ DeepLinkOpens
    /\ AddressOpens
    /\ LinksLead

\* A login is neither refused early nor kept up for ever, and requests that
\* overlap with its renewal notice nothing of it (validateTelegramInitData,
\* request in client.ts).
SessionsAreSound ==
    /\ Close!TypeOK
    /\ AccessEnds
    /\ RefusedOnlyWhenOld
    /\ Client!TypeOK
    /\ DeadTokenUnnoticed
    /\ LoginsBounded

\* The limiter lets no more pass than it says, and turns a client away only when
\* its window is full, of requests or of counts whose answer was lost (rateLimit,
\* incrWithTtl).
LimitIsKept ==
    /\ Redis!TypeOK
    /\ WindowIsBounded
    /\ BurstIsBounded
    /\ LimitedOnlyWhenFull

\* Favourites on the server add up to the answers and are there however an add was
\* answered, and only PostgreSQL makes the second of two adds a failure; on the
\* devices of a user who takes turns they are what was chosen (favourites routes,
\* preferences.ts).
FavouritesAgree ==
    /\ List!TypeOK
    /\ Device!TypeOK
    /\ AnswersBalance
    /\ AddingIsIdempotent
    /\ AddTakesEffect
    /\ ShownIsChosen
    /\ SharedAtRest

\* Every update of a bot that starts is handled in the end, none is refused after
\* the platform was told that the instance is ready, every message the bot
\* asked for reaches support, every opening of the app ends on a page, and
\* every request is answered, failing logins included.
FrontEnds ==
    /\ HealthyServes
    /\ UpdatesHandled
    /\ PromiseFulfilled
    /\ OpeningEnds
    /\ RequestsEnd
===============================================================================
