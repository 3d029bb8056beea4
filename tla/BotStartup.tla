-------------------------------- MODULE BotStartup --------------------------------
(***************************************************************************)
(* How the process brings its bot up, and what Telegram's updates and the  *)
(* platform's health checks meet meanwhile (server/app.ts: createApp, the  *)
(* webhook, /health/ready).  createApp starts one asynchronous start-up    *)
(* and goes on; the webhook awaits its end, then looks at botStatus.       *)
(*                                                                         *)
(* Telegram (external) keeps one webhook URL per bot, posts an update      *)
(* again until it gets a 200, and the bot may be registered elsewhere by   *)
(* another deployment at any time.  The response of a request that waits   *)
(* longer than 30 s is destroyed, its handler is not.  Payments are the    *)
(* subject of Payments: here an update is handled or it is not.            *)
(* Definitions named X_Fault are faulty variants of X, used by no action.  *)
(***************************************************************************)
EXTENDS Naturals, FiniteSets

CONSTANTS
    Updates,        \* updates Telegram has for the bot
    HasBot,         \* BOT_TOKEN is configured
    Production,     \* config.isProduction
    Calls,          \* setMyCommands calls of the loop
    MaxFailures,    \* Bot API calls that fail
    MaxOthers,      \* registrations made by other deployments
    MaxTimeouts     \* webhook requests cut after 30 s

StartupAssumption ==
    /\ HasBot \in BOOLEAN /\ Production \in BOOLEAN
    /\ Calls \in Nat /\ MaxFailures \in Nat /\ MaxOthers \in Nat /\ MaxTimeouts \in Nat

VARIABLES
    status,     \* botStatus
    step,       \* start-up: init, commands, menu, webhook, check, end
    commands,   \* setMyCommands calls that succeeded
    hook,       \* Telegram: the webhook is ours, or other
    failures, others, timeouts,     \* how often each has happened
    moved,      \* another deployment registered after our check
    state,      \* Telegram: queued, sent, confirmed
    waiting,    \* requests in our process: how many wait per update
    cut,        \* ... of which had their response destroyed
    handled,    \* how often the handler ran, per update
    refused,    \* updates answered 503 at least once
    healthy     \* /health/ready has answered 200

vars == <<status, step, commands, hook, failures, others, timeouts, moved,
          state, waiting, cut, handled, refused, healthy>>
startup == <<status, step, commands>>
counters == <<failures, others, timeouts>>
telegram == <<state, waiting, cut, handled, refused>>

Init ==
    /\ status = IF HasBot THEN "initializing" ELSE "disabled"
    /\ step = IF HasBot THEN "init" ELSE "end"
    /\ commands = 0
    /\ hook \in {"ours", "other"}
    /\ failures = 0 /\ others = 0 /\ timeouts = 0
    /\ moved = FALSE
    /\ state = [u \in Updates |-> "queued"]
    /\ waiting = [u \in Updates |-> 0]
    /\ cut = [u \in Updates |-> 0]
    /\ handled = [u \in Updates |-> 0]
    /\ refused = {}
    /\ healthy = FALSE

-------------------------------------------------------------------------------
(* botReady *)

Goto(to) == step' = to

BotInit ==
    /\ step = "init"
    /\ Goto(IF Calls = 0 THEN "menu" ELSE "commands")
    /\ UNCHANGED <<status, commands, hook, counters, moved, telegram, healthy>>

SetCommands ==
    /\ step = "commands"
    /\ commands' = commands + 1
    /\ Goto(IF commands' < Calls THEN "commands" ELSE "menu")
    /\ UNCHANGED <<status, hook, counters, moved, telegram, healthy>>

SetMenuButton ==
    /\ step = "menu"
    /\ Goto("webhook")
    /\ UNCHANGED <<status, commands, hook, counters, moved, telegram, healthy>>

SetWebhook ==
    /\ step = "webhook"
    /\ hook' = "ours"
    /\ Goto("check")
    /\ UNCHANGED <<status, commands, counters, moved, telegram, healthy>>

\* getWebhookInfo: another URL is an error like any other.
Verified == IF hook = "ours" THEN "ready" ELSE "failed"

CheckWebhook ==
    /\ step = "check"
    /\ status' = Verified
    /\ Goto("end")
    /\ UNCHANGED <<commands, hook, counters, moved, telegram, healthy>>

\* A Bot API call fails: the catch block, and nothing tries again.
Caught == status' = "failed" /\ Goto("end")

StartupFails ==
    /\ step # "end"
    /\ failures < MaxFailures
    /\ failures' = failures + 1
    /\ Caught
    /\ UNCHANGED <<commands, hook, others, timeouts, moved, telegram, healthy>>

Startup == BotInit \/ SetCommands \/ SetMenuButton \/ SetWebhook \/ CheckWebhook

\* Another deployment of the same bot calls setWebhook (external).
OtherDeployment ==
    /\ others < MaxOthers
    /\ others' = others + 1
    /\ hook' = "other"
    /\ moved' = (step = "end")
    /\ UNCHANGED <<startup, failures, timeouts, telegram, healthy>>

-------------------------------------------------------------------------------
(* POST /api/webhooks/telegram *)

\* Telegram posts an update to the registered URL, again if it must.
Deliver(u) ==
    /\ state[u] = "queued"
    /\ hook = "ours"
    /\ state' = [state EXCEPT ![u] = "sent"]
    /\ waiting' = [waiting EXCEPT ![u] = @ + 1]
    /\ UNCHANGED <<startup, hook, counters, moved, cut, handled, refused, healthy>>

\* res.setTimeout(30_000): Telegram sees the connection close.
RequestTimesOut(u) ==
    /\ cut[u] < waiting[u]
    /\ timeouts < MaxTimeouts
    /\ timeouts' = timeouts + 1
    /\ cut' = [cut EXCEPT ![u] = @ + 1]
    /\ state' = [state EXCEPT ![u] = "queued"]
    /\ UNCHANGED <<startup, hook, failures, others, moved, waiting, handled,
                   refused, healthy>>

\* `await botReady` is over.
BotReady_NotAwaited == TRUE
BotReady == step = "end"

\* `bot && botStatus !== 'ready'`, or no bot to hand the update to.
Unavailable == status # "ready"

\* The answer goes to a request whose connection is open, if one is left.
Answered(u) == cut[u] < waiting[u]
Leaves(u) ==
    /\ waiting' = [waiting EXCEPT ![u] = @ - 1]
    /\ cut' = IF Answered(u) THEN cut ELSE [cut EXCEPT ![u] = @ - 1]

Refuse(u) ==
    /\ waiting[u] > 0
    /\ BotReady
    /\ Unavailable
    /\ Leaves(u)
    /\ refused' = refused \cup {u}
    /\ state' = IF Answered(u) THEN [state EXCEPT ![u] = "queued"] ELSE state
    /\ UNCHANGED <<startup, hook, counters, moved, handled, healthy>>

Handle(u) ==
    /\ waiting[u] > 0
    /\ BotReady
    /\ ~Unavailable
    /\ Leaves(u)
    /\ handled' = [handled EXCEPT ![u] = @ + 1]
    /\ state' = IF Answered(u) THEN [state EXCEPT ![u] = "confirmed"] ELSE state
    /\ UNCHANGED <<startup, hook, counters, moved, refused, healthy>>

-------------------------------------------------------------------------------
(* GET /health/ready: database, store and storage are there or not *)

TelegramOk == ~Production \/ status = "ready"

Probe ==
    /\ TelegramOk
    /\ healthy' = TRUE
    /\ UNCHANGED <<startup, hook, counters, moved, telegram>>

-------------------------------------------------------------------------------
\* Every call succeeds, and the bot is registered nowhere else.
Undisturbed ==
    \/ Startup \/ Probe
    \/ \E u \in Updates :
        Deliver(u) \/ RequestTimesOut(u) \/ Refuse(u) \/ Handle(u)

Next == Undisturbed \/ StartupFails \/ OtherDeployment

Spec == Init /\ [][Next]_vars

\* The start-up goes on, Telegram posts what is queued, and a handler whose
\* await is over runs.
FairSpec ==
    /\ Spec
    /\ WF_vars(Startup)
    /\ \A u \in Updates : WF_vars(Deliver(u)) /\ WF_vars(Refuse(u) \/ Handle(u))

-------------------------------------------------------------------------------
(* Properties *)

\* Every variable holds a value the code can give it; "ready" and "failed" are
\* reached exactly when the start-up is over.
TypeOK ==
    /\ status \in {"disabled", "initializing", "ready", "failed"}
    /\ step \in {"init", "commands", "menu", "webhook", "check", "end"}
    /\ commands \in 0..Calls
    /\ hook \in {"ours", "other"}
    /\ failures \in 0..MaxFailures
    /\ others \in 0..MaxOthers
    /\ timeouts \in 0..MaxTimeouts
    /\ moved \in BOOLEAN
    /\ state \in [Updates -> {"queued", "sent", "confirmed"}]
    /\ waiting \in [Updates -> 0..MaxTimeouts + 1]
    /\ cut \in [Updates -> 0..MaxTimeouts]
    /\ handled \in [Updates -> Nat]
    /\ refused \in SUBSET Updates
    /\ healthy \in BOOLEAN
    /\ status = "initializing" <=> step # "end"
    /\ \A u \in Updates : cut[u] <= waiting[u]

\* A bot that calls itself ready has set every command and owns the webhook,
\* unless another deployment took it over after the check.
ReadyMeansRegistered ==
    status = "ready" => commands = Calls /\ (hook = "ours" \/ moved)

\* No update reaches the handlers before the start-up has succeeded, or
\* after it has failed: grammY refuses updates before init.
NothingBeforeReady ==
    (\E u \in Updates : handled[u] > 0) => status = "ready"

\* An update that comes while the bot starts waits for it: only a failed
\* start-up (or a process without a bot) refuses.
RefusedOnlyWhenFailed == refused # {} => status \in {"failed", "disabled"}

\* In production, once the platform has been told the instance is ready, no
\* update is refused any more.
HealthyServes ==
    [][Production /\ healthy => refused' = refused]_vars

\* What Telegram was told is what happened: an update is confirmed only after
\* its handler ran, and is not lost while a request for it waits.
ConfirmedMeansHandled ==
    \A u \in Updates :
        /\ state[u] = "confirmed" => handled[u] > 0
        /\ state[u] = "sent" => waiting[u] > cut[u]

\* When the start-up succeeds every update is handled in the end, also those
\* that came before and those whose request was cut.
UpdatesHandled == \A u \in Updates : <>(handled[u] > 0 /\ state[u] = "confirmed")
===============================================================================
