# Verification of CLOUD-BOT

TLA+ models of CLOUD-BOT, the Telegram Mini App shop in `src/` (an Express
server, a grammY bot, a React Mini App), with TLC configurations that check them
on small instances and TLAPS proofs for every instance. All paths below are
relative to `src/`. Which definition models which lines is recorded in
`PROJECT.json` under `map`.

Contents: 1 the system, 2 the modules, 3 the runs, 4 fairness, 5 findings and
observations, 6 the proofs, 7 what is not covered, 8 plan, 9 how to run it.

## 1. The system

One Node process (`server/index.ts`) serves an HTTP API, a Telegram webhook and
the static Mini App. It keeps its data in PostgreSQL (production) or SQLite
(development, tests), short-lived keys in Redis or in memory, files in an S3
bucket or a directory. Several replicas and the script `scripts/db.mjs` may run
against the same stores. JavaScript is single-threaded, so the unit of
interleaving is the stretch of a handler between two `await`s; a database
statement is atomic, a transaction as far as its driver makes it so.

| component | state | operations | where it is hard |
|---|---|---|---|
| Orders, payments, refunds (`server/app.ts:231-264, 337-392`) | `orders`, `entitlements`, `webhook_updates`; Telegram's Stars | pre-checkout, payment webhook, refund, reconciliation | several writers of one row, each with awaits between look and update; repeated updates; answers of the Bot API that come late or never |
| Download delivery (`app.ts:289-317`) | `delivery_events` | issue a link, claim it, stream, settle | three event listeners in any order, added after an await; clients that leave; crashes |
| Checkout (`app.ts:196-230`, `src/features/checkout.ts`, `PremiumPages.tsx`) | `orders`, the attempt in `localStorage` | create an order, invoice, poll, resume, reload | lost answers, reloads, two windows, an attempt that expires while its invoice can be paid |
| Project administration (`app.ts:320-336`, `ProjectAdminPage.tsx`) | `products`, `license_plans`; the page's form and selections | draft, licence plan, upload, publish, reload | answers lost or late; rules that only the page knows |
| Publishing (`app.ts:320, 393-408`, `storage.ts`) | `products`, `product_assets`, the object store | draft, upload, publish | store and database changed one after the other; racing publications |
| Scanner (`scanner.ts`) | one scan | header checks, ZIP pass by callbacks | limits that skip content and must still refuse; every event must lead on |
| Job queue (`queue.ts`) | Redis lists and a sorted set, or an array | enqueue, claim, acknowledge, retry, recover, close, start | workers that die between two Redis commands; a loop that outlives its queue's closing |
| SQLite driver (`sqlite-db.ts`) | one connection, a chain of promises | statement, transaction, close | a transaction awaits while other requests want the connection |
| PostgreSQL driver (`pg-db.ts`) | pool | statement, transaction, placeholder rewriting | connections that break before or after COMMIT, a failing ROLLBACK |
| Migrations (`db.ts`, `scripts/db.mjs`) | `schema_migrations`, the schema | run at start, run by script, SQLite upgrade in place | replicas at the same time, lists that differ, crashes between statements |
| Process life cycle (`index.ts`) | listening, draining, closing | start, signals, shutdown | drain against a ten-second limit |
| Bot start-up (`app.ts:33-63, 153-161, 231-234`) | `botStatus`, Telegram's webhook | start-up, webhook, `/health/ready` | updates during start-up, requests cut after 30 s, other deployments |
| Bot conversations (`telegram.ts`) | `support:<user>`, `notifications:<user>`, `support_requests` | /support, messages, the switch | repeated and overlapping updates of a chat |
| Opening the app (`app.ts:85-103`, `telegram.ts:32-60`, `src/app/App.tsx`) | the address, React's pending effects | link, button, address, redirect, deep link, navigation, reload | a redirect and two effects that navigate against each other |
| Login (`schema.ts`, `app.ts:163-179`) | `initData`, the key `session:<token>` | sign, check, exchange, expire | clocks that differ; the same `initData` exchanged again and again |
| Sessions (`app.ts`, `src/api/client.ts`) | `sessions`, the client's token | login, expiry, renewal, logout | requests that meet 401 together |
| Limiter and TTL store (`app.ts`, `state.ts`) | counters with expiry | count, allow, refuse | a read-modify-write in memory, a script in Redis |
| Favourites on the server (`app.ts:274-288`) | `user_favorites` | add, remove | concurrent adds, the two drivers' error texts |
| Preferences and favourites on the device (`src/stores/preferences.ts`) | `localStorage`, CloudStorage, React state | open, tap, erase | the cloud answers after the user has tapped; several devices |

They interact through the tables above and by calls: the webhook needs the bot's
start-up; payments write the entitlement that delivery reads; publishing writes
the file that delivery streams; the administration page drives publishing; every
handler goes through a driver, the limiter and a session. What a component must promise:

- **Payments**: access is granted once, for Stars taken for that very order, and
  ends once; Stars go back at most once; an update recorded is an update acted
  on; the owner is told the truth; nothing is left half done.
- **Delivery**: nobody is served who has not paid; a link serves one complete file,
  a failure gives the link back, a claim is always settled.
- **Checkout**: a click buys one order, whatever gets lost; no second invoice
  while a payment is under way.
- **Publishing, scanner, queue**: product and file go on sale together, what is
  on sale was accepted and is stored; accepted means read to the end
  within the limits; what the editor's page says of a file is so; an accepted job is
  run until it succeeds or its attempts are used up, one attempt at a time.
- **Drivers, migrations, process**: isolation, true answers, a ledger that
  matches the schema, an orderly end. Every call is answered.
- **Opening and login**: every way in ends on the page that was meant; a login ends
  when it should, give or take what it waits for, and is not refused before.
- **Bot, sessions, limiter, favourites**: what is said is what happened.

`PROJECT.json` lists every component with its status, and under `hazards`
each place where the code can go wrong in a way a test would hardly reach, with
the property that watches it.

## 2. The modules

State variables carry the names of the columns and variables they model, actions
those of the routes, functions or events. One action is the code between two
awaits, including everything it calls. A program counter per request (`rPc`,
`gPc`, `hPc`, ...) says where its handler is.

| module | models | notes |
|---|---|---|
| `OrderContract` | the abstract specification: what the shop promises about one order | `Take`, `Grant`, `Return`, `Revoke` |
| `Payments` | orders, webhook transaction, refund, reconciliation, Telegram | refines `OrderContract` (`Contract`, `ContractSpec`) |
| `Delivery` | issuing, claiming, streaming and settling a link | listeners are actions of their own |
| `Shop` | the composition of `Delivery` with `OrderContract`: from Stars to files | the two meet in the entitlement |
| `Checkout` | `POST /api/orders` with its unique index, `useCheckout`, the banner of the payments page | several windows, one `localStorage` |
| `Publishing` | draft, upload with compensation, publish transaction under READ COMMITTED | row locks are explicit |
| `ProjectAdmin` | the administration page and its requests | takes the steps of `Publishing` as they are |
| `Scanner` | `scanAsset` and `scanZip` | one action per yauzl event |
| `QueueContract` | the abstract specification of the queue: accepted, begun, succeeded or failed | with fairness: an accepted job ends |
| `JobQueue` | the Redis worker, its timer and its recovery | one action per Redis command, and one for each way it fails; lists are bags; refines `QueueContract` while its one worker lives and its commands succeed |
| `MemoryQueue` | the queue without Redis: an array and loops, closed and started again | refines `QueueContract` |
| `DriverContract` | the abstract specification of `DbClient`: a call is carried out whole or not at all, and answered truly; a driver that talks to a server may lose an answer | |
| `SqliteDb` | the mutex, statements, transactions, close | promises are numbered; refines `DriverContract` |
| `PgPool` | pool, transactions, broken connections | node-postgres is external; refines `DriverContract` with lost answers |
| `Placeholders` | `toPg` character by character | checked, and proved, against a reference that needs no look-ahead |
| `Migrations` | both runners, the advisory lock, checksums | a text stands for its hash |
| `SqliteUpgrade` | the column-by-column upgrade | files of older releases as starts |
| `Lifecycle` | start, drain, close callbacks, forced exit | |
| `BotStartup` | `botReady`, the webhook gate, readiness | |
| `SupportChat`, `Notifications` | two conversations of the bot | |
| `Entry` | links, buttons, addresses, the server's redirect, `DeepLink`, the catch-all route | external: the router and React's effects |
| `Login` | the age of `initData`, the life of a token | time is a counter, the HMAC a choice; a login waits for database and store between its check and its answer |
| `Session` | client and server of the bearer token | not the `me` query's own login (section 7) |
| `RateLimit` | the limiter over both stores | time is a counter; a script may count and its answer be lost |
| `Favorites`, `DeviceStore` | favourites on the server and on devices | the two databases differ in what the handler recognises |
| `MC...` | instances for TLC | section 3 |
| `...Proofs` | theorems | section 6 |

All of them are proved about as well (section 6): constants with named assumptions, no
recursion.

Definitions named `X_Fault` are faulty variants of `X` (a dropped guard, a
missing reset). No action uses them. Each is paired in `PROJECT.json`
(`mutants`) with a property it breaks, which shows that the property depends on
that piece of code.

**Faults.** What the environment may do is a constant of the module: `MayAbort`,
`MayCrash`, `EarlyLeave`, `Faults`, `MaxFailures`, `MaxFaults`, `MaxCrashes`, `MaxBreaks`, `MaxReloads`
(crashes, reloads, lost connections and answers), `Delay` (how long a login waits), `InOrder`,
`OneAtATime`, `Overlap` (who waits for whom), `Truthful`, `VersionKept` (whether people
enter what is true), `Drift` (clocks that differ). Where a kinder environment only takes
some of the steps away, it is a next-state relation of its own beside `Next`: `Lives`,
beside which `Errs`, `PutUnanswered` and `Crash` are what Redis and the process may add (`JobQueue`),
`Undisturbed` (`BotStartup`, `Notifications`, `Session`), `InTurn` (`SupportChat`), `InTurns`
(`DeviceStore`), `Staying` (`Lifecycle`), `Running` (`Migrations`, `SqliteUpgrade`), `Buying`
(`Checkout`).

**Abstractions.** Identifiers are model values; times are "may have passed"
choices, except in `RateLimit` and `Login`; texts are classes (an archive entry is a record
of the features the scanner looks at); audit rows, analytics and logs are left
out because no handler reads them. Input validation stands before every action
and is not modelled: the inputs are those that pass it.

## 3. The runs

`MCPayments` is an instance of `Payments`, `MCDelivery` one of `Shop`. `MCCheckout`
and the other `MC` modules put several components or settings together that share
no state. Their variable `part` is
chosen in the initial state and says which component moves, and in which
environment; the others stay at one start state. The runs are thus the union of
the separate explorations: since no component reads another's variables, no
interleaving between them could add a behaviour. A property such as
`part = "turns" => ...` is about that environment only. A property called
`...IsSound` is the conjunction of named invariants, each stated in its module
with its own comment, the module's `TypeOK` among them (those of `Payments` and
`Delivery` are proved and not run); one called `...End` is the
conjunction of the components' liveness properties.

| run | settings and bounds | what it shows |
|---|---|---|
| `PaymentsAny` | 2 orders, 2 charges, 2 refund and 2 reconcile requests (interchangeable, symmetry); overlapping requests, an untruthful owner, deaths | an entitlement follows its order; an order keeps the charge that bought it; a recorded payment bought its order or found it bought; the code implements `OrderContract` |
| `PaymentsCareful` | 1 order, 2 charges, 2 refunds, 2 reconciles; a truthful owner who starts one request on an order at a time; deaths; fairness | access is revoked only for Stars that went back; `ok` and `refunded` answers are true; an order whose Stars went back does not rest at `fulfilled`; payments end in access and refund requests in a decision |
| `PaymentsCancelConfirmed` | 1 order, 1 refund, 1 reconcile, overlapping | violation, finding 1 |
| `Delivery` | `Shop` with 2 links, 3 downloads (used in order), 2 orders, 1 charge; clients leave at any time, crashes; fairness | nobody is served unpaid; a link serves one complete file; only a complete delivery uses it up; some time after a refund no link works; a claim is settled unless the process died or the client left too early |
| `DeliveryEarlyLeave` | 1 link, 2 downloads, no crash; fairness | violation, finding 2 |
| `Checkout` | `single`: 1 window, 1 licence; `alone`: 1 window, 2 licences; `pair`: 2 windows, expiry, `pending` answers; 2-3 orders and keys, 2 calls at once | one order per key, an attempt names that order; without expiry no second invoice for a paid order and no forgotten order (`single`); the banner ends |
| `Uploads` | publishing with 2 products, 2 versions, 2 uploads, 2 publications, with all faults (`faults`) and none (`calm`); the page over the same, reloaded once, answers lost or late (`admin`); scan of every header (`headers`) and every archive of up to 3 entries out of 9 kinds (`zip`); Redis queue with 1 worker (`single`), 2 whose commands may fail or lose their answers (`shared`), 2 of which besides one dies or writes a second copy (`dying`); queue in memory with 2 loops, closed once (`memory`) | product and file on sale together, one clean file per product, stored unless its row was in doubt; answered uploads keep row and file; without faults nothing is left over; what goes on sale through the page has a plan, and what the page says of a file is so; accepted means read to the end, with bounded inflation; the queue in memory, and the one in Redis while its one worker lives, implement `QueueContract`; with more workers and faults an accepted job can be lost only at the places that `dropped` names; scans and jobs end |
| `AdminVersion` | part `admin`, the version is edited after the draft | violation, finding 5 |
| `QueueFirstAttempt` | part `dying` | violation, finding 3 |
| `Platform` | SQLite: 1 statement, 2 transactions of 2 writes, close (`sqlite`); pool: the same on 2 connections with 2 breaks (`pool`), or 1 connection and 1 break (`single`); every text of up to 5 characters (`text`); 2 servers and the script, an edited migration and crashes (`releases`), equal releases (`replicas`); 2 processes on files of 4 ages, `dying` or `racing`; 3 requests, clients `leaving` or `staying` | isolation; both drivers implement `DriverContract`; a connection goes back clean; placeholders outside quotes are numbered; the ledger tells the truth; success means an unedited history; replicas do not collide; an upgrade that ends well is complete; nobody waiting is cut off before the stores close; everything ends |
| `Front` | start-up: 2 updates, 2 calls, 1 failure, 2 foreign registrations, 2 cut requests (`rough`), only cut requests (`smooth`); 2 commands and 2 messages, `overlapping` or `orderly`; 3 taps, `failing` or `calm`; opening by every link, button and address for every kind of `WEBAPP_URL`, 2 clicks or reloads (`entry`); 1 window, 2 tokens, `initData` valid for 3 ticks, a session for 2, a login waits for 1 tick at most, clocks within the skew on the memory store (`close`) and beyond it on Redis (`apart`); 4 requests and 4 tokens (`renewal`), 3 requests one of which is the logout (`failing login`); 4 requests against a limit of 2 in a window of 2, on both stores (`redis`, with scripts that do not run or lose their answers, and `memory`); 3 adds, 2 removes on both databases (`sqlite`, `postgres`); 2 devices, 2 items, 1 tap in a `hurry` or 3 in `turns` | status and refusals are honest; what the bot says about a message is true, and in order every message it asked for arrives; the button shows the setting; the app comes to rest on the page that was meant and its links lead on; a login ends in time and is not refused early; renewal goes unnoticed and logins are bounded; windows are bounded; answers to favourites add up and an add takes effect; devices used in turns agree |
| `EntryRoutes` | part `entry` | violation, finding 4 |

**Why these bounds.** Every conflict in this code is between two parties over one
row, key or connection; a third party adds one that comes when the conflict is
already decided (a third download of a link, a third request during a renewal).
Two charges make the "paid twice" case, two orders the "wrong order" case. Queues
run to their last attempt (`MaxAttempts` 2 or 3 instead of 5) so that the
dead-letter list is reached; the scanner's limits (2 entries, 3 bytes each, 4 in
all, ratio 2) are such that archives of 3 entries cross each of them. The
SQLite chain is as long as its four calls. Start parameters have every length class
at which one of the three readers (server, client, Telegram's 64 characters) changes
its mind. Two clicks suffice to leave a page and come back; ten ticks let a login be
renewed, grow old and end, and one tick of waiting separates its check from its key.
The dead worker and the second copy of an entry count against one bound (`MaxFaults` 1). Where a theorem states the property (section 6) the safety
results do not depend on bounds at all, which is why those runs are small.

Deadlock is not checked: requests, links, charges and retries are finite sets,
and a model in which all have ended stops, as an idle server does. Whether
something waits for ever is what the `...End` properties ask.

## 4. Fairness

Only what the event loop, the database and Telegram do by themselves is fair;
users, owners, crashes and faults never are.

- `Payments`: the webhook transaction of a payment (Telegram posts an update until
  it gets a 200) and the handler of a refund, which the event loop continues. The
  Bot API call inside it ends because its client has a timeout. Telegram itself
  need not execute what it was sent.
- `Delivery`: a handler that has something to do continues; links expire because
  time passes. A client need not read on: after 30 s the response
  is destroyed (`app.ts:78`) and `close` follows.
- `Shop`: as `Delivery`; nothing is promised of buyers, payments and refunds.
- `Checkout`: webhooks as above, and the polling of the payments page, a timer.
- `Scanner`: yauzl emits an event after each `readEntry()`.
- `JobQueue`: loop, timer, and restart by the platform. `MemoryQueue`: handlers
  return, and a queue that was closed is started again.
- `SqliteDb`: a call whose turn has come runs. `PgPool`: a call that holds a
  connection goes on; strong fairness for getting one, since node-postgres serves
  waiting calls in order or times them out.
- `Migrations`: a runner goes on; strong fairness for the advisory lock, whose
  waiters PostgreSQL queues. `SqliteUpgrade`: a process runs again when it failed.
- `Lifecycle`: only the ten-second timer. Clients and stores may hang.
- `BotStartup`, `SupportChat`: the start-up goes on, Telegram repeats updates, a
  handler goes on. `Entry`: requests are answered and React runs its effects; users
  need not click. `Session`: replies and logins are answered or fail.
- `RateLimit`, `Favorites`, `Publishing`, `ProjectAdmin`, `Login`, `Notifications`,
  `DeviceStore`: safety only, no fairness.

## 5. Findings and observations

Five runs end in a violation of what the repository says of itself.

1. `PaymentsCancelConfirmed`: `server/app.ts:388` says that a confirmed refund
   cannot be cancelled, and checks the row read at line 381. The update at line
   389 does not check again. A refund confirmed in between (line 366 sets
   `refund_external_confirmed_at` while the status is still `refund_requested`) is
   put back to `fulfilled`; the buyer keeps access and Stars.
2. `DeliveryEarlyLeave`: `AUDIT_REPORT.md:229` says that a link is released when the
   client aborts. The `close` listener is added after `await readAsset`
   (`server/app.ts:304-316`); when the client leaves before that, the event is over,
   the row stays `streaming`, and nothing ever returns it.
3. `QueueFirstAttempt`: `README.md:88` promises visibility recovery. `claimedAt` is
   set on the worker's copy (`server/queue.ts:29`) and not in the entry in
   `processing`; on a first run the entry has none, and `recoverStale` (line 31) skips
   it. A job whose worker dies in its first run is never taken up again. No
   caller of the queue exists yet in `server/`, which keeps this latent.
4. `EntryRoutes`: `server/app.ts:93-94` says that the release path of `WEBAPP_URL` and
   its client routes support direct navigation. The server does serve `index.html`
   there, but `BrowserRouter` has no `basename` (`src/app/App.tsx:11`), so no route
   matches, and the catch-all route shows the start page.
5. `AdminVersion`: `ProjectAdminPage.tsx:41` tells the editor that the file is available
   to buyers. The version in the form stays editable after the draft was made, the
   upload takes it from there (line 35), and a download looks for the version of the
   product (`server/app.ts:290-291`), so buyers are told that there is no file.

The modules also state properties that fail under assumptions weaker than those
of the runs: these are observations. Each can be reproduced by checking the definition
under the setting given. Of one of them the repository does say the opposite:
`Favorites!AddingIsIdempotent` on PostgreSQL. `server/app.ts:281` answers a repeated add
with `idempotent: true`, and `tests/favorites-admin-migration.test.ts:53` tests that, on
SQLite; `server/config.ts:61` demands PostgreSQL in production, where the second add is
answered 500. It is a finding in all but the run of its own: part `postgres` of run `Front`
checks what does hold there (the product is listed all the same, `AddTakesEffect`).

| definition | fails when | because |
|---|---|---|
| `Payments!RefundReplyHonest`, `ReconcileReplyHonest` | requests of the owner overlap (the second also: the owner confirms what is not under refund) | nobody looks at the result of `finalizeRefund` (`app.ts:367, 384`), so `ok` is said although the row had moved on |
| `Payments!RefundedMeansMoneyBack`, `MoneyBackNotFulfilled` | the owner reports wrongly | reconciliation takes the owner's word, by design |
| `ProjectAdmin!DraftReachable` | the answer to the creation is lost, or the page is reloaded | the slug is taken, so it cannot be made again, and the page cannot take up a draft that exists |
| `Payments!EveryPaymentBuys` | two pre-checkouts of an order were approved before either was charged | the second payment is answered `already_processed`; its Stars are neither recorded nor returned (`app.ts:254`), and no refund route can name it |
| `Delivery`: a link works after a refund | it was issued before, or its request had read the entitlement before | neither the claim (`app.ts:297`) nor the insert looks at the entitlement again; `RevokeTakesEffect` shows that expiry ends it, after at most `DOWNLOAD_TTL_SECONDS` |
| `Checkout!NoSecondInvoice`, `NoForgottenOrder` | an attempt expires (`Expire`) | an attempt is dropped after 30 minutes, its invoice stays payable |
| `Checkout!NoSecondInvoice` | `PayReportedPending` | `pending` from Telegram counts as not paid |
| `Checkout!ConfirmingMeansPaid` | always | after a reload the page says of an unpaid order that Telegram is confirming it |
| `Publishing!SoldIsStored` | `"ambiguous"` in `Faults` | an insert that was committed and reported as failed leaves an approved row, whose file `app.ts:401-403` deletes; it can be published like any other, and a download throws |
| `Publishing!FilesAccounted` | `"head"`, `"delete"` or `"crash"` in `Faults` | a `HEAD` that fails after the `PUT` (`storage.ts:60`) comes before the compensating `try`; a failing delete is only logged |
| `Publishing!RowHasFile` for uploads answered with an error | `"ambiguous"` in `Faults` | the insert was committed, its answer lost, and `app.ts:401-403` deletes the file of a live row |
| `JobQueue!NothingDropped` | commands fail (part `shared`) | `recoverStale` has `lrem` and `lpush` in one `try`, whose `catch` only removes the entry again (`queue.ts:31`): when either fails the job is in no list while its worker lives on; a `zrem` of the timer that is sent again removes nothing the second time, and the job is skipped |
| `JobQueue!NothingDropped` | a worker dies (part `dying`) | between the removal from one list and the write to the next the job is nowhere |
| `JobQueue!SingleRun` | two workers | a retried entry carries the claim time of its previous run, so recovery takes it from the worker that runs it |
| (`MemoryQueue`: two loops) | `close()` and `start()` follow each other quickly | the old loop reads the flag only when it comes round; the contract still holds, two jobs run at a time |
| `Entry!UserCanLeave` | a link `product_...` or `category_...` opened the app | `DeepLink` runs again on every new path and returns to that page for as long as the window lives |
| `Entry!OpeningEnds` without its premise | `WEBAPP_URL` has a query | `/` redirects to itself, for ever |
| `Entry!DeepLinkOpens` without `Survives` | a button or referral link, `WEBAPP_URL` with a path | the redirect at `/` and the catch-all route drop the query with its parameter |
| `Session!LogoutSticks` | a request is refused while the logout runs | it makes the client log in again |
| `Migrations!ScriptCompletesSchema` | always | the script's list of migrations is shorter than the server's |
| `SqliteUpgrade!UpgradedFileServes` | a file whose `orders` lack columns no `addColumn` names | those columns are in `CREATE TABLE` only |
| `Lifecycle!CleanExitIsClean` | clients leave early | the drain waits for connections, not for handlers |
| `SupportChat!PromiseKept` | updates of a chat overlap, or the key expires | another message consumes the key |
| `SupportChat!StoredOnce` | a call after the insert fails | the repeated update stores the message again |
| `Notifications!EveryTapCounts`, `ButtonShowsSetting` | taps overlap; the first also when a call fails | each tap flips what it read; a repetition flips again |
| `RateLimit!WindowIsBounded` (memory) | requests in one turn of the event loop | read, await, write |
| `RateLimit!LimitedOnlyWhenFull` (memory) | a request in the instant of expiry | `<` in `get`, `>` in `incrWithTtl` |
| `RateLimit!LimitedOnlyByPassed` | Redis loses an answer | the script has counted: the request is given up with a 503, or asked again and counted twice (`state.ts:28, 36`), and who passed less often than the limit is turned away |
| `Favorites!AddingIsIdempotent` | PostgreSQL | the handler recognises SQLite's `UNIQUE`, PostgreSQL writes `duplicate key value violates unique constraint`; the second add is answered 500 |
| `DeviceStore!ShownIsChosen` | a tap before the cloud has answered | the answer replaces the state |
| `DeviceStore!SharedAtRest` | the app is closed early, or a cloud call fails | the value is not sent again |
| `DeviceStore!ErasedStaysErased` | always | the cloud's copy is not erased and comes back |

## 6. The proofs

Eight modules hold theorems, proved for every value of the constants that
satisfies the modules' named assumptions. These say no more than the code does: null
values are not orders or charges, switches are Boolean, kinds of calls are disjoint, a
transaction has at least one statement, a pool one connection, a job one attempt, a runner is
a server or a script, identifiers of uploads and of publish requests differ, the clocks differ
by less than `MaxAge`, the limit and the window are positive. TLC evaluates them in every run.

Every invariant that the runs check is stated by a theorem. A module that composes parts for
TLC (`MCCheckout`, `MCPlatform`, `MCFront`, `MCUploads`) is proved about as it stands: a step
is one of a single part while the others stutter, and each part's invariant is preserved by
its own steps.

**`PaymentsProofs`.** The inductive invariant is `IInv`. It adds to the properties
what the handlers know between their awaits: a charge past the question passed
the payer check and names an order (`ChargeInv`); an unpaid order has no charge
(`OrderInv`); a refund request past its claim holds the charge that bought the
order, and the order is not unpaid again (`RefundInv`); a reconciliation past its
read is about a paid order (`ReconcileInv`). Without `RefundInv` a refund that
waits for Telegram could hold any charge, and `MoneyBackForBoughtOrder` would not
be preserved. The refund and reconcile handlers change an order only in ways that
`OrderStep` sums up, so the lemma `OrderStepKeeps` carries the invariants over all
of them and each action needs only to be shown to be an `OrderStep`.

- `TypeCorrect`, `EntitlementsFollowOrders`, `ChargesBelongToOrders`,
  `PaymentsAreKept`: the invariants of run `PaymentsAny`.
- `RefundsReturnTheRightCharge`: Stars go back only for the charge that bought its
  order. `RefundsAreFinal` (an action property): an order never leaves `refunded`
  and keeps its charge.
- `ImplementsContract`: every step of `Payments` is a step of `OrderContract` or
  leaves its variables alone, under the refinement mapping of `Contract`.
- `RevokedOnlyForMoney`: with `Truthful` a refunded order's Stars have gone back.
  The invariant is strengthened by what a request that was answered "ok" by
  Telegram, and an owner who says "confirmed", know (`TruthInv`).
- `OwnerIsToldTheTruth`, `NoAccessAfterMoneyBack`: with `Truthful` and `OneAtATime` the
  answers `ok` and `refunded` are true, and no settled order whose Stars went back is
  on sale. `CareInv` says why: whatever runs on an order runs alone (`Alone`), so what
  a request read of its row still holds when it acts (`RefundKnows`,
  `ReconcileKnows`); a late answer of Telegram counts as running. The lemma
  `OthersKnow` carries this past every step of the one request that may move.

**`DeliveryProofs`.** `HandlerInv` says that a handler that claimed a link is the only
one holding it and that the row is then `streaming`; the conditional updates
(`where status='issued'`, `where status='streaming'`) preserve it under any order
of the listeners. Hence `TypeCorrect`, `TokensHaveOneHolder`, `TokensServeOnce`,
`FailuresKeepTokens`, for any number of links and downloads, early leavers and
crashes.

The same module has the proofs of `Shop`. `DownloadsAsAlone`: the composition implements `Delivery`, so every
theorem about `Delivery` holds in it. `OrdersKeepContract`: it implements
`OrderContract`, which `Payments` implements. On top of both, `DeliveriesArePaid`: who
is served has paid, with a charge taken for this order and no other. Its invariant
(`ShopInv`) says that there is no link without an entitlement, and that an
entitlement stands for the charge of its order.

**`UploadsProofs`.** All the invariants of run `Uploads`, and both queues' refinement of the
safety of `QueueContract`. `UploadsInv` is one invariant per part; `UploadsInductive` says
which of them a step may touch.

- Publishing. `LockInv` says what the row locks give: a transaction that has updated a row
  finds it unchanged until it commits. `StoreInv` and `SureInv` are stacked on it. Hence
  `TypeCorrect`, `PublicationIsAtomic`, `PublicationIsUnique`, `RejectedStaysOffSale`,
  `AnsweredUploadsAreKept` and `SoldProductsAreSound` (under every fault: one clean file per
  product, in the store unless its row was in doubt), and `SureRowsAreStored` (where no
  committed insert is reported as failed, the file of a published row is stored).
- `UploadsAreSound`, for archives of any length and any limits. A finding is never taken
  back (`FoundInv`): while there is none, every entry passed was flawless and was streamed to
  its end or is being streamed now (`OpenInv`). The inflated bytes are a sum over a set of
  entries, and the declared bytes a sum over the entries read, which bounds it. What this
  needs of sums is proved for every finite set, without the induction theorems of the library,
  which take the claim as an operator: if it failed for a set, it would fail for a smallest
  one (`SmallestSet`), and there is none. The part without faults adds `FilesAccounted`, which is
  inductive together with Publishing's own invariant (`CalmKeeps`).
- `AdminsAreToldTheTruth`. Every step of the page is a step of `Publishing` or leaves its
  variables alone (`PageInductive`), so `PageInv` may rest on Publishing's invariants. It says
  what answers still on their way are about: a publication that was sent is of a product
  with a plan (`DraftInv`, `CallInv`), and the upload and the publication awaited belong to
  the project that is shown (`ShownInv`), so that a late answer cannot be shown for another.
  `PagesOnlyPublish` draws the conclusion that the page and the calm environment implement
  `Publishing`, whose theorems then hold there.
- `QueuesKeepJobs`, for any number of jobs, workers, failing commands, lost answers and
  deaths. Entries in the lists have an attempt left, a worker holds at most one (`RedisInv`);
  an accepted job that is not done is in a list, or in the memory of a process between two
  commands, or in `dropped` (`KeptInv`). A job gets there in three steps only: the `catch` of
  `recoverStale`, a `zrem` whose answer is lost, the death of a process between two commands.
  Each of them happens in the code (section 5); the theorem says that there is no fourth.
- `ArrayKeepsContract`. In memory a job is in the array once or in the hands of one loop
  (`OnceInv`), and has not ended there (`LeftInv`). This holds with any number of loops,
  left over by `close()` and `start()`, so each job is run one attempt at a time.
- `LoneWorkerKeepsContract`. With one worker that lives, an entry is in one of five places
  (`OnePlace`), once (`SingleInv`), and what is in `processing` is what the worker holds
  (`AloneInv`), so recovery finds nothing to take from it. `CountInv` ties the attempts in
  the entry to the runs. With two workers this is false (`JobQueue!SingleRun`, section 5).

**`CheckoutProofs`.** A window learns of its order through the request it waits for:
the request works on the attempt's key and licence (`Waiting`), its answer is a row of
that key (`AnswersTrue`), and no key has two rows (`OneRow`). Hence `ClicksBuyOnce`, for any
windows, licences, lost answers, expiries and requests at once. For a buyer with one
window and one licence whose attempts do not expire, the stored attempt outlives the
window (`Resumes`); it is given up only with an order whose invoice was on the screen,
so no request still at work can make another (`NoStray`), and an order paid for and not
received is the stored one (`PaidIsStored`). Hence `PaidOrdersAreNotOfferedAgain` and
`OrdersAreTakenUp`. These are about one window because with two they fail, as they do
when an attempt expires (section 5).

**`PlatformProofs`.** All the invariants and both refinements of run `Platform`.

- SQLite. `Chain`: the resolved promises are an initial segment of the chain and no two
  calls own the same promise, so one call at most is next (`Exclusive`). `Connection`: at
  most one transaction is open and the pending writes are its own so far. Hence
  `ConnectionIsWellFormed`, `TransactionsAreIsolated`, `AnswersMatchDatabase`, `MutexIsFair`
  (calls run in the order they were made), and `SqliteImplementsContract`: `COMMIT` and a
  single statement are the steps of `DriverContract` that put a call's writes into the
  database, every other step answers or changes nothing it can see.
- `SchemasAreUpgraded`. The advisory lock makes the runner at work the only one with
  open rows and effects (`Outside`), and what it has executed are the versions it has
  passed that the ledger lacks (`Work`). Without this nothing would say why a runner that
  was preceded by another release fails rather than executes twice. For SQLite, columns
  are only ever added, and a process that does not race knows of every column or has
  added it (`FileInv`).
- `ShutdownCutsNobodyOff`. Stores that are closed, or about to be, mean that no connection
  is open and none is opened (`Quiet`).
- `PlaceholdersAreConverted`. What is written is what the reference gives for the
  characters read, and it is inside a literal when the reference is (`HasRead`). The
  code's look-ahead at a doubled quote is two steps of the reference, which close and open
  the literal. This holds for texts of any length; TLC sees those of up to 5 characters.
- `PoolLendsCleanConnections` and `PoolsImplementContract` carry the theorems of
  `PgPoolProofs` over to the pools of the run.

**`PgPoolProofs`.** `Lent`: a connection is lent to one call at a time. `Connections`:
what is open and pending on it follows from where its borrower is and whether the
server end lives. `Answers`: what is stored agrees with what was answered, up to
answers that were lost. Hence `TypeCorrect`, `ConnectionsComeBackClean` (a failing
`ROLLBACK` does not hand a transaction on) and `ImplementsContract`, for any number of
calls, connections and breaks.

**`LoginProofs`.** A login is checked, waits for the users' row and the key, and is
answered. `Waits`: one that waits began no longer than `Delay` ago, with `initData` young
enough then. `Fresh`: its token has no session yet. `Owned`: it is some window's. `Issued`:
a token stands for sound `initData`, and its key ends within the bound. `Signed`: a window was
signed when it was opened, give or take the drift. `Denied`: who is refused is refused for
good reason. Hence `TypeCorrect`, `LoginsEnd` (the bound is `MaxAge + Delay + TTL`) and
`FreshIsAccepted`, for any ages, clocks, waits and number of renewals; they are the parts
`AccessEnds` and `RefusedOnlyWhenOld` of the run's `SessionsAreSound`. `Delay` is an
assumption about the database and the store: nothing in the code bounds the wait.

**`FrontProofs`.** All the invariants of run `Front`.

- `StartsSoundly`. An update has as many requests at work as were cut, and one more while
  Telegram waits for the answer (`Connected`): this is why a confirmed update was handled,
  although cut requests run on. The commands are set in order (`Ordered`).
- `ConversationsKeepTheirWord`. A message is 'passed on' after its insert (`Kept`), whatever
  overlaps. Updates handled in turn (`Turns`) find the conversation as the one before left
  it, so the message the bot asked for finds the key set, or is stored already
  (`Promise`); failed calls and repeated updates are among the steps. The one tap at work
  (`OneTap`) knows what it stored (`TapKnows`), and without failures the setting has changed
  as often as there were taps, odd or even (`Counted`).
- `EntryLeadsWhereItSays`. Effects that wait belong to the page on screen (`Painted`);
  the location is the one the start parameter (`Deep`), the address (`Direct`) or the last
  click (`Followed`) leads to, or the effects will make it so. The lemma `SameRules` says that the server
  and the device agree on the parameters both accept, the 64 characters included.
- `SessionsEndAndRenew`. `LoginProofs` for both pairs of clocks. There are no more logins
  than requests that found their token refused (`ClientInv`), which bounds their number;
  what is sent again carries a token that lives (`Lives`).
- `LimitsHold`. A place in a window is taken by a request that passed, or by a script that
  counted within the limit and whose answer was lost. On Redis the window was opened by one
  that took a place, the key counts the places taken in it, and in a window's length before it
  fewer than the limit were (`RedisInv`): a span of that length meets two windows at most and
  misses one place of them. Who is turned away has met a limit of places taken; not of
  requests that passed (`LimitedOnlyByPassed`, section 5). The
  memory store, whose requests come in turns of the event loop of their own, reads and
  writes the counter as one step (`MemoryInv`); with an open window its count is at least
  the number of those who passed in it.
- `FavouritesAddUp`. On both databases rows created are those taken away and the one left
  (`Balance`), and an add that was answered, with a 500 too, took effect; on SQLite a repeated
  add is a success, on PostgreSQL it is not (section 5). Of a
  user's devices one is open at a time, and at rest the cloud holds what was chosen last,
  or will when the queued requests were served (`Current`).

**Only model-checked.** Liveness under fairness, and ENABLED, are outside what TLAPS proves
here: `PaymentsEnd`, `RevokeTakesEffect`, `ClaimsSettle`, `PaidBannerEnds`, `WorkEnds`,
`PlatformEnds`, `FrontEnds`, and of `QueueContractKept` that accepted jobs end (its safety
half is `ArrayKeepsContract` and `LoneWorkerKeepsContract`). So are the violations of
section 5, which are behaviours.

## 7. What is not covered

- Read-only endpoints (catalogue, profile, lists) and the fixtures of `seed.ts`: no
  behaviour over time.
- Validation, configuration and storage keys (`validation.ts`, `config.ts`,
  the keys of `storage.ts`): pure functions of one input, covered by table tests. Parsing of
  `initData` and its HMAC: `Login` has their result as a choice.
- Logging, metrics, pages and styles, scripts that check a build.
- Regular expressions of the scanner: whether one matches is part of the input.
- The `me` query's own login (`AppProviders.tsx:24`): it runs beside the shared promise of
  `client.ts`, so `Session`'s bound on logins is that of the renewals in `client.ts`.
- Failures of the database under the favourites routes, other than the violated index.
- Telegram, Redis, PostgreSQL, S3, yauzl and node-postgres: external, modelled from
  how the code uses them, including late, lost and failing answers. Of Redis commands that
  are carried out and lose their answer, the limiter's script and all of the queue's are
  modelled, save an `lrem` that, sent again, removes a second copy of the same text; a key of
  a session that is set twice, or set and not answered, changes nothing a client knows of
  (`Login` lets the key's time begin at any instant of the wait).

## 8. Plan

Done, in this order: contract and payments with proofs; delivery with proofs; checkout;
drivers, with proofs for SQLite; publishing with proofs, scanner, queue;
migrations, upgrade and process; bot; session, limiter, favourites; then the
contracts of the drivers and of the queue, proofs for the pool, the queue in memory,
the administration page, opening and login with proofs, the composition of
payments and delivery with proofs, and the truth of the owner's answers; then proofs of
everything the runs check as an invariant, last of run `Uploads`, and of the safety of every
refinement.

What would come next: publishing composed with delivery (which of several assets a link
names while a new version is being published), and the liveness properties for instances
larger than TLC can enumerate.

## 9. Running it

In this directory, with TLC and TLAPS on the path:

    tlc -config PaymentsAny.cfg MCPayments      (module and cfg as in section 3)
    tlapm PaymentsProofs.tla

The largest runs are `Checkout` (about 0.8 million distinct states), `Front` (0.5
million), `Uploads` (0.33 million), `Delivery` (0.25 million) and `Platform` (0.1 million);
each run takes from seconds to about three and a half minutes with two workers. The proofs
take from seconds to twelve minutes per module (`UploadsProofs`).
