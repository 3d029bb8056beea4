------------------------------- MODULE Checkout -------------------------------
(***************************************************************************)
(* Buying a license: POST /api/orders with its idempotency key, the        *)
(* invoice, and the Mini App's side of it (features/checkout.ts), which    *)
(* keeps the current attempt in localStorage so that a lost answer or a    *)
(* reload does not buy twice.                                              *)
(*                                                                         *)
(* One user.  Windows are open Mini App web views: they share              *)
(* localStorage, and each runs at most one checkout (the button is         *)
(* disabled meanwhile).  Between two awaits the client runs in one step.   *)
(* A request whose answer the client no longer waits for still runs on     *)
(* the server.  Refunds are in Payments.  Definitions named X_Fault are    *)
(* faulty variants of X, used by no action.                                *)
(***************************************************************************)
EXTENDS Naturals, FiniteSets, Functions

CONSTANTS
    Windows, Licenses, Orders, Keys,
    Calls,          \* slots for POST /api/orders handlers running at once
    NoOrder, NoCall, NoAttempt, NoRow, Conflict

Attempt == [license : Licenses, key : Keys, order : Orders \cup {NoOrder}]
Row     == [license : Licenses, key : Keys, status : {"pending", "fulfilled"}]

CheckoutAssumption ==
    /\ Licenses # {} /\ Keys # {}
    /\ NoOrder \notin Orders
    /\ Conflict \notin Orders \cup {NoOrder}
    /\ NoCall \notin Calls
    /\ NoAttempt \notin Attempt
    /\ NoRow \notin Row

VARIABLES
    row,        \* per order: its row in orders, or NoRow
    shown,      \* orders whose invoice has been on the buyer's screen
    charged,    \* orders Telegram has taken money for
    hPc, hKey, hLicense, hAnswer,   \* per call: the POST /api/orders handler
    stored,     \* localStorage: the pending attempt
    usedKeys,   \* keys newKey() has returned
    wPc,        \* per window: where its checkout is
    want,       \* per window: the license being bought
    att,        \* per window: the variable attempt
    cur,        \* per window: the POST /api/orders it waits for
    page        \* per window: the order its payments page shows

handlers == <<hPc, hKey, hLicense, hAnswer>>
client   == <<stored, usedKeys, wPc, want, att, cur, page>>
vars     == <<row, shown, charged, handlers, client>>

Init ==
    /\ row = [o \in Orders |-> NoRow]
    /\ shown = {}
    /\ charged = {}
    /\ hPc = [c \in Calls |-> "free"]
    /\ hKey \in [Calls -> {CHOOSE k \in Keys : TRUE}]
    /\ hLicense \in [Calls -> {CHOOSE l \in Licenses : TRUE}]
    /\ hAnswer = [c \in Calls |-> NoOrder]
    /\ stored = NoAttempt
    /\ usedKeys = {}
    /\ wPc = [w \in Windows |-> "idle"]
    /\ want \in [Windows -> {CHOOSE l \in Licenses : TRUE}]
    /\ att = [w \in Windows |-> NoAttempt]
    /\ cur = [w \in Windows |-> NoCall]
    /\ page = [w \in Windows |-> NoOrder]

\* A random identifier nobody has seen: which one it is makes no difference.
Fresh(ids) == CHOOSE i \in ids : TRUE

Placed == {o \in Orders : row[o] # NoRow}
Known(k) == {o \in Placed : row[o].key = k}
Fulfilled(o) == row[o] # NoRow /\ row[o].status = "fulfilled"

-------------------------------------------------------------------------------
(* POST /api/orders *)

\* An order found by its key is the answer if it is for the same license.
Replay(c, o) == IF row[o].license = hLicense[c] THEN o ELSE Conflict

Answer(c, a) ==
    /\ hPc' = [hPc EXCEPT ![c] = "done"]
    /\ hAnswer' = [hAnswer EXCEPT ![c] = a]

OrderRead(c) ==
    /\ hPc[c] = "read"
    /\ IF Known(hKey[c]) = {}
       THEN hPc' = [hPc EXCEPT ![c] = "insert"] /\ UNCHANGED hAnswer
       ELSE \E o \in Known(hKey[c]) : Answer(c, Replay(c, o))
    /\ UNCHANGED <<row, shown, charged, hKey, hLicense, client>>

\* The unique index on (user_id, idempotency_key).
Duplicate_NoIndex(c) == FALSE

Duplicate(c) == Known(hKey[c]) # {}

OrderInsert(c) ==
    /\ hPc[c] = "insert"
    /\ ~Duplicate(c)
    /\ Placed # Orders
    /\ LET o == Fresh(Orders \ Placed)
       IN /\ row' = [row EXCEPT ![o] = [license |-> hLicense[c], key |-> hKey[c],
                                        status |-> "pending"]]
          /\ Answer(c, o)
    /\ UNCHANGED <<shown, charged, hKey, hLicense, client>>

OrderRaced(c) ==
    /\ hPc[c] = "insert"
    /\ Duplicate(c)
    /\ hPc' = [hPc EXCEPT ![c] = "reread"]
    /\ UNCHANGED <<row, shown, charged, hKey, hLicense, hAnswer, client>>

OrderReread(c) ==
    /\ hPc[c] = "reread"
    /\ \E o \in Known(hKey[c]) : Answer(c, Replay(c, o))
    /\ UNCHANGED <<row, shown, charged, hKey, hLicense, client>>

-------------------------------------------------------------------------------
(* useCheckout *)

Goto(w, pc) == wPc' = [wPc EXCEPT ![w] = pc]

\* The function returns, or its page is gone: so is its variable attempt.
Leave(w) == Goto(w, "idle") /\ att' = [att EXCEPT ![w] = NoAttempt]

\* attempt is reused for the same license, else replaced under a new key; it
\* is saved before the request leaves.
Reusable_Never(a, l) == FALSE

Reusable(a, l) == a # NoAttempt /\ a.license = l

SendOrder(w, l, a) ==
    LET free == {c \in Calls : hPc[c] \in {"free", "done"}} \ Range(cur)
        c    == Fresh(free)
        k    == IF Reusable(a, l) THEN a.key ELSE Fresh(Keys \ usedKeys)
        next == [license |-> l, key |-> k, order |-> NoOrder]
    IN  /\ free # {}
        /\ Reusable(a, l) \/ usedKeys # Keys
        /\ usedKeys' = usedKeys \cup {k}
        /\ stored' = next
        /\ att' = [att EXCEPT ![w] = next]
        /\ cur' = [cur EXCEPT ![w] = c]
        /\ hPc' = [hPc EXCEPT ![c] = "read"]
        /\ hKey' = [hKey EXCEPT ![c] = k]
        /\ hLicense' = [hLicense EXCEPT ![c] = l]
        /\ hAnswer' = [hAnswer EXCEPT ![c] = NoOrder]
        /\ Goto(w, "create")

\* The click: an attempt that has an order is looked up first.
Buy(w, l) ==
    /\ wPc[w] = "idle"
    /\ want' = [want EXCEPT ![w] = l]
    /\ page' = [page EXCEPT ![w] = NoOrder]
    /\ IF stored # NoAttempt /\ stored.order # NoOrder
       THEN /\ att' = [att EXCEPT ![w] = stored]
            /\ Goto(w, "check")
            /\ UNCHANGED <<handlers, stored, usedKeys, cur>>
       ELSE SendOrder(w, l, stored)
    /\ UNCHANGED <<row, shown, charged>>

\* GET /api/orders/:id answers; the client goes on with what it saw.
CheckedFulfilled(w) ==
    /\ wPc[w] = "check"
    /\ Fulfilled(att[w].order)
    /\ Goto(w, "purchases")
    /\ UNCHANGED <<row, shown, charged, handlers, stored, usedKeys, want, att, cur, page>>

\* The answer says pending; it is acted upon after the network's delay.
CheckedPending(w) ==
    /\ wPc[w] = "check"
    /\ ~Fulfilled(att[w].order)
    /\ Goto(w, "pending")
    /\ UNCHANGED <<row, shown, charged, handlers, stored, usedKeys, want, att, cur, page>>

Resume(w) == att[w].license = want[w]

\* 'processing': the payments page opens, no invoice does.
StillProcessing(w) ==
    /\ wPc[w] = "pending"
    /\ Resume(w)
    /\ Leave(w)
    /\ page' = [page EXCEPT ![w] = att[w].order]
    /\ UNCHANGED <<row, shown, charged, handlers, stored, usedKeys, want, cur>>

\* Another license: the attempt is dropped and a new one begins.
Replace(w) ==
    /\ wPc[w] = "pending"
    /\ ~Resume(w)
    /\ SendOrder(w, want[w], NoAttempt)
    /\ UNCHANGED <<row, shown, charged, want, page>>

\* getPurchases answered: the attempt is over.
FoundFulfilled(w) ==
    /\ wPc[w] = "purchases"
    /\ Leave(w)
    /\ stored' = NoAttempt
    /\ page' = [page EXCEPT ![w] = att[w].order]
    /\ UNCHANGED <<row, shown, charged, handlers, usedKeys, want, cur>>

Created(w) ==
    /\ wPc[w] = "create"
    /\ hPc[cur[w]] = "done"
    /\ hAnswer[cur[w]] # Conflict
    /\ LET a == [att[w] EXCEPT !.order = hAnswer[cur[w]]]
       IN  att' = [att EXCEPT ![w] = a] /\ stored' = a
    /\ cur' = [cur EXCEPT ![w] = NoCall]
    /\ Goto(w, "invoice")
    /\ UNCHANGED <<row, shown, charged, handlers, usedKeys, want, page>>

\* POST /api/orders/:id/invoice: the status is read, then Telegram is asked
\* for the link; any other status is an error.
InvoiceRead(w) ==
    /\ wPc[w] = "invoice"
    /\ row[att[w].order].status = "pending"
    /\ Goto(w, "link")
    /\ UNCHANGED <<row, shown, charged, handlers, stored, usedKeys, want, att, cur, page>>

InvoiceOpens(w) ==
    /\ wPc[w] = "link"
    /\ Goto(w, "open")
    /\ shown' = shown \cup {att[w].order}
    /\ UNCHANGED <<row, charged, handlers, stored, usedKeys, want, att, cur, page>>

\* The buyer confirms: Telegram asks the pre-checkout handler, which accepts
\* only pending orders, takes the money and reports 'paid'.
Pay(w) ==
    /\ wPc[w] = "open"
    /\ row[att[w].order].status = "pending"
    /\ charged' = charged \cup {att[w].order}
    /\ Goto(w, "poll")
    /\ UNCHANGED <<row, shown, handlers, stored, usedKeys, want, att, cur, page>>

\* The same, reported as 'pending': every status but 'paid' ends the attempt.
PayReportedPending(w) ==
    /\ wPc[w] = "open"
    /\ row[att[w].order].status = "pending"
    /\ charged' = charged \cup {att[w].order}
    /\ stored' = NoAttempt
    /\ Leave(w)
    /\ UNCHANGED <<row, shown, handlers, usedKeys, want, cur, page>>

\* 'cancelled' or 'failed'.
NotPaid(w) ==
    /\ wPc[w] = "open"
    /\ stored' = NoAttempt
    /\ Leave(w)
    /\ UNCHANGED <<row, shown, charged, handlers, usedKeys, want, cur, page>>

\* One of the six polls finds the purchase.
PollFinds(w) ==
    /\ wPc[w] = "poll"
    /\ Fulfilled(att[w].order)
    /\ stored' = NoAttempt
    /\ page' = [page EXCEPT ![w] = att[w].order]
    /\ Leave(w)
    /\ UNCHANGED <<row, shown, charged, handlers, usedKeys, want, cur>>

PollGivesUp_Clears(w) ==
    /\ wPc[w] = "poll"
    /\ ~Fulfilled(att[w].order)
    /\ stored' = NoAttempt
    /\ page' = [page EXCEPT ![w] = att[w].order]
    /\ Leave(w)
    /\ UNCHANGED <<row, shown, charged, handlers, usedKeys, want, cur>>

PollGivesUp(w) ==
    /\ wPc[w] = "poll"
    /\ ~Fulfilled(att[w].order)
    /\ page' = [page EXCEPT ![w] = att[w].order]
    /\ Leave(w)
    /\ UNCHANGED <<row, shown, charged, handlers, stored, usedKeys, want, cur>>

\* A request is lost or answered with an error: the attempt stays stored.
Fail(w) ==
    /\ wPc[w] \in {"check", "purchases", "create", "invoice", "link", "poll"}
    /\ Leave(w)
    /\ cur' = [cur EXCEPT ![w] = NoCall]
    /\ UNCHANGED <<row, shown, charged, handlers, stored, usedKeys, want, page>>

\* The web view is closed and opened again, perhaps over an open invoice.
Reload(w) ==
    /\ Leave(w)
    /\ cur' = [cur EXCEPT ![w] = NoCall]
    /\ page' = [page EXCEPT ![w] = NoOrder]
    /\ UNCHANGED <<row, shown, charged, handlers, stored, usedKeys, want>>

\* readPending drops an attempt of PENDING_TTL_MS, 30 minutes.
Expire ==
    /\ stored # NoAttempt
    /\ stored' = NoAttempt
    /\ UNCHANGED <<row, shown, charged, handlers, usedKeys, wPc, want, att, cur, page>>

-------------------------------------------------------------------------------
(* PaymentsPage and the payment's webhook *)

HasPending(o) == stored # NoAttempt /\ stored.order = o

\* refetchInterval: poll while the shown order is the pending one.
Polling_Never(w) == FALSE

Polling(w) == page[w] # NoOrder /\ HasPending(page[w])

\* The effect clears whatever attempt is stored.
PageConfirms(w) ==
    /\ Polling(w)
    /\ Fulfilled(page[w])
    /\ stored' = NoAttempt
    /\ UNCHANGED <<row, shown, charged, handlers, usedKeys, wPc, want, att, cur, page>>

Webhook(o) ==
    /\ o \in charged
    /\ row[o].status = "pending"
    /\ row' = [row EXCEPT ![o].status = "fulfilled"]
    /\ UNCHANGED <<shown, charged, handlers, client>>

-------------------------------------------------------------------------------
Handler(c) == OrderRead(c) \/ OrderInsert(c) \/ OrderRaced(c) \/ OrderReread(c)

Checkout(w) ==
    \/ CheckedFulfilled(w) \/ CheckedPending(w) \/ StillProcessing(w) \/ Replace(w)
    \/ FoundFulfilled(w) \/ Created(w) \/ InvoiceRead(w) \/ InvoiceOpens(w)
    \/ Pay(w) \/ NotPaid(w) \/ PollFinds(w) \/ PollGivesUp(w)

\* The windows W buy the licenses L: Telegram says 'paid' of what is paid, and
\* no attempt gets too old.
Buying(W, L) ==
    \/ \E c \in Calls : Handler(c)
    \/ \E w \in W :
          \/ \E l \in L : Buy(w, l)
          \/ Checkout(w) \/ Fail(w) \/ Reload(w) \/ PageConfirms(w)
    \/ \E o \in Orders : Webhook(o)

Next ==
    \/ Buying(Windows, Licenses)
    \/ \E w \in Windows : PayReportedPending(w)
    \/ Expire

Spec == Init /\ [][Next]_vars

\* Telegram repeats the webhook until it is answered; an open page polls.
Fairness ==
    /\ \A o \in Orders : WF_vars(Webhook(o))
    /\ \A w \in Windows : WF_vars(PageConfirms(w))

FairSpec == Spec /\ Fairness

-------------------------------------------------------------------------------
(* Properties *)

\* Every variable holds a value the code can give it.
TypeOK ==
    /\ row \in [Orders -> Row \cup {NoRow}]
    /\ charged \subseteq shown
    /\ shown \subseteq Placed
    /\ hPc \in [Calls -> {"free", "read", "insert", "reread", "done"}]
    /\ hKey \in [Calls -> Keys]
    /\ hLicense \in [Calls -> Licenses]
    /\ hAnswer \in [Calls -> Orders \cup {NoOrder, Conflict}]
    /\ \A c \in Calls : hPc[c] = "done" => hAnswer[c] # NoOrder
    /\ stored \in Attempt \cup {NoAttempt}
    /\ usedKeys \in SUBSET Keys
    /\ wPc \in [Windows -> {"idle", "check", "pending", "purchases", "create",
                            "invoice", "link", "open", "poll"}]
    /\ want \in [Windows -> Licenses]
    /\ att \in [Windows -> Attempt \cup {NoAttempt}]
    /\ cur \in [Windows -> Calls \cup {NoCall}]
    /\ page \in [Windows -> Orders \cup {NoOrder}]

\* However often a click's request is sent, and whichever handlers race, the
\* key of an attempt buys one order.
OneOrderPerKey == \A k \in Keys : Cardinality(Known(k)) <= 1

\* The order an attempt learned of is the row of its own key and license, so
\* the invoice that opens is for what the buyer chose.
AttemptNamesItsOrder ==
    \A a \in {stored} \cup {att[w] : w \in Windows} :
        a # NoAttempt /\ a.order # NoOrder =>
            /\ row[a.order] # NoRow
            /\ row[a.order].key = a.key
            /\ row[a.order].license = a.license

\* Through lost answers, reloads and late webhooks, no invoice opens for a
\* license the buyer has paid for and not received yet.
NoSecondInvoice ==
    \A w \in Windows : wPc[w] = "open" =>
        \A o \in charged : row[o].license = att[w].license => Fulfilled(o)

\* A click whose order the buyer never got to see, because an answer was lost
\* or the link was refused, is taken up by the next click, not placed again.
NoForgottenOrder ==
    \A o \in Placed \ shown : stored # NoAttempt /\ stored.key = row[o].key

\* 'Telegram confirms the payment, the status will update by itself'.
Confirming(w) == page[w] # NoOrder /\ HasPending(page[w])

\* The payments page keeps its word to a buyer who paid.
PaidBannerEnds ==
    \A w \in Windows : Confirming(w) /\ page[w] \in charged ~> ~Confirming(w)

\* The payments page says that Telegram is confirming a payment only when
\* there is one (after a reload it says so of an unpaid order, too).
ConfirmingMeansPaid == \A w \in Windows : Confirming(w) => page[w] \in charged
===============================================================================
