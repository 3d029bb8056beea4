------------------------------- MODULE Payments -------------------------------
(***************************************************************************)
(* Orders, Telegram Stars payments and refunds: the handlers of            *)
(* server/app.ts that write the tables orders, entitlements and            *)
(* webhook_updates, together with Telegram, which takes and returns Stars. *)
(*                                                                         *)
(* Every handler is an Express callback that awaits the database and the   *)
(* Bot API, so handlers interleave at each await.  A database statement    *)
(* and a db.transaction are one step.  Telegram is external: it asks       *)
(* pre_checkout_query, takes the Stars, delivers successful_payment until  *)
(* it is answered, and executes refundStarPayment at any time after it was *)
(* sent, even when the caller stopped waiting or the process died.         *)
(*                                                                         *)
(* Timestamps, reasons, notes, audit rows and analytics events are left    *)
(* out: no handler of this module branches on them.                        *)
(***************************************************************************)

CONSTANTS
    Orders,         \* rows of orders, created by POST /api/orders (Checkout)
    Charges,        \* payments a buyer may start, one successful_payment each
    Refunds,        \* POST /api/admin/orders/:id/refund requests
    Reconciles,     \* POST /api/admin/orders/:id/refund/reconcile requests
    NoOrder, NoCharge,
    Truthful,       \* the owner reports what Telegram did when reconciling
    OneAtATime,     \* the owner starts no request on an order while one runs
    MayAbort        \* requests may end without an answer (crash, lost database)

ASSUME PaymentsAssumption ==
    /\ NoOrder \notin Orders
    /\ NoCharge \notin Charges
    /\ Truthful \in BOOLEAN
    /\ OneAtATime \in BOOLEAN
    /\ MayAbort \in BOOLEAN

VARIABLES
    \* tables
    status,         \* orders.status
    chargeOf,       \* orders.telegram_charge_id
    confirmed,      \* orders.refund_external_confirmed_at is set
    entitlement,    \* the entitlements row of the order: none, active, revoked
    processed,      \* webhook_updates, by the charge the update reports
    outcome,        \* per charge: how its webhook transaction ended
    \* Telegram
    phase,          \* per charge: none, query, okay, paid or void
    payFor,         \* per charge: the order its invoice payload names
    matches,        \* per charge: payer, currency and amount are the order's
    moneyBack,      \* charges whose Stars went back to the buyer
    \* refund requests in flight
    rPc, rOrder, rCharge, rCall, rReply,
    \* reconcile requests in flight
    qPc, qOrder, qReply

table    == <<status, chargeOf, confirmed, entitlement>>
inbox    == <<processed, outcome>>
telegram == <<phase, payFor, matches>>
refund   == <<rPc, rOrder, rCharge, rCall, rReply>>
reconcile == <<qPc, qOrder, qReply>>
vars == <<table, inbox, telegram, moneyBack, refund, reconcile>>

\* The statuses the code writes; "paid", "expired", "cancelled",
\* "delivery_failed" and "refund_pending" exist in the schema only.
Statuses == {"pending", "fulfilled", "refund_requested",
             "refund_manual_review", "refunded"}

\* The faulty variants below (named X_Fault beside X) are used by no action:
\* each replaces X to show that a property notices the fault.
Payable_NoGuard == {"pending", "expired", "fulfilled", "refunded"}
Finalizable_ReviewOnly == {"refund_manual_review", "refunded"}
Restorable_Refunded == {"refund_requested", "refund_manual_review", "refunded"}

Payable     == {"pending", "expired"}
Finalizable == {"refund_requested", "refund_manual_review", "refunded"}
Restorable  == {"refund_requested", "refund_manual_review"}

Init ==
    /\ status = [o \in Orders |-> "pending"]
    /\ chargeOf = [o \in Orders |-> NoCharge]
    /\ confirmed = [o \in Orders |-> FALSE]
    /\ entitlement = [o \in Orders |-> "none"]
    /\ processed = {}
    /\ outcome = [c \in Charges |-> "none"]
    /\ phase = [c \in Charges |-> "none"]
    /\ payFor = [c \in Charges |-> NoOrder]
    /\ matches = [c \in Charges |-> FALSE]
    /\ moneyBack = {}
    /\ rPc = [r \in Refunds |-> "idle"]
    /\ rOrder = [r \in Refunds |-> NoOrder]
    /\ rCharge = [r \in Refunds |-> NoCharge]
    /\ rCall = [r \in Refunds |-> "none"]
    /\ rReply = [r \in Refunds |-> "none"]
    /\ qPc = [q \in Reconciles |-> "idle"]
    /\ qOrder = [q \in Reconciles |-> NoOrder]
    /\ qReply = [q \in Reconciles |-> "none"]

-------------------------------------------------------------------------------
(* Paying *)

\* Telegram asks whether an invoice may be paid.  Any invoice payload the
\* shop ever issued can come back, any number of times and from anyone.
PreCheckoutQuery(c, o, m) ==
    /\ phase[c] = "none"
    /\ phase' = [phase EXCEPT ![c] = "query"]
    /\ payFor' = [payFor EXCEPT ![c] = o]
    /\ matches' = [matches EXCEPT ![c] = m]
    /\ UNCHANGED <<table, inbox, moneyBack, refund, reconcile>>

Approves_AnyPayer(c) == status[payFor[c]] = "pending"

Approves(c) == matches[c] /\ status[payFor[c]] = "pending"

\* The handler reads the order and answers with what it read.
PreCheckoutAnswer(c) ==
    /\ phase[c] = "query"
    /\ phase' = [phase EXCEPT ![c] = IF Approves(c) THEN "okay" ELSE "void"]
    /\ UNCHANGED <<table, inbox, payFor, matches, moneyBack, refund, reconcile>>

\* The answer is late or lost, or the buyer gives up.
PreCheckoutLapse(c) ==
    /\ phase[c] \in {"query", "okay"}
    /\ phase' = [phase EXCEPT ![c] = "void"]
    /\ UNCHANGED <<table, inbox, payFor, matches, moneyBack, refund, reconcile>>

TelegramCharge(c) ==
    /\ phase[c] = "okay"
    /\ phase' = [phase EXCEPT ![c] = "paid"]
    /\ UNCHANGED <<table, inbox, payFor, matches, moneyBack, refund, reconcile>>

Settlement(c) ==
    IF ~matches[c] THEN "invalid"
    ELSE IF status[payFor[c]] \in Payable THEN "fulfilled"
    ELSE "already_processed"

\* The transaction of the successful_payment branch.  Telegram repeats the
\* update until a 2xx; an update already in webhook_updates is answered
\* "duplicate" and changes nothing, so only the first run is a step.
WebhookPayment(c) ==
    /\ phase[c] = "paid"
    /\ c \notin processed
    /\ processed' = processed \cup {c}
    /\ outcome' = [outcome EXCEPT ![c] = Settlement(c)]
    /\ IF Settlement(c) = "fulfilled"
       THEN /\ status' = [status EXCEPT ![payFor[c]] = "fulfilled"]
            /\ chargeOf' = [chargeOf EXCEPT ![payFor[c]] = c]
            /\ entitlement' = [entitlement EXCEPT ![payFor[c]] =
                                  IF @ = "none" THEN "active" ELSE @]
       ELSE UNCHANGED <<status, chargeOf, entitlement>>
    /\ UNCHANGED <<confirmed, telegram, moneyBack, refund, reconcile>>

-------------------------------------------------------------------------------
(* The owner *)

RefundRunning(r) == rPc[r] \notin {"idle", "done"} \/ rCall[r] = "sent"

\* No request on the order is running and no refund call is undecided.
Settled(o) ==
    /\ \A r \in Refunds : rOrder[r] = o => ~RefundRunning(r)
    /\ \A q \in Reconciles : qOrder[q] = o => qPc[q] \in {"idle", "done"}

MayStart(o) == OneAtATime => Settled(o)

MayClaim(o, claim) ==
    Truthful => (claim = "confirmed" <=> chargeOf[o] \in moneyBack)

-------------------------------------------------------------------------------
(* POST /api/admin/orders/:id/refund *)

\* finalizeRefund: one transaction; it returns false, and changes nothing,
\* when the order left the refund states.  No caller looks at the result.
Finalize(o) ==
    IF status[o] \in Finalizable
    THEN /\ status' = [status EXCEPT ![o] = "refunded"]
         /\ confirmed' = [confirmed EXCEPT ![o] = TRUE]
         /\ entitlement' = [entitlement EXCEPT ![o] =
                               IF @ = "none" THEN @ ELSE "revoked"]
         /\ UNCHANGED chargeOf
    ELSE UNCHANGED table

MarkReview(o, s) ==
    /\ status' = [status EXCEPT ![o] = IF @ = "refund_requested" THEN s ELSE @]
    /\ UNCHANGED <<chargeOf, confirmed, entitlement>>

ToManualReview_Legacy(o)  == MarkReview(o, "refund_pending")
ToManualReview_Success(o) == MarkReview(o, "refunded")
ToManualReview_Restore(o) == MarkReview(o, "fulfilled")
ToManualReview_Nothing(o) == UNCHANGED table

ToManualReview(o) == MarkReview(o, "refund_manual_review")

\* The claiming update: of several requests on a fulfilled order one gets it.
RefundBegin(r, o) ==
    /\ rPc[r] = "idle"
    /\ MayStart(o)
    /\ rOrder' = [rOrder EXCEPT ![r] = o]
    /\ IF status[o] = "fulfilled"
       THEN /\ status' = [status EXCEPT ![o] = "refund_requested"]
            /\ rCharge' = [rCharge EXCEPT ![r] = chargeOf[o]]
            /\ rPc' = [rPc EXCEPT ![r] = "attempt"]
       ELSE /\ rPc' = [rPc EXCEPT ![r] = "look"]
            /\ UNCHANGED <<status, rCharge>>
    /\ UNCHANGED <<chargeOf, confirmed, entitlement, inbox, telegram, moneyBack,
                   rCall, rReply, reconcile>>

\* The claim failed: a second query says why, by the status of that moment.
RefundLook(r) ==
    /\ rPc[r] = "look"
    /\ rPc' = [rPc EXCEPT ![r] = "done"]
    /\ rReply' = [rReply EXCEPT ![r] =
                     IF status[rOrder[r]] = "refunded" THEN "ok"
                     ELSE IF status[rOrder[r]] \in Restorable THEN "reconcile"
                     ELSE "conflict"]
    /\ UNCHANGED <<table, inbox, telegram, moneyBack, rOrder, rCharge, rCall,
                   reconcile>>

\* The payer is read, refund_attempted_at is set, the call leaves.
RefundCall(r) ==
    /\ rPc[r] = "attempt"
    /\ rPc' = [rPc EXCEPT ![r] = "wait"]
    /\ rCall' = [rCall EXCEPT ![r] = "sent"]
    /\ UNCHANGED <<table, inbox, telegram, moneyBack, rOrder, rCharge, rReply,
                   reconcile>>

TelegramRefunds(r) ==
    /\ rCall[r] = "sent"
    /\ rCharge[r] \notin moneyBack
    /\ rCall' = [rCall EXCEPT ![r] = "returned"]
    /\ moneyBack' = moneyBack \cup {rCharge[r]}
    /\ UNCHANGED <<table, inbox, telegram, rPc, rOrder, rCharge, rReply, reconcile>>

\* Already refunded, or refused for a reason of Telegram's own.
TelegramRefuses(r) ==
    /\ rCall[r] = "sent"
    /\ rCall' = [rCall EXCEPT ![r] = "refused"]
    /\ UNCHANGED <<table, inbox, telegram, moneyBack, rPc, rOrder, rCharge, rReply,
                   reconcile>>

RefundConfirm(r) ==
    /\ rPc[r] = "wait"
    /\ rCall[r] = "returned"
    /\ rPc' = [rPc EXCEPT ![r] = "finalize"]
    /\ confirmed' = [confirmed EXCEPT ![rOrder[r]] =
                        @ \/ status[rOrder[r]] = "refund_requested"]
    /\ UNCHANGED <<status, chargeOf, entitlement, inbox, telegram, moneyBack,
                   rOrder, rCharge, rCall, rReply, reconcile>>

RefundFinalize(r) ==
    /\ rPc[r] = "finalize"
    /\ rPc' = [rPc EXCEPT ![r] = "answer"]
    /\ Finalize(rOrder[r])
    /\ UNCHANGED <<inbox, telegram, moneyBack, rOrder, rCharge, rCall, rReply,
                   reconcile>>

RefundAnswer(r) ==
    /\ rPc[r] = "answer"
    /\ rPc' = [rPc EXCEPT ![r] = "done"]
    /\ rReply' = [rReply EXCEPT ![r] = "ok"]
    /\ UNCHANGED <<table, inbox, telegram, moneyBack, rOrder, rCharge, rCall,
                   reconcile>>

\* Both catch blocks: the Bot API call threw (refused, or timed out whatever
\* Telegram did or will do), or the database threw while the success was being
\* recorded; at "answer" the commit happened and its acknowledgement was lost.
RefundCatch(r) ==
    /\ rPc[r] \in {"wait", "finalize", "answer"}
    /\ rPc' = [rPc EXCEPT ![r] = "done"]
    /\ rReply' = [rReply EXCEPT ![r] = "reconcile"]
    /\ ToManualReview(rOrder[r])
    /\ UNCHANGED <<inbox, telegram, moneyBack, rOrder, rCharge, rCall, reconcile>>

\* The process dies, or a statement outside the try blocks throws.
RefundAbort(r) ==
    /\ MayAbort
    /\ rPc[r] \notin {"idle", "done"}
    /\ rPc' = [rPc EXCEPT ![r] = "done"]
    /\ UNCHANGED <<table, inbox, telegram, moneyBack, rOrder, rCharge, rCall,
                   rReply, reconcile>>

-------------------------------------------------------------------------------
(* POST /api/admin/orders/:id/refund/reconcile *)

AlreadyConfirmed(o) == status[o] = "refunded" \/ confirmed[o]

\* The order is read once; everything after acts on what was read here.
ReconcileRead(q, o, claim) ==
    /\ qPc[q] = "idle"
    /\ MayStart(o)
    /\ MayClaim(o, claim)
    /\ qOrder' = [qOrder EXCEPT ![q] = o]
    /\ IF \/ status[o] = "pending"
          \/ claim = "not_refunded" /\ AlreadyConfirmed(o)
       THEN /\ qPc' = [qPc EXCEPT ![q] = "done"]
            /\ qReply' = [qReply EXCEPT ![q] = "conflict"]
       ELSE /\ qPc' = [qPc EXCEPT ![q] =
                          IF claim = "confirmed" THEN "finalize" ELSE "restore"]
            /\ UNCHANGED qReply
    /\ UNCHANGED <<table, inbox, telegram, moneyBack, refund>>

ReconcileFinalize(q) ==
    /\ qPc[q] = "finalize"
    /\ qPc' = [qPc EXCEPT ![q] = "done"]
    /\ qReply' = [qReply EXCEPT ![q] = "refunded"]
    /\ Finalize(qOrder[q])
    /\ UNCHANGED <<inbox, telegram, moneyBack, refund, qOrder>>

ReconcileRestore(q) ==
    /\ qPc[q] = "restore"
    /\ qPc' = [qPc EXCEPT ![q] = "done"]
    /\ qReply' = [qReply EXCEPT ![q] = "fulfilled"]
    /\ status' = [status EXCEPT ![qOrder[q]] =
                     IF @ \in Restorable THEN "fulfilled" ELSE @]
    /\ UNCHANGED <<chargeOf, confirmed, entitlement, inbox, telegram, moneyBack,
                   refund, qOrder>>

ReconcileAbort(q) ==
    /\ MayAbort
    /\ qPc[q] \notin {"idle", "done"}
    /\ qPc' = [qPc EXCEPT ![q] = "done"]
    /\ UNCHANGED <<table, inbox, telegram, moneyBack, refund, qOrder, qReply>>

-------------------------------------------------------------------------------
Paying(c) ==
    \/ \E o \in Orders, m \in BOOLEAN : PreCheckoutQuery(c, o, m)
    \/ PreCheckoutAnswer(c)
    \/ PreCheckoutLapse(c)
    \/ TelegramCharge(c)
    \/ WebhookPayment(c)

RefundHandler(r) ==
    \/ RefundLook(r)
    \/ RefundCall(r)
    \/ RefundConfirm(r)
    \/ RefundFinalize(r)
    \/ RefundAnswer(r)
    \/ RefundCatch(r)

Refunding(r) ==
    \/ \E o \in Orders : RefundBegin(r, o)
    \/ RefundHandler(r)
    \/ TelegramRefunds(r)
    \/ TelegramRefuses(r)
    \/ RefundAbort(r)

Reconciling(q) ==
    \/ \E o \in Orders, claim \in {"confirmed", "not_refunded"} :
           ReconcileRead(q, o, claim)
    \/ ReconcileFinalize(q)
    \/ ReconcileRestore(q)
    \/ ReconcileAbort(q)

Next ==
    \/ \E c \in Charges : Paying(c)
    \/ \E r \in Refunds : Refunding(r)
    \/ \E q \in Reconciles : Reconciling(q)

Spec == Init /\ [][Next]_vars

\* Telegram repeats an unanswered update; the event loop runs every callback
\* whose await has completed.  Nothing is promised of buyers, of the owner or
\* of when Telegram executes a refund.
Fairness ==
    /\ \A c \in Charges : WF_vars(WebhookPayment(c))
    /\ \A r \in Refunds : WF_vars(RefundHandler(r))

FairSpec == Spec /\ Fairness

-------------------------------------------------------------------------------
(* Properties *)

\* Every variable holds a value the code or Telegram can give it.
TypeOK ==
    /\ status \in [Orders -> Statuses]
    /\ chargeOf \in [Orders -> Charges \cup {NoCharge}]
    /\ confirmed \in [Orders -> BOOLEAN]
    /\ entitlement \in [Orders -> {"none", "active", "revoked"}]
    /\ processed \in SUBSET Charges
    /\ outcome \in [Charges -> {"none", "invalid", "fulfilled", "already_processed"}]
    /\ phase \in [Charges -> {"none", "query", "okay", "paid", "void"}]
    /\ payFor \in [Charges -> Orders \cup {NoOrder}]
    /\ matches \in [Charges -> BOOLEAN]
    /\ moneyBack \in SUBSET Charges
    /\ rPc \in [Refunds -> {"idle", "look", "attempt", "wait", "finalize",
                            "answer", "done"}]
    /\ rOrder \in [Refunds -> Orders \cup {NoOrder}]
    /\ rCharge \in [Refunds -> Charges \cup {NoCharge}]
    /\ rCall \in [Refunds -> {"none", "sent", "returned", "refused"}]
    /\ rReply \in [Refunds -> {"none", "ok", "reconcile", "conflict"}]
    /\ qPc \in [Reconciles -> {"idle", "finalize", "restore", "done"}]
    /\ qOrder \in [Reconciles -> Orders \cup {NoOrder}]
    /\ qReply \in [Reconciles -> {"none", "conflict", "refunded", "fulfilled"}]

\* Two tables that no constraint ties together agree whatever handlers
\* interleave: a buyer has access exactly while the order is bought and not
\* refunded, and a refunded order has lost it (app.ts: webhook, finalizeRefund).
EntitlementMatchesOrder ==
    \A o \in Orders :
        /\ entitlement[o] = "none" <=> status[o] = "pending"
        /\ entitlement[o] = "revoked" <=> status[o] = "refunded"

\* The charge an order records was taken from its owner for this order, and
\* the buyer was told "fulfilled" for that charge and no other.
ChargeOwnership ==
    \A o \in Orders : status[o] # "pending" =>
        /\ chargeOf[o] \in processed
        /\ \A c \in processed :
              (payFor[c] = o /\ outcome[c] = "fulfilled") <=> c = chargeOf[o]

\* Once the update id of a payment is recorded Telegram's redelivery can no
\* longer help, so by then the order it pays must be bought; in particular a
\* payment approved by pre_checkout is never thrown away as "invalid".
NoPaymentDropped ==
    \A c \in processed : outcome[c] # "invalid" /\ status[payFor[c]] # "pending"

\* Every payment that was taken bought its order (it is not so: two pre-checkouts
\* may be approved before either is charged, and the second payment is recorded
\* as already processed; webhook handler).
EveryPaymentBuys == \A c \in processed : outcome[c] = "fulfilled"

\* Stars only ever go back for the charge that bought the order.
MoneyBackForBoughtOrder ==
    \A c \in moneyBack : chargeOf[payFor[c]] = c /\ status[payFor[c]] # "pending"

\* No step takes an order out of "refunded" or changes the charge it records.
RefundedIsFinal ==
    [][\A o \in Orders :
          /\ status[o] = "refunded" => status'[o] = "refunded"
          /\ chargeOf[o] # NoCharge => chargeOf'[o] = chargeOf[o]]_vars

\* With an owner who reports what Telegram did, a refunded order means the
\* buyer has the Stars back: access is never revoked for nothing.
RefundedMeansMoneyBack ==
    \A o \in Orders : status[o] = "refunded" => chargeOf[o] \in moneyBack

\* A confirmed external refund cannot be cancelled (the 409 of the reconcile
\* handler): an order whose confirmation is recorded never returns to
\* "fulfilled".
ConfirmedNotCancelled ==
    [][\A o \in Orders :
          confirmed[o] /\ status[o] # "fulfilled" => status'[o] # "fulfilled"]_vars

\* A refund request answered with ok left the order refunded.
RefundReplyHonest ==
    \A r \in Refunds : rReply[r] = "ok" => status[rOrder[r]] = "refunded"

\* A reconciliation answered with status "refunded" left the order refunded.
ReconcileReplyHonest ==
    \A q \in Reconciles : qReply[q] = "refunded" => status[qOrder[q]] = "refunded"

\* What the owner is told is true: "ok" and "refunded" mean a refunded order.
RepliesHonest == RefundReplyHonest /\ ReconcileReplyHonest

\* When nothing is running on an order whose Stars went back, the order is
\* refunded or waits for the owner, never back on sale to the same buyer.
MoneyBackNotFulfilled ==
    \A o \in Orders :
        Settled(o) /\ chargeOf[o] \in moneyBack => status[o] # "fulfilled"

\* A buyer whose Stars were taken gets the order.
PaidGetsAccess ==
    \A c \in Charges : phase[c] = "paid" ~>
        c \in processed /\ entitlement[payFor[c]] # "none"

\* A request that ended without an answer: its process died under it.
Died(r) == rPc[r] = "done" /\ rReply[r] = "none"

\* Unless its request dies an order does not stay in "refund_requested": it is
\* refunded, handed to the owner for review, or restored.
RefundRequestEnds ==
    \A o \in Orders :
        status[o] = "refund_requested" ~>
            \/ status[o] # "refund_requested"
            \/ \E r \in Refunds : rOrder[r] = o /\ Died(r)

\* What was begun with money ends: a payment in access, a refund in a decision.
PaymentsEnd == PaidGetsAccess /\ RefundRequestEnds

\* Payments implements the contract with the buyer.
Contract == INSTANCE OrderContract WITH
    taken    <- {<<c, payFor[c]>> : c \in {x \in Charges : phase[x] = "paid"}},
    returned <- moneyBack,
    access   <- entitlement,
    paidBy   <- chargeOf

ContractSpec == Contract!Spec
===============================================================================
