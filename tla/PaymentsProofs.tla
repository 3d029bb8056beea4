---------------------------- MODULE PaymentsProofs ----------------------------
(***************************************************************************)
(* Proofs about Payments for any number of orders, charges and requests,   *)
(* whatever the owner does and whenever requests die.                      *)
(***************************************************************************)
EXTENDS Payments, TLAPS

\* A charge past the question names an order, and one that may be or was
\* taken passed the payer check.
ChargeInv ==
    \A c \in Charges :
        /\ phase[c] # "none" => payFor[c] \in Orders
        /\ phase[c] \in {"okay", "paid"} => matches[c]
        /\ c \in processed => phase[c] = "paid"
        /\ c \notin processed => outcome[c] = "none" /\ c \notin moneyBack

\* An order that is not bought has no charge.
OrderInv ==
    \A o \in Orders : status[o] = "pending" => chargeOf[o] = NoCharge

\* A refund request that claimed an order holds the charge that bought it.
RefundInv ==
    \A r \in Refunds :
        /\ rPc[r] # "idle" => rOrder[r] \in Orders
        /\ rPc[r] \in {"idle", "look"} => rCall[r] = "none"
        /\ rPc[r] \in {"attempt", "wait", "finalize", "answer"} \/ rCall[r] # "none" =>
              /\ status[rOrder[r]] # "pending"
              /\ rCharge[r] = chargeOf[rOrder[r]]

\* A reconciliation past its read works on an order that was bought.
ReconcileInv ==
    \A q \in Reconciles : qPc[q] \in {"finalize", "restore"} =>
        qOrder[q] \in Orders /\ status[qOrder[q]] # "pending"

IInv ==
    /\ TypeOK
    /\ ChargeInv
    /\ OrderInv
    /\ RefundInv
    /\ ReconcileInv
    /\ EntitlementMatchesOrder
    /\ ChargeOwnership
    /\ NoPaymentDropped
    /\ MoneyBackForBoughtOrder

USE PaymentsAssumption

LEMMA InitInv == Init => IInv
  BY DEF Init, IInv, TypeOK, ChargeInv, OrderInv, RefundInv, ReconcileInv,
         EntitlementMatchesOrder, ChargeOwnership, NoPaymentDropped,
         MoneyBackForBoughtOrder, Statuses

LEMMA PayingInv ==
  ASSUME NEW c \in Charges, IInv, Paying(c)
  PROVE  IInv'
<1> USE DEF IInv, Statuses, table, inbox, telegram, refund, reconcile
<1>1. ASSUME NEW o \in Orders, NEW m \in BOOLEAN, PreCheckoutQuery(c, o, m)
      PROVE  IInv'
  <2>1. TypeOK' BY <1>1 DEF PreCheckoutQuery, TypeOK
  <2>2. ChargeInv' BY <1>1 DEF PreCheckoutQuery, TypeOK, ChargeInv
  <2>3. (ChargeOwnership /\ NoPaymentDropped /\ MoneyBackForBoughtOrder)'
    BY <1>1 DEF PreCheckoutQuery, TypeOK, ChargeInv, OrderInv, ChargeOwnership,
                NoPaymentDropped, MoneyBackForBoughtOrder
  <2> QED BY <1>1, <2>1, <2>2, <2>3
          DEF PreCheckoutQuery, OrderInv, RefundInv, ReconcileInv,
              EntitlementMatchesOrder
<1>2. ASSUME PreCheckoutAnswer(c) \/ PreCheckoutLapse(c) \/ TelegramCharge(c)
      PROVE  IInv'
  <2> USE DEF PreCheckoutAnswer, PreCheckoutLapse, TelegramCharge, Approves
  <2>1. TypeOK' BY <1>2 DEF TypeOK
  <2>2. ChargeInv' BY <1>2 DEF TypeOK, ChargeInv
  <2> QED BY <1>2, <2>1, <2>2
          DEF OrderInv, RefundInv, ReconcileInv, EntitlementMatchesOrder,
              ChargeOwnership, NoPaymentDropped, MoneyBackForBoughtOrder
<1>3. ASSUME WebhookPayment(c) PROVE IInv'
  <2> DEFINE o == payFor[c]
  <2>0. o \in Orders /\ matches[c] /\ c \notin processed /\ outcome[c] = "none"
    BY <1>3 DEF WebhookPayment, ChargeInv
  <2>1. CASE status[o] = "pending"
    <3>1. /\ Settlement(c) = "fulfilled"
          /\ status' = [status EXCEPT ![o] = "fulfilled"]
          /\ chargeOf' = [chargeOf EXCEPT ![o] = c]
          /\ entitlement' = [entitlement EXCEPT ![o] = "active"]
      BY <1>3, <2>0, <2>1
         DEF WebhookPayment, Settlement, Payable, TypeOK, EntitlementMatchesOrder
    <3>2. TypeOK' BY <1>3, <3>1, <2>0 DEF WebhookPayment, TypeOK
    <3>3. (ChargeInv /\ OrderInv /\ RefundInv /\ ReconcileInv)'
      BY <1>3, <3>1, <2>0, <2>1
         DEF WebhookPayment, TypeOK, ChargeInv, OrderInv, RefundInv, ReconcileInv
    <3>4. (EntitlementMatchesOrder /\ NoPaymentDropped)'
      BY <1>3, <3>1, <2>0, <2>1
         DEF WebhookPayment, TypeOK, ChargeInv, EntitlementMatchesOrder,
             NoPaymentDropped
    <3>5. ChargeOwnership'
      BY <1>3, <3>1, <2>0, <2>1
         DEF WebhookPayment, TypeOK, ChargeInv, ChargeOwnership, NoPaymentDropped
    <3>6. MoneyBackForBoughtOrder'
      BY <1>3, <3>1, <2>0, <2>1
         DEF WebhookPayment, TypeOK, MoneyBackForBoughtOrder
    <3> QED BY <3>2, <3>3, <3>4, <3>5, <3>6
  <2>2. CASE status[o] # "pending"
    <3>1. /\ Settlement(c) = "already_processed"
          /\ UNCHANGED <<status, chargeOf, entitlement>>
      BY <1>3, <2>0, <2>2 DEF WebhookPayment, Settlement, Payable, TypeOK
    <3>2. TypeOK' BY <1>3, <3>1 DEF WebhookPayment, TypeOK
    <3>3. (ChargeInv /\ OrderInv /\ RefundInv /\ ReconcileInv)'
      BY <1>3, <3>1, <2>0
         DEF WebhookPayment, TypeOK, ChargeInv, OrderInv, RefundInv, ReconcileInv
    <3>4. (EntitlementMatchesOrder /\ NoPaymentDropped /\ MoneyBackForBoughtOrder)'
      BY <1>3, <3>1, <2>0, <2>2
         DEF WebhookPayment, TypeOK, EntitlementMatchesOrder, NoPaymentDropped,
             MoneyBackForBoughtOrder
    <3>5. ChargeOwnership'
      BY <1>3, <3>1, <2>0, <2>2
         DEF WebhookPayment, TypeOK, ChargeOwnership
    <3> QED BY <3>2, <3>3, <3>4, <3>5
  <2> QED BY <2>1, <2>2
<1> QED BY <1>1, <1>2, <1>3 DEF Paying

-------------------------------------------------------------------------------
\* What every step of the owner's requests does to the tables: orders move
\* among the bought statuses, their charges stay, entitlements follow.
OrderStep ==
    /\ status' \in [Orders -> Statuses]
    /\ \A o \in Orders : status'[o] = "pending" <=> status[o] = "pending"
    /\ \A o \in Orders : status[o] = "refunded" => status'[o] = "refunded"
    /\ chargeOf' = chargeOf
    /\ confirmed' \in [Orders -> BOOLEAN]
    /\ entitlement' \in [Orders -> {"none", "active", "revoked"}]
    /\ EntitlementMatchesOrder'
    /\ \/ entitlement' = entitlement
       \/ \E o \in Orders :
             /\ entitlement[o] = "active"
             /\ entitlement' = [entitlement EXCEPT ![o] = "revoked"]

LEMMA FinalizeIsOrderStep ==
  ASSUME IInv, NEW o \in Orders, status[o] # "pending", Finalize(o)
  PROVE  OrderStep
<1> USE DEF IInv, TypeOK, Finalize, Finalizable, table
<1>1. CASE status[o] \in Finalizable
  <2>1. /\ status' = [status EXCEPT ![o] = "refunded"]
        /\ confirmed' = [confirmed EXCEPT ![o] = TRUE]
        /\ entitlement' = [entitlement EXCEPT ![o] = "revoked"]
        /\ chargeOf' = chargeOf
    BY <1>1 DEF EntitlementMatchesOrder
  <2>2. \/ entitlement[o] = "active"
        \/ entitlement' = entitlement
    BY <1>1, <2>1 DEF EntitlementMatchesOrder
  <2>3. \/ entitlement' = entitlement
        \/ \E p \in Orders :
              /\ entitlement[p] = "active"
              /\ entitlement' = [entitlement EXCEPT ![p] = "revoked"]
    BY <2>1, <2>2
  <2>4. EntitlementMatchesOrder'
    BY <2>1 DEF EntitlementMatchesOrder
  <2> QED BY <2>1, <2>3, <2>4 DEF OrderStep, Statuses
<1>2. CASE status[o] \notin Finalizable
  BY <1>2 DEF OrderStep, EntitlementMatchesOrder
<1> QED BY <1>1, <1>2

\* A change of status among the bought, not refunded statuses.
LEMMA MoveIsOrderStep ==
  ASSUME IInv, NEW o \in Orders, NEW s \in Statuses \ {"pending", "refunded"},
         status[o] \notin {"pending", "refunded"},
         status' = [status EXCEPT ![o] = s],
         UNCHANGED <<chargeOf, confirmed, entitlement>>
  PROVE  OrderStep
  BY DEF IInv, TypeOK, OrderStep, EntitlementMatchesOrder, Statuses

LEMMA SameIsOrderStep ==
  ASSUME IInv, UNCHANGED table
  PROVE  OrderStep
  BY DEF IInv, TypeOK, OrderStep, EntitlementMatchesOrder, table

LEMMA OrderStepKeeps ==
  ASSUME IInv, OrderStep, UNCHANGED <<inbox, telegram, moneyBack>>
  PROVE  /\ (ChargeInv /\ OrderInv /\ ChargeOwnership)'
         /\ (NoPaymentDropped /\ MoneyBackForBoughtOrder)'
<1> USE DEF IInv, OrderStep, inbox, telegram
<1>1. (ChargeInv /\ OrderInv /\ ChargeOwnership)'
  BY DEF ChargeInv, OrderInv, ChargeOwnership
<1>2. \A c \in processed : payFor[c] \in Orders
  BY DEF ChargeInv, TypeOK
<1>3. moneyBack \subseteq processed
  BY DEF ChargeInv, TypeOK
<1> QED
  BY <1>1, <1>2, <1>3 DEF NoPaymentDropped, MoneyBackForBoughtOrder

LEMMA ReconcilingStep ==
  ASSUME NEW q \in Reconciles, IInv, Reconciling(q)
  PROVE  OrderStep /\ UNCHANGED <<inbox, telegram, moneyBack, refund>>
<1>1. ASSUME NEW o \in Orders, NEW claim \in {"confirmed", "not_refunded"},
             ReconcileRead(q, o, claim)
      PROVE  OrderStep /\ UNCHANGED <<inbox, telegram, moneyBack, refund>>
  BY <1>1, SameIsOrderStep DEF ReconcileRead
<1>2. ASSUME ReconcileFinalize(q)
      PROVE  OrderStep /\ UNCHANGED <<inbox, telegram, moneyBack, refund>>
  BY <1>2, FinalizeIsOrderStep DEF ReconcileFinalize, IInv, ReconcileInv
<1>3. ASSUME ReconcileRestore(q)
      PROVE  OrderStep /\ UNCHANGED <<inbox, telegram, moneyBack, refund>>
  <2>1. qOrder[q] \in Orders
    BY <1>3 DEF ReconcileRestore, IInv, ReconcileInv
  <2>2. CASE status[qOrder[q]] \in Restorable
    <3>1. status' = [status EXCEPT ![qOrder[q]] = "fulfilled"]
      BY <1>3, <2>2 DEF ReconcileRestore
    <3> QED
      BY <1>3, <2>1, <2>2, <3>1, MoveIsOrderStep
         DEF ReconcileRestore, Restorable, Statuses
  <2>3. CASE status[qOrder[q]] \notin Restorable
    <3>1. status' = status
      BY <1>3, <2>1, <2>3 DEF ReconcileRestore, IInv, TypeOK
    <3> QED BY <1>3, <3>1, SameIsOrderStep DEF ReconcileRestore, table
  <2> QED BY <2>2, <2>3
<1>4. ASSUME ReconcileAbort(q)
      PROVE  OrderStep /\ UNCHANGED <<inbox, telegram, moneyBack, refund>>
  BY <1>4, SameIsOrderStep DEF ReconcileAbort
<1> QED BY <1>1, <1>2, <1>3, <1>4 DEF Reconciling

LEMMA ReconcilingInv ==
  ASSUME NEW q \in Reconciles, IInv, Reconciling(q)
  PROVE  IInv'
<1>1. OrderStep /\ UNCHANGED <<inbox, telegram, moneyBack, refund>>
  BY ReconcilingStep
<1>2. /\ qPc' \in [Reconciles -> {"idle", "finalize", "restore", "done"}]
      /\ qOrder' \in [Reconciles -> Orders \cup {NoOrder}]
      /\ qReply' \in [Reconciles -> {"none", "conflict", "refunded", "fulfilled"}]
  BY DEF IInv, TypeOK, Reconciling, ReconcileRead, ReconcileFinalize,
         ReconcileRestore, ReconcileAbort
<1>3. TypeOK'
  BY <1>1, <1>2 DEF IInv, TypeOK, OrderStep, inbox, telegram, refund
<1>4. RefundInv'
  BY <1>1 DEF IInv, RefundInv, OrderStep, refund
<1>5. ReconcileInv'
  <2>1. \A p \in Reconciles \ {q} : qPc'[p] = qPc[p] /\ qOrder'[p] = qOrder[p]
    BY DEF IInv, TypeOK, Reconciling, ReconcileRead, ReconcileFinalize,
           ReconcileRestore, ReconcileAbort
  <2>2. qPc'[q] \in {"finalize", "restore"} =>
            qOrder'[q] \in Orders /\ status[qOrder'[q]] # "pending"
    BY DEF IInv, TypeOK, Reconciling, ReconcileRead, ReconcileFinalize,
           ReconcileRestore, ReconcileAbort
  <2> QED BY <1>1, <2>1, <2>2 DEF IInv, ReconcileInv, OrderStep
<1> QED BY <1>1, <1>3, <1>4, <1>5, OrderStepKeeps DEF IInv, OrderStep

LEMMA RefundingStep ==
  ASSUME NEW r \in Refunds, IInv, Refunding(r)
  PROVE  OrderStep /\ UNCHANGED <<inbox, telegram, reconcile>>
<1> USE DEF IInv
<1>1. ASSUME NEW o \in Orders, RefundBegin(r, o)
      PROVE  OrderStep /\ UNCHANGED <<inbox, telegram, reconcile>>
  <2>1. CASE status[o] = "fulfilled"
    BY <1>1, <2>1, MoveIsOrderStep DEF RefundBegin, Statuses
  <2>2. CASE status[o] # "fulfilled"
    BY <1>1, <2>2, SameIsOrderStep DEF RefundBegin, table
  <2> QED BY <2>1, <2>2
<1>2. ASSUME RefundLook(r) \/ RefundCall(r) \/ RefundAnswer(r) \/ RefundAbort(r)
               \/ TelegramRefunds(r) \/ TelegramRefuses(r)
      PROVE  OrderStep /\ UNCHANGED <<inbox, telegram, reconcile>>
  BY <1>2, SameIsOrderStep
     DEF RefundLook, RefundCall, RefundAnswer, RefundAbort, TelegramRefunds,
         TelegramRefuses
<1>3. ASSUME RefundConfirm(r)
      PROVE  OrderStep /\ UNCHANGED <<inbox, telegram, reconcile>>
  BY <1>3 DEF RefundConfirm, OrderStep, TypeOK, EntitlementMatchesOrder
<1>4. ASSUME RefundFinalize(r)
      PROVE  OrderStep /\ UNCHANGED <<inbox, telegram, reconcile>>
  BY <1>4, FinalizeIsOrderStep DEF RefundFinalize, RefundInv
<1>5. ASSUME RefundCatch(r)
      PROVE  OrderStep /\ UNCHANGED <<inbox, telegram, reconcile>>
  <2>1. rOrder[r] \in Orders
    BY <1>5 DEF RefundCatch, RefundInv
  <2>2. CASE status[rOrder[r]] = "refund_requested"
    <3>1. status' = [status EXCEPT ![rOrder[r]] = "refund_manual_review"]
      BY <1>5, <2>2 DEF RefundCatch, ToManualReview, MarkReview
    <3> QED
      BY <1>5, <2>1, <2>2, <3>1, MoveIsOrderStep
         DEF RefundCatch, ToManualReview, MarkReview, Statuses
  <2>3. CASE status[rOrder[r]] # "refund_requested"
    <3>1. status' = status
      BY <1>5, <2>1, <2>3 DEF RefundCatch, ToManualReview, MarkReview, TypeOK
    <3> QED
      BY <1>5, <3>1, SameIsOrderStep
         DEF RefundCatch, ToManualReview, MarkReview, table
  <2> QED BY <2>2, <2>3
<1> QED
  BY <1>1, <1>2, <1>3, <1>4, <1>5 DEF Refunding, RefundHandler

LEMMA RefundingInv ==
  ASSUME NEW r \in Refunds, IInv, Refunding(r)
  PROVE  IInv'
<1> USE DEF IInv
<1>1. OrderStep /\ UNCHANGED <<inbox, telegram, reconcile>>
  BY RefundingStep
<1>2. CASE TelegramRefunds(r)
  <2> USE <1>2 DEF TelegramRefunds, table, inbox, telegram, reconcile
  <2> DEFINE o == rOrder[r]
  <2>1. /\ o \in Orders
        /\ status[o] # "pending"
        /\ rCharge[r] = chargeOf[o]
    BY DEF RefundInv, TypeOK
  <2>2. /\ rCharge[r] \in processed
        /\ payFor[rCharge[r]] = o
    BY <2>1 DEF ChargeOwnership
  <2>3. TypeOK'
    BY <2>2 DEF TypeOK
  <2>4. (ChargeInv /\ MoneyBackForBoughtOrder)'
    BY <2>1, <2>2 DEF ChargeInv, MoneyBackForBoughtOrder, TypeOK
  <2>5. RefundInv'
    BY DEF RefundInv, TypeOK
  <2> QED
    BY <2>3, <2>4, <2>5
       DEF OrderInv, ReconcileInv, EntitlementMatchesOrder, ChargeOwnership,
           NoPaymentDropped
<1>3. CASE ~TelegramRefunds(r)
  <2> USE DEF Refunding, RefundHandler, RefundBegin, RefundLook, RefundCall,
              RefundAnswer, RefundConfirm, RefundFinalize, RefundCatch,
              RefundAbort, TelegramRefuses
  <2>1. UNCHANGED moneyBack
    BY <1>3
  <2>2. /\ rPc' \in [Refunds -> {"idle", "look", "attempt", "wait", "finalize",
                                 "answer", "done"}]
        /\ rOrder' \in [Refunds -> Orders \cup {NoOrder}]
        /\ rCharge' \in [Refunds -> Charges \cup {NoCharge}]
        /\ rCall' \in [Refunds -> {"none", "sent", "returned", "refused"}]
        /\ rReply' \in [Refunds -> {"none", "ok", "reconcile", "conflict"}]
    BY <1>3 DEF TypeOK
  <2>3. TypeOK'
    BY <1>1, <2>1, <2>2 DEF TypeOK, OrderStep, inbox, telegram, reconcile
  <2>4. RefundInv'
    <3>1. \A s \in Refunds \ {r} :
              /\ rPc'[s] = rPc[s]
              /\ rOrder'[s] = rOrder[s]
              /\ rCharge'[s] = rCharge[s]
              /\ rCall'[s] = rCall[s]
      BY <1>3 DEF TypeOK
    <3>2. /\ rPc'[r] # "idle" => rOrder'[r] \in Orders
          /\ rPc'[r] \in {"idle", "look"} => rCall'[r] = "none"
          /\ rPc'[r] \in {"attempt", "wait", "finalize", "answer"}
               \/ rCall'[r] # "none" =>
                /\ status[rOrder'[r]] # "pending"
                /\ rCharge'[r] = chargeOf[rOrder'[r]]
      BY <1>3 DEF TypeOK, RefundInv
    <3>3. /\ \A s \in Refunds : rPc[s] # "idle" => rOrder[s] \in Orders
          /\ \A s \in Refunds : rCall'[s] # "none" => rPc'[s] # "idle"
      BY <3>1, <3>2 DEF RefundInv
    <3> QED BY <1>1, <3>1, <3>2, <3>3 DEF RefundInv, OrderStep
  <2>5. ReconcileInv'
    BY <1>1 DEF ReconcileInv, OrderStep, reconcile
  <2> QED BY <1>1, <2>1, <2>3, <2>4, <2>5, OrderStepKeeps DEF OrderStep
<1> QED BY <1>2, <1>3

-------------------------------------------------------------------------------
LEMMA Inductive == Spec => []IInv
<1>1. IInv /\ [Next]_vars => IInv'
  <2>1. ASSUME IInv, Next PROVE IInv'
    BY <2>1, PayingInv, RefundingInv, ReconcilingInv DEF Next
  <2>2. ASSUME IInv, UNCHANGED vars PROVE IInv'
    BY <2>2 DEF vars, table, inbox, telegram, refund, reconcile, IInv, TypeOK,
       ChargeInv, OrderInv, RefundInv, ReconcileInv, EntitlementMatchesOrder,
       ChargeOwnership, NoPaymentDropped, MoneyBackForBoughtOrder
  <2> QED BY <2>1, <2>2
<1> QED BY InitInv, <1>1, PTL DEF Spec

\* Every variable keeps its type.
THEOREM TypeCorrect == Spec => []TypeOK
  BY Inductive, PTL DEF IInv

\* Access and order status agree after every step: no interleaving of
\* webhooks, refunds and reconciliations leaves a refunded order readable or a
\* bought one locked.
THEOREM EntitlementsFollowOrders == Spec => []EntitlementMatchesOrder
  BY Inductive, PTL DEF IInv

\* The charge of an order is one the buyer paid for it, and the only one that
\* was answered "fulfilled".
THEOREM ChargesBelongToOrders == Spec => []ChargeOwnership
  BY Inductive, PTL DEF IInv

\* A payment whose update is recorded bought its order or found it bought.
THEOREM PaymentsAreKept == Spec => []NoPaymentDropped
  BY Inductive, PTL DEF IInv

\* refundStarPayment never returns Stars that did not buy an order.
THEOREM RefundsReturnTheRightCharge == Spec => []MoneyBackForBoughtOrder
  BY Inductive, PTL DEF IInv

\* What RefundedIsFinal says of one step.
Keeps ==
    \A o \in Orders :
        /\ status[o] = "refunded" => status'[o] = "refunded"
        /\ chargeOf[o] # NoCharge => chargeOf'[o] = chargeOf[o]

LEMMA StepKeeps ==
  ASSUME IInv, Next
  PROVE  Keeps
<1>1. ASSUME NEW c \in Charges, Paying(c) PROVE Keeps
  <2>1. CASE WebhookPayment(c)
    <3>1. CASE Settlement(c) = "fulfilled"
      <4>1. status[payFor[c]] = "pending"
        BY <2>1, <3>1 DEF WebhookPayment, Settlement, Payable, IInv, TypeOK,
                          Statuses, ChargeInv
      <4> QED
        BY <2>1, <4>1 DEF WebhookPayment, IInv, TypeOK, OrderInv, Keeps
    <3>2. CASE Settlement(c) # "fulfilled"
      BY <2>1, <3>2 DEF WebhookPayment, Keeps
    <3> QED BY <3>1, <3>2
  <2>2. CASE ~WebhookPayment(c)
    <3>1. UNCHANGED table
      BY <1>1, <2>2 DEF Paying, PreCheckoutQuery, PreCheckoutAnswer,
         PreCheckoutLapse, TelegramCharge
    <3> QED BY <3>1 DEF table, Keeps
  <2> QED BY <2>1, <2>2
<1>2. ASSUME OrderStep PROVE Keeps
  BY <1>2 DEF OrderStep, Keeps
<1> QED
  BY <1>1, <1>2, RefundingStep, ReconcilingStep DEF Next

\* "refunded" is left by no step and a recorded charge is never replaced.
THEOREM RefundsAreFinal == Spec => RefundedIsFinal
  BY StepKeeps, Inductive, PTL DEF Spec, RefundedIsFinal, Keeps

-------------------------------------------------------------------------------
\* The handlers keep the contract with the buyer: access once, for Stars taken
\* for that order, ended once; Stars back once.
THEOREM ImplementsContract == Spec => ContractSpec
<1> DEFINE Stars == {<<c, payFor[c]>> : c \in {x \in Charges : phase[x] = "paid"}}
<1>1. Init => Contract!Init
  BY DEF Init, Contract!Init
<1>2. ASSUME IInv, Next PROVE Contract!Next \/ UNCHANGED Contract!cvars
  <2> USE <1>2 DEF IInv, table, inbox, telegram
  <2>1. ASSUME NEW c \in Charges, Paying(c)
        PROVE  Contract!Next \/ UNCHANGED Contract!cvars
    <3>1. CASE WebhookPayment(c)
      <4> DEFINE o == payFor[c]
      <4>1. o \in Orders /\ UNCHANGED <<moneyBack, phase, payFor>>
        BY <3>1 DEF WebhookPayment, ChargeInv
      <4>2. CASE Settlement(c) = "fulfilled"
        <5>1. /\ entitlement[o] = "none"
              /\ entitlement' = [entitlement EXCEPT ![o] = "active"]
              /\ chargeOf' = [chargeOf EXCEPT ![o] = c]
          BY <3>1, <4>1, <4>2
             DEF WebhookPayment, Settlement, Payable, TypeOK, Statuses,
                 EntitlementMatchesOrder
        <5>2. <<c, o>> \in Stars
          BY <3>1 DEF WebhookPayment
        <5>3. Contract!Grant(c, o)
          BY <4>1, <5>1, <5>2 DEF Contract!Grant
        <5> QED BY <4>1, <5>3 DEF Contract!Next
      <4>3. CASE Settlement(c) # "fulfilled"
        BY <3>1, <4>1, <4>3 DEF WebhookPayment, Contract!cvars
      <4> QED BY <4>2, <4>3
    <3>2. CASE TelegramCharge(c)
      <4>1. payFor[c] \in Orders /\ UNCHANGED <<payFor, moneyBack, entitlement, chargeOf>>
        BY <3>2 DEF TelegramCharge, ChargeInv
      <4>2. \A p \in Orders : <<c, p>> \notin Stars
        BY <3>2 DEF TelegramCharge
      <4>3. Stars' = Stars \cup {<<c, payFor[c]>>}
        BY <3>2, <4>1 DEF TelegramCharge, TypeOK
      <4>4. PICK p \in Orders : p = payFor[c]
        BY <4>1
      <4>5. Contract!Take(c, p)
        BY <4>1, <4>2, <4>3, <4>4 DEF Contract!Take
      <4> QED BY <4>5 DEF Contract!Next
    <3>3. CASE ~WebhookPayment(c) /\ ~TelegramCharge(c)
      <4>1. UNCHANGED <<moneyBack, entitlement, chargeOf>>
        BY <2>1, <3>3 DEF Paying, PreCheckoutQuery, PreCheckoutAnswer,
                          PreCheckoutLapse
      <4>2. \A d \in Charges : /\ phase'[d] = "paid" <=> phase[d] = "paid"
                               /\ phase[d] = "paid" => payFor'[d] = payFor[d]
        BY <2>1, <3>3 DEF Paying, PreCheckoutQuery, PreCheckoutAnswer,
                          PreCheckoutLapse, TypeOK
      <4>3. Stars' = Stars
        BY <4>2
      <4> QED BY <4>1, <4>3 DEF Contract!cvars
    <3> QED BY <3>1, <3>2, <3>3
  <2>2. ASSUME OrderStep, UNCHANGED <<telegram, moneyBack>>
        PROVE  Contract!Next \/ UNCHANGED Contract!cvars
    <3>1. CASE entitlement' = entitlement
      BY <2>2, <3>1 DEF OrderStep, Contract!cvars
    <3>2. ASSUME NEW o \in Orders, entitlement[o] = "active",
                 entitlement' = [entitlement EXCEPT ![o] = "revoked"]
          PROVE  Contract!Revoke(o)
      BY <2>2, <3>2 DEF OrderStep, Contract!Revoke
    <3> QED BY <2>2, <3>1, <3>2 DEF OrderStep, Contract!Next
  <2>3. ASSUME NEW r \in Refunds, Refunding(r)
        PROVE  Contract!Next \/ UNCHANGED Contract!cvars
    <3>1. CASE TelegramRefunds(r)
      <4> DEFINE o == rOrder[r]
      <4>1. /\ o \in Orders
            /\ chargeOf[o] \in Charges
            /\ rCharge[r] = chargeOf[o]
        BY <3>1 DEF TelegramRefunds, RefundInv, ChargeOwnership, TypeOK
      <4>2. Contract!Return(chargeOf[o], o)
        BY <3>1, <4>1 DEF TelegramRefunds, Contract!Return
      <4> QED BY <4>1, <4>2 DEF Contract!Next
    <3>2. CASE ~TelegramRefunds(r)
      <4>1. UNCHANGED moneyBack
        BY <2>3, <3>2
           DEF Refunding, RefundHandler, RefundBegin, RefundLook, RefundCall,
               RefundAnswer, RefundConfirm, RefundFinalize, RefundCatch,
               RefundAbort, TelegramRefuses
      <4> QED BY <1>2, <2>2, <2>3, <4>1, RefundingStep
    <3> QED BY <3>1, <3>2
  <2>4. ASSUME NEW q \in Reconciles, Reconciling(q)
        PROVE  Contract!Next \/ UNCHANGED Contract!cvars
    BY <1>2, <2>2, <2>4, ReconcilingStep
  <2> QED BY <1>2, <2>1, <2>3, <2>4 DEF Next
<1>3. ASSUME UNCHANGED vars PROVE UNCHANGED Contract!cvars
  BY <1>3 DEF vars, table, telegram, Contract!cvars
<1>4. IInv /\ [Next]_vars => [Contract!Next]_(Contract!cvars)
  BY <1>2, <1>3
<1> QED BY <1>1, <1>4, Inductive, PTL DEF Spec, ContractSpec, Contract!Spec

-------------------------------------------------------------------------------
\* What an owner who reports the truth adds: whoever may finalize a refund has
\* the evidence that the Stars went back.
TruthInv ==
    /\ RefundedMeansMoneyBack
    /\ \A r \in Refunds :
          rCall[r] = "returned" \/ rPc[r] \in {"finalize", "answer"} =>
              rCharge[r] \in moneyBack
    /\ \A q \in Reconciles :
          qPc[q] = "finalize" => chargeOf[qOrder[q]] \in moneyBack

LEMMA TruthStep ==
  ASSUME Truthful, IInv, TruthInv, Next
  PROVE  TruthInv'
<1> USE DEF IInv, TypeOK, TruthInv
<1>1. Keeps
  BY StepKeeps
<1>2. ASSUME NEW o \in Orders, chargeOf[o] \in moneyBack
      PROVE  chargeOf'[o] = chargeOf[o]
  BY <1>1, <1>2 DEF Keeps
<1>3. ASSUME NEW c \in Charges, Paying(c) PROVE TruthInv'
  <2>1. UNCHANGED <<moneyBack, refund, reconcile>>
    BY <1>3 DEF Paying, PreCheckoutQuery, PreCheckoutAnswer, PreCheckoutLapse,
                TelegramCharge, WebhookPayment
  <2>2. \A o \in Orders : status'[o] = "refunded" => status[o] = "refunded"
    BY <1>3 DEF Paying, PreCheckoutQuery, PreCheckoutAnswer, PreCheckoutLapse,
                TelegramCharge, WebhookPayment, table
  <2>3. RefundedMeansMoneyBack'
    BY <1>2, <2>1, <2>2 DEF RefundedMeansMoneyBack
  <2> QED
    BY <1>2, <2>1, <2>3 DEF refund, reconcile, ReconcileInv
<1>4. ASSUME NEW r \in Refunds, Refunding(r) PROVE TruthInv'
  <2> USE DEF Refunding, RefundHandler, RefundBegin, RefundLook, RefundCall,
              RefundAnswer, RefundConfirm, RefundFinalize, RefundCatch,
              RefundAbort, TelegramRefunds, TelegramRefuses
  <2>1. moneyBack \subseteq moneyBack' /\ UNCHANGED reconcile /\ chargeOf' = chargeOf
    <3>1. moneyBack \subseteq moneyBack' /\ UNCHANGED reconcile
      BY <1>4
    <3> QED BY <1>4, <3>1, RefundingStep DEF OrderStep
  <2>2. \A s \in Refunds :
            rCall'[s] = "returned" \/ rPc'[s] \in {"finalize", "answer"} =>
                rCharge'[s] \in moneyBack'
    <3>1. \A s \in Refunds \ {r} :
              rPc'[s] = rPc[s] /\ rCharge'[s] = rCharge[s] /\ rCall'[s] = rCall[s]
      BY <1>4
    <3>2. rCall'[r] = "returned" \/ rPc'[r] \in {"finalize", "answer"} =>
              rCharge'[r] \in moneyBack'
      BY <1>4 DEF RefundInv
    <3> QED BY <2>1, <3>1, <3>2
  <2>3. \A o \in Orders : status'[o] = "refunded" =>
            \/ status[o] = "refunded"
            \/ rPc[r] = "finalize" /\ rOrder[r] = o
    <3>1. CASE RefundFinalize(r)
      BY <3>1 DEF Finalize, table
    <3>2. CASE ~RefundFinalize(r)
      BY <1>4, <3>2 DEF ToManualReview, MarkReview, table
    <3> QED BY <3>1, <3>2
  <2>4. RefundedMeansMoneyBack'
    BY <2>1, <2>3 DEF RefundedMeansMoneyBack, RefundInv
  <2> QED BY <2>1, <2>2, <2>4 DEF reconcile
<1>5. ASSUME NEW q \in Reconciles, Reconciling(q) PROVE TruthInv'
  <2> USE DEF Reconciling, ReconcileRead, ReconcileFinalize, ReconcileRestore,
              ReconcileAbort
  <2>1. UNCHANGED <<moneyBack, refund, chargeOf>>
    BY <1>5, ReconcilingStep DEF OrderStep
  <2>2. \A p \in Reconciles :
            qPc'[p] = "finalize" => chargeOf[qOrder'[p]] \in moneyBack
    <3>1. \A p \in Reconciles \ {q} : qPc'[p] = qPc[p] /\ qOrder'[p] = qOrder[p]
      BY <1>5
    <3>2. qPc'[q] = "finalize" => chargeOf[qOrder'[q]] \in moneyBack
      BY <1>5 DEF MayClaim
    <3> QED BY <3>1, <3>2
  <2>3. \A o \in Orders : status'[o] = "refunded" =>
            \/ status[o] = "refunded"
            \/ qPc[q] = "finalize" /\ qOrder[q] = o
    BY <1>5 DEF Finalize, table
  <2>4. RefundedMeansMoneyBack'
    BY <2>1, <2>3 DEF RefundedMeansMoneyBack
  <2> QED BY <2>1, <2>2, <2>4 DEF refund
<1> QED BY <1>3, <1>4, <1>5 DEF Next

\* With an owner who reports the truth, concurrent requests, crashes and late
\* Telegram answers never revoke access without the Stars going back.
THEOREM RevokedOnlyForMoney ==
  ASSUME Truthful
  PROVE  Spec => []RefundedMeansMoneyBack
<1>1. Init => TruthInv
  BY DEF Init, TruthInv, RefundedMeansMoneyBack
<1>2. IInv /\ TruthInv /\ [Next]_vars => TruthInv'
  <2>1. ASSUME TruthInv, UNCHANGED vars PROVE TruthInv'
    BY <2>1 DEF TruthInv, RefundedMeansMoneyBack, vars, table, refund, reconcile
  <2> QED BY <2>1, TruthStep
<1> QED BY <1>1, <1>2, Inductive, PTL DEF Spec, TruthInv

-------------------------------------------------------------------------------
\* What an owner adds who also waits: as long as something runs on an order, a
\* call to Telegram included, nothing else is begun on it.
Active(q) == qPc[q] \in {"finalize", "restore"}

Alone ==
    /\ \A r, s \in Refunds :
          RefundRunning(r) /\ RefundRunning(s) /\ rOrder[r] = rOrder[s] => r = s
    /\ \A r \in Refunds, q \in Reconciles :
          RefundRunning(r) /\ Active(q) => rOrder[r] # qOrder[q]
    /\ \A p, q \in Reconciles :
          Active(p) /\ Active(q) /\ qOrder[p] = qOrder[q] => p = q

\* So the one request on an order knows its status.
RefundKnows ==
    \A r \in Refunds :
        /\ rPc[r] \in {"attempt", "wait", "finalize"} =>
              status[rOrder[r]] = "refund_requested"
        /\ rPc[r] = "answer" => status[rOrder[r]] = "refunded"
        /\ rCall[r] = "sent" => status[rOrder[r]] \in Restorable
        /\ rPc[r] \in {"finalize", "answer"} => rCall[r] # "sent"
        /\ rReply[r] = "ok" => rPc[r] = "done" /\ status[rOrder[r]] = "refunded"

ReconcileKnows ==
    \A q \in Reconciles :
        /\ qPc[q] = "finalize" => status[qOrder[q]] \in Finalizable
        /\ qPc[q] = "restore" => chargeOf[qOrder[q]] \notin moneyBack
        /\ qReply[q] = "refunded" =>
              qPc[q] = "done" /\ qOrder[q] \in Orders /\ status[qOrder[q]] = "refunded"

BackMeansNotSold ==
    \A o \in Orders : chargeOf[o] \in moneyBack => status[o] # "fulfilled"

CareInv == Alone /\ RefundKnows /\ ReconcileKnows /\ BackMeansNotSold

\* Payments do not touch what is bought.
LEMMA PayingCare ==
  ASSUME NEW c \in Charges, IInv, CareInv, Paying(c) PROVE CareInv'
<1> USE DEF IInv, TypeOK
<1>1. UNCHANGED <<moneyBack, refund, reconcile>>
  BY DEF Paying, PreCheckoutQuery, PreCheckoutAnswer, PreCheckoutLapse,
         TelegramCharge, WebhookPayment
<1>2. \A o \in Orders : status[o] # "pending" =>
          status'[o] = status[o] /\ chargeOf'[o] = chargeOf[o]
  BY DEF Paying, PreCheckoutQuery, PreCheckoutAnswer, PreCheckoutLapse,
         TelegramCharge, WebhookPayment, Settlement, Payable, table, Statuses
<1>3. \A o \in Orders : status[o] = "pending" => chargeOf'[o] \notin moneyBack
  BY DEF Paying, PreCheckoutQuery, PreCheckoutAnswer, PreCheckoutLapse,
         TelegramCharge, WebhookPayment, Settlement, table, OrderInv, ChargeInv
<1>4. Alone'
  BY <1>1 DEF CareInv, Alone, RefundRunning, Active, refund, reconcile
<1>5. RefundKnows'
  BY <1>1, <1>2 DEF CareInv, RefundKnows, RefundInv, refund
<1>6. ReconcileKnows'
  BY <1>1, <1>2 DEF CareInv, ReconcileKnows, ReconcileInv, reconcile
<1>7. BackMeansNotSold'
  BY <1>1, <1>2, <1>3 DEF CareInv, BackMeansNotSold
<1> QED BY <1>4, <1>5, <1>6, <1>7 DEF CareInv

\* A step of a request on order o: nobody else is at work on o, so what the
\* others know stays true.
LEMMA OthersKnow ==
  ASSUME IInv, CareInv, OrderStep, UNCHANGED telegram,
         NEW o \in Orders,
         \A p \in Orders : p # o => status'[p] = status[p],
         \A p \in Orders : p # o /\ chargeOf[p] \in moneyBack' => chargeOf[p] \in moneyBack,
         moneyBack \subseteq moneyBack'
  PROVE  /\ \A s \in Refunds : RefundRunning(s) /\ rOrder[s] # o =>
              /\ rPc[s] \in {"attempt", "wait", "finalize"} =>
                    status'[rOrder[s]] = "refund_requested"
              /\ rPc[s] = "answer" => status'[rOrder[s]] = "refunded"
              /\ rCall[s] = "sent" => status'[rOrder[s]] \in Restorable
         /\ \A s \in Refunds : rReply[s] = "ok" =>
              rPc[s] = "done" /\ status'[rOrder[s]] = "refunded"
         /\ \A p \in Reconciles : qOrder[p] # o =>
              /\ qPc[p] = "finalize" => status'[qOrder[p]] \in Finalizable
              /\ qPc[p] = "restore" => chargeOf'[qOrder[p]] \notin moneyBack'
         /\ \A p \in Reconciles : qReply[p] = "refunded" =>
              qPc[p] = "done" /\ qOrder[p] \in Orders /\ status'[qOrder[p]] = "refunded"
  BY DEF IInv, TypeOK, CareInv, RefundKnows, ReconcileKnows, RefundInv, ReconcileInv,
         OrderStep, RefundRunning

LEMMA ReconcilingCare ==
  ASSUME Truthful, OneAtATime, NEW q \in Reconciles, IInv, CareInv, Reconciling(q)
  PROVE  CareInv'
<1> USE DEF IInv, TypeOK
<1>1. OrderStep /\ UNCHANGED <<inbox, telegram, moneyBack, refund, chargeOf>>
  BY ReconcilingStep DEF OrderStep
<1>2. \A p \in Reconciles \ {q} :
          qPc'[p] = qPc[p] /\ qOrder'[p] = qOrder[p] /\ qReply'[p] = qReply[p]
  BY DEF Reconciling, ReconcileRead, ReconcileFinalize, ReconcileRestore, ReconcileAbort
<1>3. ASSUME NEW o \in Orders, NEW claim \in {"confirmed", "not_refunded"},
             ReconcileRead(q, o, claim)
      PROVE  CareInv'
  <2>1. Settled(o) /\ UNCHANGED table /\ qOrder'[q] = o
    BY <1>3 DEF ReconcileRead, MayStart
  <2>2. Alone'
    BY <1>1, <1>2, <1>3, <2>1
       DEF CareInv, Alone, Active, RefundRunning, Settled, refund
  <2>3. RefundKnows' /\ BackMeansNotSold'
    BY <1>1, <2>1 DEF CareInv, RefundKnows, BackMeansNotSold, refund, table
  <2>4. ReconcileKnows'
    <3>1. qPc'[q] = "finalize" => status[o] \in Finalizable
      BY <1>3 DEF ReconcileRead, MayClaim, CareInv, BackMeansNotSold, Finalizable,
                  Statuses
    <3>2. qPc'[q] = "restore" => chargeOf[o] \notin moneyBack
      BY <1>3 DEF ReconcileRead, MayClaim
    <3>3. qReply'[q] # "refunded"
      BY <1>3 DEF ReconcileRead, CareInv, ReconcileKnows
    <3> QED BY <1>1, <1>2, <2>1, <3>1, <3>2, <3>3
            DEF CareInv, ReconcileKnows, table
  <2> QED BY <2>2, <2>3, <2>4 DEF CareInv
<1>4. ASSUME ReconcileFinalize(q) \/ ReconcileRestore(q) \/ ReconcileAbort(q)
      PROVE  CareInv'
  <2> DEFINE o == qOrder[q]
  <2>1. qPc'[q] = "done" /\ qOrder' = qOrder /\ Active(q) /\ o \in Orders
    BY <1>4 DEF ReconcileFinalize, ReconcileRestore, ReconcileAbort, Active, ReconcileInv
  <2>2. \A p \in Orders : p # o => status'[p] = status[p]
    BY <1>4 DEF ReconcileFinalize, ReconcileRestore, ReconcileAbort, Finalize, table
  <2>3. \A s \in Refunds : RefundRunning(s) => rOrder[s] # o
    BY <2>1 DEF CareInv, Alone
  <2>4. \A p \in Reconciles \ {q} : Active(p) => qOrder[p] # o
    BY <2>1 DEF CareInv, Alone
  <2>5. Alone'
    BY <1>1, <1>2, <2>1 DEF CareInv, Alone, Active, RefundRunning, refund
  <2>6. RefundKnows'
    <3>1. \A s \in Refunds : rPc[s] \in {"attempt", "wait", "finalize", "answer"}
              \/ rCall[s] = "sent" => RefundRunning(s)
      BY DEF RefundRunning
    <3>2. \A s \in Refunds : rPc[s] \in {"finalize", "answer"} => rCall[s] # "sent"
      BY DEF CareInv, RefundKnows
    <3> QED BY <1>1, <2>1, <2>2, <2>3, <3>1, <3>2, OthersKnow DEF RefundKnows, refund
  <2>7. qReply'[q] = "refunded" => status'[o] = "refunded"
    <3>1. CASE ReconcileFinalize(q)
      BY <2>1, <3>1 DEF ReconcileFinalize, Finalize, CareInv, ReconcileKnows
    <3>2. CASE ~ReconcileFinalize(q)
      BY <1>4, <3>2 DEF ReconcileRestore, ReconcileAbort, CareInv, ReconcileKnows
    <3> QED BY <3>1, <3>2
  <2>8. ReconcileKnows'
    BY <1>1, <1>2, <2>1, <2>2, <2>4, <2>7, OthersKnow DEF ReconcileKnows, Active
  <2>9. BackMeansNotSold'
    <3>1. chargeOf[o] \in moneyBack => status'[o] # "fulfilled"
      BY <1>4, <2>1 DEF ReconcileFinalize, ReconcileRestore, ReconcileAbort, Finalize,
                        table, CareInv, ReconcileKnows, BackMeansNotSold
    <3> QED BY <1>1, <2>1, <2>2, <3>1 DEF CareInv, BackMeansNotSold
  <2> QED BY <2>5, <2>6, <2>8, <2>9 DEF CareInv
<1> QED BY <1>3, <1>4 DEF Reconciling

LEMMA RefundingCare ==
  ASSUME OneAtATime, NEW r \in Refunds, IInv, CareInv, Refunding(r)
  PROVE  CareInv'
<1> USE DEF IInv, TypeOK
<1>1. OrderStep /\ UNCHANGED <<inbox, telegram, reconcile, chargeOf>>
  BY RefundingStep DEF OrderStep
<1>2. \A s \in Refunds \ {r} :
          /\ rPc'[s] = rPc[s] /\ rOrder'[s] = rOrder[s]
          /\ rCall'[s] = rCall[s] /\ rReply'[s] = rReply[s]
  BY DEF Refunding, RefundHandler, RefundBegin, RefundLook, RefundCall, RefundAnswer,
         RefundConfirm, RefundFinalize, RefundCatch, RefundAbort, TelegramRefunds,
         TelegramRefuses
<1>3. ASSUME NEW o \in Orders, RefundBegin(r, o) PROVE CareInv'
  <2>1. Settled(o) /\ UNCHANGED moneyBack /\ rOrder'[r] = o /\ rCall'[r] = "none"
    BY <1>3 DEF RefundBegin, MayStart, RefundInv
  <2>2. \A p \in Orders : p # o => status'[p] = status[p]
    BY <1>3 DEF RefundBegin
  <2>3. Alone'
    BY <1>1, <1>2, <1>3, <2>1
       DEF CareInv, Alone, Active, RefundRunning, Settled, reconcile
  <2>4. /\ rPc'[r] = "look" \/ (rPc'[r] = "attempt" /\ status'[o] = "refund_requested")
        /\ rReply'[r] # "ok"
    BY <1>3 DEF RefundBegin, CareInv, RefundKnows
  <2>5. \A s \in Refunds \ {r} :
            rPc[s] \in {"attempt", "wait", "finalize", "answer"} \/ rCall[s] = "sent" =>
                RefundRunning(s) /\ rOrder[s] # o
    BY <2>1 DEF Settled, RefundRunning
  <2>6. RefundKnows'
    <3>1. \A s \in Refunds \ {r} :
              rPc[s] \in {"finalize", "answer"} => rCall[s] # "sent"
      BY DEF CareInv, RefundKnows
    <3> QED BY <1>1, <1>2, <2>1, <2>2, <2>4, <2>5, <3>1, OthersKnow DEF RefundKnows
  <2>7. \A p \in Reconciles : Active(p) => qOrder[p] # o
    BY <2>1 DEF Settled, Active
  <2>8. ReconcileKnows'
    BY <1>1, <2>1, <2>2, <2>7, OthersKnow DEF ReconcileKnows, Active, reconcile
  <2>9. BackMeansNotSold'
    BY <1>1, <1>3, <2>1, <2>2 DEF RefundBegin, CareInv, BackMeansNotSold
  <2> QED BY <2>3, <2>6, <2>8, <2>9 DEF CareInv
<1>4. ASSUME ~\E o \in Orders : RefundBegin(r, o) PROVE CareInv'
  <2> DEFINE o == rOrder[r]
  <2> USE <1>4 DEF Refunding, RefundHandler, RefundLook, RefundCall, RefundAnswer,
         RefundConfirm, RefundFinalize, RefundCatch, RefundAbort, TelegramRefunds,
         TelegramRefuses
  <2>1. RefundRunning(r) /\ rOrder' = rOrder /\ o \in Orders
    BY DEF RefundRunning, RefundInv
  <2>2. \A p \in Orders : p # o => status'[p] = status[p]
    BY DEF Finalize, ToManualReview, MarkReview, table
  <2>3. /\ moneyBack \subseteq moneyBack'
        /\ \A p \in Orders : p # o /\ chargeOf[p] \in moneyBack' => chargeOf[p] \in moneyBack
    <3>1. CASE TelegramRefunds(r)
      <4>1. rCharge[r] = chargeOf[o] /\ status[o] # "pending"
        BY <3>1, <2>1 DEF RefundInv
      <4>2. payFor[chargeOf[o]] = o
        BY <4>1, <2>1 DEF ChargeOwnership
      <4>3. \A p \in Orders : chargeOf[p] = chargeOf[o] => p = o
        BY <4>1, <4>2, <2>1 DEF ChargeOwnership, OrderInv
      <4> QED BY <3>1, <4>1, <4>3
    <3>2. CASE ~TelegramRefunds(r)
      BY <3>2
    <3> QED BY <3>1, <3>2
  <2>4. /\ \A s \in Refunds \ {r} : RefundRunning(s) => rOrder[s] # o
        /\ \A p \in Reconciles : Active(p) => qOrder[p] # o
    BY <2>1 DEF CareInv, Alone
  <2>6. Alone'
    BY <1>1, <1>2, <2>1 DEF CareInv, Alone, Active, RefundRunning, reconcile
  <2>7. /\ rPc'[r] \in {"attempt", "wait", "finalize"} => status'[o] = "refund_requested"
        /\ rPc'[r] = "answer" => status'[o] = "refunded"
        /\ rCall'[r] = "sent" => status'[o] \in Restorable
        /\ rPc'[r] \in {"finalize", "answer"} => rCall'[r] # "sent"
        /\ rReply'[r] = "ok" => rPc'[r] = "done" /\ status'[o] = "refunded"
    <3> USE DEF CareInv, RefundKnows, RefundInv, Restorable
    <3>1. CASE RefundFinalize(r)
      <4>1. status[o] = "refund_requested" /\ rPc[r] = "finalize"
        BY <3>1, <2>1
      <4>2. status'[o] = "refunded"
        BY <4>1, <3>1, <2>1 DEF Finalize, Finalizable
      <4> QED BY <4>1, <4>2, <3>1, <2>1
    <3>2. CASE RefundCatch(r)
      BY <2>1, <3>2 DEF ToManualReview, MarkReview
    <3>3. CASE ~RefundFinalize(r) /\ ~RefundCatch(r)
      <4>1. UNCHANGED status
        BY <3>3 DEF table
      <4>2. CASE RefundLook(r) \/ RefundAnswer(r)
        BY <4>1, <4>2, <2>1
      <4>3. CASE RefundCall(r) \/ RefundConfirm(r)
        BY <4>1, <4>3, <2>1
      <4>4. CASE RefundAbort(r) \/ TelegramRefunds(r) \/ TelegramRefuses(r)
        BY <4>1, <4>4, <2>1
      <4> QED BY <3>3, <4>2, <4>3, <4>4
    <3> QED BY <3>1, <3>2, <3>3
  <2>8. RefundKnows'
    <3>1. \A s \in Refunds : rPc[s] \in {"attempt", "wait", "finalize", "answer"}
              \/ rCall[s] = "sent" => RefundRunning(s)
      BY DEF RefundRunning
    <3>2. \A s \in Refunds \ {r} :
              rPc[s] \in {"finalize", "answer"} => rCall[s] # "sent"
      BY DEF CareInv, RefundKnows
    <3> HIDE <1>4
    <3> QED BY <1>1, <1>2, <2>1, <2>2, <2>3, <2>4, <2>7, <3>1, <3>2, OthersKnow
            DEF RefundKnows
  <2>9. ReconcileKnows'
    BY <1>1, <2>1, <2>2, <2>3, <2>4, OthersKnow DEF ReconcileKnows, Active, reconcile
  <2>10. BackMeansNotSold'
    <3>1. chargeOf[o] \in moneyBack' => status'[o] # "fulfilled"
      BY <2>1 DEF Finalize, ToManualReview, MarkReview, table, CareInv, BackMeansNotSold,
                  RefundKnows, Restorable
    <3> QED BY <1>1, <2>1, <2>2, <2>3, <3>1 DEF CareInv, BackMeansNotSold
  <2> QED BY <2>6, <2>8, <2>9, <2>10 DEF CareInv
<1> QED BY <1>3, <1>4

LEMMA Careful ==
  ASSUME Truthful, OneAtATime PROVE Spec => [](IInv /\ CareInv)
<1>1. Init => CareInv
  BY DEF Init, CareInv, Alone, RefundKnows, ReconcileKnows, BackMeansNotSold,
         RefundRunning, Active
<1>2. IInv /\ CareInv /\ [Next]_vars => CareInv'
  <2>1. ASSUME CareInv, UNCHANGED vars PROVE CareInv'
    BY <2>1 DEF CareInv, Alone, RefundKnows, ReconcileKnows, BackMeansNotSold,
                RefundRunning, Active, vars, table, refund, reconcile
  <2> QED BY <2>1, PayingCare, RefundingCare, ReconcilingCare DEF Next
<1> QED BY <1>1, <1>2, Inductive, PTL DEF Spec

\* An owner who reports the truth and does one thing at a time is told the
\* truth, by both handlers, although neither looks at finalizeRefund's result.
THEOREM OwnerIsToldTheTruth ==
  ASSUME Truthful, OneAtATime PROVE Spec => []RepliesHonest
<1>1. CareInv => RepliesHonest
  BY DEF CareInv, RefundKnows, ReconcileKnows, RepliesHonest, RefundReplyHonest,
         ReconcileReplyHonest
<1> QED BY <1>1, Careful, PTL

\* Nor does he ever leave an order on sale to a buyer who has the Stars back.
THEOREM NoAccessAfterMoneyBack ==
  ASSUME Truthful, OneAtATime PROVE Spec => []MoneyBackNotFulfilled
<1>1. CareInv => MoneyBackNotFulfilled
  BY DEF CareInv, BackMeansNotSold, MoneyBackNotFulfilled
<1> QED BY <1>1, Careful, PTL

===============================================================================
