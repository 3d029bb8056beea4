------------------------------ MODULE MCCheckout ------------------------------
(***************************************************************************)
(* Small instances of Checkout for TLC: a buyer with one window and a      *)
(* short list of wishes, whose attempts do not expire, and one with two    *)
(* windows, attempts that expire and Telegram's 'pending' answers.         *)
(***************************************************************************)
EXTENDS Checkout

CONSTANTS Parts, FirstWindow, FirstLicense, FewOrders, FewKeys

VARIABLE part

ASSUME MCAssumption ==
    /\ CheckoutAssumption
    /\ FirstWindow \in Windows
    /\ FirstLicense \in Licenses
    /\ FewOrders \in Nat /\ FewKeys \in Nat

MCInit ==
    /\ part \in Parts
    /\ Init

\* Every window and license, attempts that expire, and as many orders and keys as are few.
PairNext ==
    /\ Next
    /\ Cardinality(Placed') <= FewOrders
    /\ Cardinality(usedKeys') <= FewKeys

MCNext ==
    /\ \/ part = "single" /\ Buying({FirstWindow}, {FirstLicense})
       \/ part = "alone" /\ Buying({FirstWindow}, Licenses)
       \/ part = "pair" /\ PairNext
    /\ UNCHANGED part

MCSpec == MCInit /\ [][MCNext]_<<vars, part>> /\ Fairness

-------------------------------------------------------------------------------
\* Through lost answers, reloads and late webhooks, no invoice opens for a
\* license the buyer has paid for and not received yet (useCheckout).
NoSecondInvoiceOpens == part = "single" => NoSecondInvoice

\* A click whose order the buyer never got to see is taken up by the next one.
NoOrderIsForgotten == part = "single" => NoForgottenOrder

\* However often a click's request is sent, its key buys one order, and the
\* order an attempt names is that one, for the license the buyer chose.
AttemptsBuyOnce ==
    /\ TypeOK
    /\ OneOrderPerKey
    /\ AttemptNamesItsOrder
===============================================================================
