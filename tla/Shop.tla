--------------------------------- MODULE Shop ---------------------------------
(***************************************************************************)
(* From Stars to files: the downloads of one purchase (Delivery) beside    *)
(* everything that happens to its order and to the others.  For the orders *)
(* their contract stands (OrderContract), which the payment code           *)
(* implements (PaymentsProofs): the two meet in the entitlement, which the *)
(* webhook inserts, finalizeRefund revokes and the download request reads. *)
(***************************************************************************)
EXTENDS Delivery

CONSTANTS
    Orders, Charges, NoCharge,
    Purchase        \* the order whose entitlement Delivery is about

ASSUME ShopAssumption == Purchase \in Orders /\ NoCharge \notin Charges

VARIABLES
    taken, returned, paidBy,    \* of OrderContract
    others      \* the access of every other order

Others == Orders \ {Purchase}

Access == [o \in Orders |-> IF o = Purchase THEN access ELSE others[o]]

Contract == INSTANCE OrderContract WITH access <- Access

money    == <<taken, returned, paidBy, others>>
shopVars == <<vars, money>>

ShopInit ==
    /\ Init
    /\ others = [o \in Others |-> "none"]
    /\ Contract!Init

\* A step of an order: Delivery sees the grant and the revocation of its own.
OrderStep ==
    /\ Grant \/ Revoke \/ UNCHANGED vars
    /\ others' \in [Others -> {"none", "active", "revoked"}]
    /\ Contract!Next

DownloadStep == Downloads /\ UNCHANGED <<access, money>>

ShopNext == OrderStep \/ DownloadStep

ShopSpec == ShopInit /\ [][ShopNext]_shopVars

\* The fairness of Delivery; nothing is promised of buyers and of refunds.
ShopFairness ==
    /\ \A g \in Gets : WF_vars(Handler(g))
    /\ \A t \in Tokens : WF_vars(IssueInsert(t)) /\ WF_vars(Expire(t))

-------------------------------------------------------------------------------
(* Properties *)

\* Every variable holds a value the code can give it.
ShopTypeOK ==
    /\ TypeOK
    /\ taken \in SUBSET (Charges \X Orders)
    /\ returned \in SUBSET Charges
    /\ paidBy \in [Orders -> Charges \cup {NoCharge}]
    /\ others \in [Others -> {"none", "active", "revoked"}]

\* No archive leaves the shop unpaid: whoever is served, the Stars of one charge
\* were taken for this purchase and for no other (POST
\* /api/purchases/:id/download, the webhook).
ServedIsPaid ==
    (\E g \in Gets : served[g]) =>
        \E c \in Charges :
            /\ paidBy[Purchase] = c
            /\ \A o \in Orders : <<c, o>> \in taken <=> o = Purchase
===============================================================================
