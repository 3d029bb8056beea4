---------------------------- MODULE OrderContract ----------------------------
(***************************************************************************)
(* What the shop promises about one purchase, seen by the buyer and by     *)
(* Telegram: access to an order is granted at most once, only against      *)
(* Stars that were taken for that very order, it ends at most once and     *)
(* never comes back, and Stars go back at most once and only those that    *)
(* bought the order.  Payments implements this (see PaymentsProofs).       *)
(***************************************************************************)

CONSTANTS Orders, Charges, NoCharge

VARIABLES
    taken,      \* pairs <<charge, order>>: Stars taken by Telegram
    returned,   \* charges whose Stars went back to the buyer
    access,     \* per order: "none", "active" or "revoked"
    paidBy      \* per order: the charge that bought it

cvars == <<taken, returned, access, paidBy>>

Init ==
    /\ taken = {}
    /\ returned = {}
    /\ access = [o \in Orders |-> "none"]
    /\ paidBy = [o \in Orders |-> NoCharge]

Take(c, o) ==
    /\ \A p \in Orders : <<c, p>> \notin taken
    /\ taken' = taken \cup {<<c, o>>}
    /\ UNCHANGED <<returned, access, paidBy>>

Grant(c, o) ==
    /\ <<c, o>> \in taken
    /\ access[o] = "none"
    /\ access' = [access EXCEPT ![o] = "active"]
    /\ paidBy' = [paidBy EXCEPT ![o] = c]
    /\ UNCHANGED <<taken, returned>>

Return(c, o) ==
    /\ paidBy[o] = c
    /\ c \notin returned
    /\ returned' = returned \cup {c}
    /\ UNCHANGED <<taken, access, paidBy>>

Revoke(o) ==
    /\ access[o] = "active"
    /\ access' = [access EXCEPT ![o] = "revoked"]
    /\ UNCHANGED <<taken, returned, paidBy>>

Next ==
    \E o \in Orders :
        \/ Revoke(o)
        \/ \E c \in Charges : Take(c, o) \/ Grant(c, o) \/ Return(c, o)

Spec == Init /\ [][Next]_cvars
==============================================================================
