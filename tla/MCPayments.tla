------------------------------ MODULE MCPayments ------------------------------
(* Small instances of Payments for TLC. *)
EXTENDS Payments, TLC

\* Requests are interchangeable, and so are charges and orders.
Symmetry ==
    Permutations(Orders) \cup Permutations(Charges)
        \cup Permutations(Refunds) \cup Permutations(Reconciles)

===============================================================================
