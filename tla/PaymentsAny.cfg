SPECIFICATION Spec
CONSTANTS
    Orders = {o1, o2}
    Charges = {c1, c2}
    Refunds = {r1, r2}
    Reconciles = {q1, q2}
    NoOrder = NoOrder
    NoCharge = NoCharge
    Truthful = FALSE
    OneAtATime = FALSE
    MayAbort = TRUE
INVARIANTS
    EntitlementMatchesOrder
    ChargeOwnership
    NoPaymentDropped
PROPERTIES
    ContractSpec
SYMMETRY Symmetry
CHECK_DEADLOCK FALSE
