SPECIFICATION Spec
CONSTANTS
    Orders = {o1}
    Charges = {c1}
    Refunds = {r1}
    Reconciles = {q1}
    NoOrder = NoOrder
    NoCharge = NoCharge
    Truthful = TRUE
    OneAtATime = FALSE
    MayAbort = FALSE
PROPERTY ConfirmedNotCancelled
SYMMETRY Symmetry
CHECK_DEADLOCK FALSE
