SPECIFICATION FairSpec
CONSTANTS
    Orders = {o1}
    Charges = {c1, c2}
    Refunds = {r1, r2}
    Reconciles = {q1, q2}
    NoOrder = NoOrder
    NoCharge = NoCharge
    Truthful = TRUE
    OneAtATime = TRUE
    MayAbort = TRUE
INVARIANTS
    RefundedMeansMoneyBack
    RepliesHonest
    MoneyBackNotFulfilled
PROPERTIES
    PaymentsEnd
CHECK_DEADLOCK FALSE
