SPECIFICATION MCSpec
CONSTANTS
    Tokens = {1, 2}
    Gets = {1, 2, 3}
    NoToken = 0
    EarlyLeave = TRUE
    MayCrash = TRUE
    Orders = {o1, o2}
    Charges = {c1}
    NoCharge = NoCharge
    Purchase = o1
INVARIANTS
    ServedIsPaid
    ServedOnce
    UsedMeansServed
PROPERTIES
    RevokeTakesEffect
    ClaimsSettle
CHECK_DEADLOCK FALSE
