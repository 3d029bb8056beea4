SPECIFICATION MCSpec
CONSTANTS
    Tokens = {1}
    Gets = {1, 2}
    NoToken = 0
    EarlyLeave = TRUE
    MayCrash = FALSE
    Orders = {o1}
    Charges = {c1}
    NoCharge = NoCharge
    Purchase = o1
PROPERTY StreamingEnds
CHECK_DEADLOCK FALSE
