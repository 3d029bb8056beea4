SPECIFICATION MCSpec
CONSTANTS
    Parts = {"single", "alone", "pair"}
    FirstWindow = w1
    FirstLicense = l1
    Windows = {w1, w2}
    Licenses = {l1, l2}
    Orders = {o1, o2, o3}
    Keys = {k1, k2, k3}
    FewOrders = 2
    FewKeys = 2
    Calls = {c1, c2}
    NoOrder = NoOrder
    NoCall = NoCall
    NoAttempt = NoAttempt
    NoRow = NoRow
    Conflict = Conflict
INVARIANTS
    AttemptsBuyOnce
    NoSecondInvoiceOpens
    NoOrderIsForgotten
PROPERTIES
    PaidBannerEnds
CHECK_DEADLOCK FALSE
