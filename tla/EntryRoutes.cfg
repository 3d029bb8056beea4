SPECIFICATION Spec
CONSTANTS
    Parts = {"entry"}
    Posted = {"u1", "u2"}
    HasBot = TRUE
    Production = TRUE
    Calls = 2
    MaxFailures = 1
    MaxOthers = 2
    MaxTimeouts = 2
    Commands = {"c1", "c2"}
    Messages = {"m1", "m2"}
    ChatFailures = 3
    FewFailures = 1
    Taps = {"t1", "t2", "t3"}
    TapFailures = 3
    Bases = {"none", "root", "path", "query"}
    Clicks = 2
    Windows = {"w1"}
    LoginTokens = {"k1", "k2"}
    MaxAge = 3
    CloseSkew = 1
    ApartSkew = 0
    TTL = 2
    Drift = 1
    Delay = 1
    Horizon = 10
    ApiCalls = {"r1", "r2", "r3", "out"}
    FewRequests = {"r1", "r2", "out"}
    LogoutCall = "out"
    Tokens = {"t0", "t1", "t2", "t3"}
    First = "t0"
    NoToken = "-"
    Callers = {"r1", "r2", "r3", "r4"}
    Limit = 2
    Window = 2
    LimitHorizon = 4
    Adds = {"a1", "a2", "a3"}
    Removes = {"d1", "d2"}
    Devices = {"d1", "d2"}
    Items = {"i1", "i2"}
    MaxTaps = 3
    FewTaps = 1
    MaxFaults = 1
INVARIANT ReleaseRoutesOpen
CHECK_DEADLOCK FALSE
