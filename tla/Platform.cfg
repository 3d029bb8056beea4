SPECIFICATION MCSpec
CONSTANTS
    Statements = {s1}
    Transactions = {t1, t2}
    Closer = close
    BodySize = 2
    PoolMax = 2
    MaxBreaks = 2
    Servers = {"s1", "s2"}
    Scripts = {"m1"}
    Editable = {"004_user_favorites"}
    NoRunner = "-"
    Processes = {"p1", "p2"}
    Handlers = {"h1", "h2", "h3"}
    TextMax = 5
    Parts = {"sqlite", "pool", "single", "text", "releases", "replicas", "dying", "racing", "leaving", "staying"}
INVARIANTS
    NoForeignWrite
    PoolIsSound
    PlaceholdersNumbered
    SchemaIsSound
    ShutdownIsSound
PROPERTIES
    ContractSpec
    PoolContract
    PlatformEnds
CHECK_DEADLOCK FALSE
