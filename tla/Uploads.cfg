SPECIFICATION MCSpec
CONSTANTS
    Products = {p1, p2}
    Versions = {v1, v2}
    Assets = {a1, a2}
    Publishers = {x1, x2}
    Faults = {"head", "delete", "crash", "ambiguous"}
    VersionKept = TRUE
    Nothing = Nothing
    MaxReloads = 1
    MaxEntries = 2
    MaxEntryBytes = 3
    MaxBytes = 4
    MaxRatio = 2
    MaxLength = 3
    Jobs = {"j1", "j2"}
    MaxAttempts = 2
    Workers = {"w1", "w2"}
    FewJobs = {"j1"}
    LoneWorker = "w1"
    MaxFaults = 1
    Loops = {"l1", "l2"}
    MaxCloses = 1
    Parts = {"faults", "calm", "admin", "headers", "zip", "single", "shared", "dying", "memory"}
INVARIANTS
    PublishedTogether
    SoldIsSound
    RowHasFile
    UploadIsSound
    AdminIsSound
    QueueIsSound
PROPERTIES
    QueueContractKept
    WorkEnds
CHECK_DEADLOCK FALSE
