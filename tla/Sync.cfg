SPECIFICATION Spec
CONSTANTS
    Nodes = {"a", "b", "c"}
    Topics = {"t", "u"}
    MaxSessions = 2
    MaxEvents = 3
    ChunkSize = 2
    Bytes = 4
    Hashes <- MCHashes
    Requests <- MCRequests
    Faulty <- MCFaulty
    SimpleHash <- MCSimpleHash
    Learners <- MCLearners
    FirstLogs <- MCFirstLogs
INVARIANTS
    TypeOK
    SnapshotsCutTheMissing
    OnlyNewsIsSent
    SubscribedWhileListening
    CaughtUp
PROPERTIES
    LoneListenerEnds
CHECK_DEADLOCK FALSE
