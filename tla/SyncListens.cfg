SPECIFICATION Spec
CONSTANTS
    Nodes = {"a", "b", "c"}
    Topics = {"t", "u"}
    MaxSessions = 1
    MaxEvents = 3
    ChunkSize = 2
    Bytes = 4
    Hashes <- MCHashes
    Requests <- MCRequests
    Faulty = {}
    SimpleHash <- MCSimpleHash
    Learners <- MCLearners
    FirstLogs <- MCFirstLogs
PROPERTIES
    SessionsProcessSnapshots
CHECK_DEADLOCK FALSE
