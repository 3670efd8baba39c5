SPECIFICATION Spec
CONSTANTS
    Users = {"u1", "u2"}
    Targets = {"x", "y"}
    CapabilityIds = {"root", "c1", "c2"}
    Projects = {"p1"}
    Tasks = {"t1", "t2"}
    Elections = {"e1"}
    Nullifiers = {"k1", "k2", "k3"}
    MsgIds <- MCMsgIds
    Nonces <- MCNonces
    Hashes <- MCHashes
    NodeIds <- MCNodeIds
    DisputeKeys <- MCDisputeKeys
    Envelopes <- WorkEnvelopes
    MaxNow = 1
    MaxClockSkew = 1
    NonceTTL = 2
INVARIANTS DraftIsUntouched GraphFollowsRecords TasksFollowLog
