SPECIFICATION Spec
CONSTANTS
    Users = {"u1", "u2"}
    Targets = {"x", "y"}
    CapabilityIds = {"root", "c1", "c2"}
    Projects = {"p1", "use3"}
    Tasks = {"t1"}
    Elections = {"e1"}
    Nullifiers = {"k1", "k2", "k3"}
    MsgIds <- MCMsgIds
    Nonces <- MCNonces
    Hashes <- MCHashes
    NodeIds <- MCNodeIds
    DisputeKeys <- MCDisputeKeys
    Envelopes <- CapabilityEnvelopes
    MaxNow = 2
    MaxClockSkew = 1
    NonceTTL = 2
INVARIANTS TypeOK WithinMaxCount RevocationHonoured
