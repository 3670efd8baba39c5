SPECIFICATION Spec
CONSTANTS
    Users = {"u1"}
    Nonces = {"k1"}
    NodeIds = {"u1", "u2", "n1"}
    Scores = {5}
    NonceTTL = 1
    MaxNow = 3
    MaxSuggestions = 10
    OwnLimit = 5
    Normalized <- MCNormalized
    CommunityLimit = 20
    Messages <- MCMessages
    Edges <- MCEdges
INVARIANTS TypeOK SchemaIsSound ConstraintsHold NonceHolds PagesTileTheTopic QueriesAgree
PROPERTY LogOnlyGrows
