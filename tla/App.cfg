SPECIFICATION Spec
CONSTANTS
    Keys = {"k1", "k2", "k3"}
    Forms = {"needs", "task"}
    Guarded = {"needs"}
    Taps = {1, 2}
    MaxWrites = 2
INVARIANTS TypeOK OnboardingIsWhole IdentityFollowsKeychain
PROPERTY SubmissionsEnd
