SPECIFICATION Spec
CONSTANTS
    MaxSuggestions = 2
    OwnLimit = 2
    Normalized <- MCNormalized
    CommunityLimit = 3
    Hooks = {"map"}
    Refreshable = {"map"}
    Me = "me"
    Graphs <- MCGraphs
    Answers <- MCAnswers
INVARIANTS TypeOK BannerTracksWork EnginesBoundedByCallers BestAreShown RulesAreTold
PROPERTIES RefreshIsFresh AnalysesEnd
