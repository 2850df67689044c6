SPECIFICATION FairSpec
CONSTANTS
    a1 = a1
    a2 = a2
    c1 = c1
    Agents <- MCAgents
    Correlations <- MCCorrelations
    NoCorrelation = NoCorrelation
    LoopStrikes = 1
    MaxMessages = 2
INVARIANTS
    NothingLost
    QuietWhenPaused
PROPERTIES
    EveryMessageSettles
    PauseSettles
