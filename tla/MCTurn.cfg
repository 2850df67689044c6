SPECIFICATION TurnSpec
CONSTANTS
    a1 = a1
    Project = project
    f1 = f1
    None = None
    Agent <- MCAgent
    Owner <- MCOwner
    File <- MCFile
    Quotas <- MCQuotas
    MaxSize = 2
    CompanyMb = 2
    AgentMb = 1
    MaxToolLoops = 1
    Backoffs = 1
    WindowSize = 2
    MaxCalls = 2
    MaxTurns = 2
    MaxCrashes = 1
INVARIANTS
    
    
    CutIsRemembered
    BooksMatchDisk
PROPERTIES
    EveryTurnEnds
