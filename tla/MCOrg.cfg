SPECIFICATION Spec
CONSTANTS
    CEO = CEO
    HR = HR
    Security = Security
    Nobody = Nobody
    m1 = m1
    m2 = m2
    m3 = m3
    Pool <- MCPool
    MaxActiveAgents = 6
    MaxCeoReports = 3
    MaxManagerReports = 2
    Titles = {"first", "second"}
    FirstTitle = "first"
    Ratings = {1, 5}
    Unrated = Unrated
    MaxNotes = 1
    MaxCrashes = 1
SYMMETRY PoolSymmetry
INVARIANTS
    NoCycle
    ChartSound
    SpanOfControl
    LogTellsChart
PROPERTIES
    RestartReunites
CHECK_DEADLOCK FALSE
