SPECIFICATION GovFairSpec
CONSTANTS
    q1 = q1
    q2 = q2
    Requests <- MCRequests
    Kinds <- MCKinds
    SecurityKinds = {"external_action"}
    AutoDenyKinds = {"security_flag"}
    Board = Board
    Security = Security
    Deciders = {Board, Security}
    Targets = {Board}
    Timeout <- MCTimeout
    Nobody = Nobody
    MaxTime = 2
    MaxReviews = 2
INVARIANTS
    
    SecurityGate
    ClosedOnceInLog
PROPERTIES
    KeepsPromise
    EventuallyClosed
CHECK_DEADLOCK FALSE
