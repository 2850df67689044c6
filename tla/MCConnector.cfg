SPECIFICATION ConnSpec
CONSTANTS
    t1 = t1
    t2 = t2
    low = low
    risky = risky
    None = None
    Tasks <- MCTasks
    Cids <- MCCids
    LowRisk <- MCLowRisk
    Idempotent <- MCLowRisk
    RetryableLimit = 2
    Estimate <- MCEstimate
    Totals <- MCTotals
    Amounts <- MCAmounts
    MaxReservations = 2
    MaxExpenses = 1
SYMMETRY TaskSymmetry
INVARIANTS
    OpenIsHeld
    SentWithConsent
PROPERTIES
    SentWhileAllowed
