SPECIFICATION FairSpec
CONSTANTS
    t1 = t1
    t2 = t2
    free = free
    gated = gated
    None = None
    Tasks <- MCTasks
    Cids <- MCCids
    Gated <- MCGated
    Estimate <- MCEstimate
    Totals <- MCTotals
    Amounts <- MCAmounts
    MaxReservations = 3
    MaxExpenses = 2
INVARIANTS
    PaidForWork
    RunsApproved

    
