SPECIFICATION SubSpec
CONSTANTS
    r1 = r1
    s1 = s1
    Amounts <- MCAmounts
    Totals <- MCTotals
    Refs <- MCRefs
    Direct = Direct
    MaxReservations = 2
    MaxExpenses = 2
    Subs <- MCSubs
    Price = 1
    Period = 2
    None = None
    MaxDay = 3
INVARIANTS
    FlagsAgree
    LogMatchesBooks
    
PROPERTIES
    SpendingWithinTotal
