SPECIFICATION Spec
CONSTANTS
    DayLength = 2
    MaxTime = 5
    MaxStepBack = 1
INVARIANTS
    CountsRunningTime
    DaysInOrder
