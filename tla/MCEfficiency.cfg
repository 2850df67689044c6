SPECIFICATION WatchSpec
CONSTANTS
    subject = subject
    approval = approval
    Key = {subject}
    Approval = {approval}
    Route <- MCRoute
    Threshold = 1
    ErrorPercent = 60
    TopPercent = 60
    Nothing = Nothing
    ReadLimit = 2
    BacklogLimit = 1
    QueueBuffer = 1
    MaxBreaks = 1
    MaxLog = 3
INVARIANTS
    FeedIsLog
    OneOpenFinding
    RowsTold
