SPECIFICATION WorkspaceSpec
CONSTANTS
    Moves = {m1}
    QueueLimit = 1
    MaxChanges = 1
    MaxDrops = 1
    MaxFailures = 1
    m1 = m1
    Cards <- MCCards
    Filed <- MCFiled
    Keys <- MCKeys
    Columns = {c1, c2}
    Users = {u1, u2}
    u1 = u1
    u2 = u2
    c1 = c1
    c2 = c2
    Shown <- MCShown
    Grain <- MCGrain
    MaxMoves = 2
    Files = {f1, f2}
    Comments = {k1, k2}
    Tasks = {t1, t2}
    MaxAsked = 3
    MaxFaults = 1
    f1 = f1
    f2 = f2
    k1 = k1
    k2 = k2
    t1 = t1
    t2 = t2
    Workers = {w1, w2}
    LastDay = 1
    Forms <- MCForms
    MaxEdits = 2
    MaxMishaps = 1
    w1 = w1
    w2 = w2
    Named = {n1}
    Processes = {p1, p2}
    MaxEvents = 2
    MaxRedeliveries = 1
    MaxLosses = 1
    n1 = n1
    p1 = p1
    p2 = p2
INVARIANTS
    StreamSafe
    QuietBoardIsCurrent
    OrderSafe
    RowsAndBytes
    CommentsKeepFiles
    DraftCanBeSent
    SchedulesSafe
    FiredOnce
    HeardTruly
PROPERTIES
    StreamRecovers
    CommitsLand
    AdoptsOnlyInARace
    OwesNothingForThePause
    DueIsClaimed
    NeverOpenedAfterMerge
CHECK_DEADLOCK FALSE
