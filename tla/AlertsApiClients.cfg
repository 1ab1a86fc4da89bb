\* Two clients polling the unfiltered list, two publications.
CONSTANTS
    A = A
    C = C
    X = X
    Y = Y
    S = S
    Comma = Comma
    Bar = Bar
    Word = {A, C, X, Y, S}
    None = None
    Blank = Blank
    EmptyText = EmptyText
    Call = {c1, c2}
    Feed = {f1}
    AlertsFeed = f1
    Ttl <- MCTtl
    Timeout = 1
    MaxTime = 2
    Published <- MCPublished
    AlertsAt <- MCAlertsAt
    Query <- MCPlainQuery
    Route <- MCRoute
    Stop <- MCStop
    Rank <- MCRank
SPECIFICATION ApiSpec
PROPERTIES
    CopiesMoveForward
    RequestAnswered
