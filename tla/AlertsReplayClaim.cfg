\* One client that replays ETags across every kind of query.
CONSTANTS
    A = A
    C = C
    X = X
    Y = Y
    S = S
    Comma = Comma
    Bar = Bar
    Word = {A, C, X, Y, S}
    None = None
    Blank = Blank
    EmptyText = EmptyText
    Call = {c1}
    Feed = {f1}
    AlertsFeed = f1
    Ttl <- MCTtl
    Timeout = 1
    MaxTime = 3
    Published <- MCPublished
    AlertsAt <- MCAlertsAt
    Query <- MCQuery
    Route <- MCRoute
    Stop <- MCStop
    Rank <- MCRank
SPECIFICATION ApiSpec
PROPERTY NotModifiedForFetched
