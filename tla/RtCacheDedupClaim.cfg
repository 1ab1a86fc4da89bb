\* Three concurrent callers of one feed.
CONSTANTS
    f1 = f1
    f2 = f2
    None = None
    Call = {c1, c2, c3}
    Feed = {f1}
    Ttl <- MCTtl
    Timeout = 2
    MaxTime = 4
SPECIFICATION Spec
ACTION_CONSTRAINT ArrivalsWhenIdle
INVARIANT SingleFetchPerFeed
