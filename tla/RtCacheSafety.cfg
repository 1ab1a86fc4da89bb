\* Three concurrent calls, two feeds with different TTLs.
CONSTANTS
    f1 = f1
    f2 = f2
    None = None
    Call = {c1, c2, c3}
    Feed = {f1, f2}
    Ttl <- MCTtl
    Timeout = 1
    MaxTime = 2
SPECIFICATION Spec
SYMMETRY CallSymmetry
INVARIANTS
    TypeOK
    PendingLive
    IInv
    FreshnessBound
    DedupUntilFailure
    DegradedHonest
PROPERTIES
    MonotoneUntilFailure
    KeepsContract
