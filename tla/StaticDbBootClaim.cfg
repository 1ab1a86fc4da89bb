\* A server boots on what an older schema left.
SPECIFICATION Spec
CONSTANTS
    FeedCount = 1
    k1 = k1
    k2 = k2
    Key <- MCKey
    Blank = Blank
    NoSeq = NoSeq
    Archive <- MCArchive
    BatchSize = 2
    MaxKill = 2
    MaxFault = 2
    None = None
PROPERTY
    OldSchemaServed
