\* Two feeds, two kills, two faults; batches of two rows, so a file of three
\* batched rows leaves a rest.
SPECIFICATION Spec
CONSTANTS
    FeedCount = 2
    k1 = k1
    k2 = k2
    Key <- MCKey
    Blank = Blank
    NoSeq = NoSeq
    Archive <- MCArchive
    BatchSize = 2
    MaxKill = 2
    MaxFault = 2
    None = None
INVARIANTS
    TypeOK
    PublishedWhole
    StampedWhole
    MigratedBeforeImport
PROPERTIES
    RowsLostOnlyToSeed
    SeedFinishes
