\* Three builds, two kills, two failures; both kinds of store.
CONSTANTS
    None = None
    MaxBuild = 3
    MaxCrash = 2
    MaxFault = 2
    Store <- MCStore
SPECIFICATION Spec
INVARIANTS
    IInv
    LabelNotAhead
    ServesOwnFiles
PROPERTIES
    DbNeverOlder
    BootEnds
    CatchesUp
