\* Two builds; an overwritten mta.db.gz may be served and the checksum may be unreadable.
CONSTANTS
    None = None
    MaxBuild = 2
    MaxCrash = 0
    MaxFault = 0
    Store <- MCWeakStore
SPECIFICATION Spec
INVARIANT LabelNotAhead
