\* One client, both kinds of path; a window of one and a half seconds.
CONSTANTS
    None = None
    Address = {a1}
    Max = 2
    McpMax = 3
    Window = 3
    Second = 2
    MaxTime = 9
    MaxCount = 4
SPECIFICATION Spec
INVARIANTS
    TypeOK
    SlidingBound
    ExpiredEntriesGo
PROPERTIES
    NoSpuriousDenial
    RetryHonoured
