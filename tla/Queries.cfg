\* A client of the API over small timetables and feeds.
SPECIFICATION Spec
CONSTANTS
    Client = client
    None = none
    NULL = null
    Timeout = 1
    MaxPages = 3
    Call <- MCCall
    Feed <- MCFeed
    Ttl <- MCTtl
    Instant <- MCInstant
    Starts <- MCStarts
    Spring <- MCSpring
    Fall <- MCFall
    Winter <- MCWinter
    Summer <- MCSummer
    ExcludedStops <- MCExcludedStops
    SubwayFeed <- MCSubwayFeed
    Updates <- MCUpdates
    Worlds <- MCWorlds
    BoardQuery <- MCBoardQuery
    TripQuery <- MCTripQuery
    ArrivalsQuery <- MCArrivalsQuery
    VehiclesQuery <- MCVehiclesQuery
INVARIANTS
    NothingLost
    ShownOnce
    ShownUndominated
    JourneysKept
    PublishedTimeKept
    TripRunsOnDate
    RepliesInTime
    FreshnessOfReply
    NoTrainMissed
PROPERTIES
    RequestReplied
