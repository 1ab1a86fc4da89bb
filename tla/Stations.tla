------------------------------ MODULE Stations ------------------------------
(***************************************************************************)
(* Stops, their platforms and the routes that serve them, as the queries   *)
(* of src/db/queries see them: stops.ts and realtimeFeed.ts.               *)
(*                                                                         *)
(* A row of stops is [id, type, parent, suffix]: location_type 0 is a      *)
(* platform, 1 a station; suffix is the direction the identifier ends in.  *)
(***************************************************************************)
EXTENDS TransferSearch

\* NotFoundError: the request names something that is not in the database.
NotFound == [status |-> "not_found"]

\* findStopsById: at most one row, (feed_id, stop_id) is the primary key.
FindStopsById(d, id) == {s \in d.stops : s.id = id}

IsPlatformStop(d, id) == \E s \in FindStopsById(d, id) : s.type = 0

GetChildPlatformIds(d, id) == {s.id : s \in {x \in d.stops : x.parent = id /\ x.type = 0}}

\* A platform of the subway stands for its station.
Station(d, stop) ==
    IF d.feed = "subway" /\ stop.type = 0 /\ FindStopsById(d, stop.parent) # {}
    THEN stop.parent ELSE stop.id

\* resolveStop, of which both services have a copy; NULL is the NotFoundError.
ResolveStop(d, id) ==
    LET found == FindStopsById(d, id)
    IN  IF found = {} THEN NULL ELSE Station(d, CHOOSE s \in found : TRUE)

\* The stops that stop_times refer to.
ResolvePlatformIds(d, id) ==
    IF d.feed # "subway" \/ IsPlatformStop(d, id) \/ GetChildPlatformIds(d, id) = {}
    THEN {id} ELSE GetChildPlatformIds(d, id)

\* getStopNamesByIds: a platform is shown as its station, if the station is there.
ShownAs(d, id) ==
    LET parents == {p \in d.stops : \E s \in FindStopsById(d, id) : s.parent = p.id}
    IN  IF parents = {} THEN id ELSE (CHOOSE p \in parents : TRUE).id

\* The routes with a trip at one of the stops on one of the dates.
GetServedRouteIdsByStopIds(d, ids, dates) ==
    {t.route : t \in {x \in d.trips :
        /\ \E st \in d.stopTimes : st.trip = x.id /\ st.stop \in ids
        /\ \E date \in dates : ActiveServicePredicate(d, x.service, date)}}
=============================================================================
