------------------------------ MODULE Arrivals ------------------------------
(***************************************************************************)
(* GET /arrivals and GET /vehicles: src/services/realtime.service.ts over  *)
(* the promise of getFeed (FeedContract).  One request at a time; it asks  *)
(* for its feeds one after the other and collects what they say.           *)
(*                                                                         *)
(* The instants are those of the contract, in seconds.                     *)
(***************************************************************************)
EXTENDS FeedContract, Stations

CONSTANTS
    Client,         \* the call of getFeed a request makes
    SubwayFeed,     \* SUBWAY_ROUTE_TO_FEED
    Updates         \* what the realtime feeds say of trains, each on the date it belongs to:
                    \* [feed, trip, route, date, stop, terminus, time]

ASSUME ArrivalsAssumption ==
    /\ Client \in Call
    /\ IsFiniteSet(Feed)
    /\ \A r \in DOMAIN SubwayFeed : SubwayFeed[r] \in Feed
    /\ IsFiniteSet(Updates)
    /\ \A x \in Updates : x.time \in Int /\ x.date \in Int

VARIABLE visit  \* the request of the client, and what it has heard

arrivalsVars == <<now, answer, visit>>

NoVisit == [st |-> "none"]

InArrivals == visit.st # "none"

ArrivalsInit == ContractInit /\ visit = NoVisit

-----------------------------------------------------------------------------
(* Feeds. *)

\* The paths of the feeds a set of routes is in; a subway route may be in none.
FeedPaths(d, routes) ==
    IF d.feed = "subway" THEN {SubwayFeed[r] : r \in routes \cap DOMAIN SubwayFeed}
    ELSE {d.feed : r \in routes}

\* A snapshot lists the trains that have not left the stop when it is taken.
InSnapshot(f, m) == {x \in Updates : x.feed = f /\ x.time >= m}

-----------------------------------------------------------------------------
(* getArrivalsForStop.  A request is [stop, routes, direction, limit].      *)

RouteAllowed(q, route) == q.routes = NULL \/ route \in q.routes

DirectionOf(d, stop) == (CHOOSE s \in FindStopsById(d, stop) : TRUE).suffix

DirectionAllowed(d, q, stop) ==
    q.direction = NULL \/ (d.feed = "subway" /\ DirectionOf(d, stop) = q.direction)

\* Fault: the routes of today only.
FeedsOfToday(d, q, platforms, u) ==
    LET served == GetServedRouteIdsByStopIds(d, platforms, {NyDate(u)})
    IN  FeedPaths(d, {r \in served : RouteAllowed(q, r)})

\* Feeds to ask, from the routes that serve the platforms around u.
FeedsToAsk(d, q, platforms, u) ==
    LET served == GetServedRouteIdsByStopIds(d, platforms, ToSet(GetRelevantServiceDates(u)))
    IN  FeedPaths(d, {r \in served : RouteAllowed(q, r)})

\* Fault: only a stale answer counts, a failed feed is skipped in silence.
DegradedIfStale(a) == a.st = "stale"

\* An answer that came from a cache past its time, or an error.
Degraded(a) == a.st # "fresh"

\* An arrival as it is sent; its destination is named when the page is cut out.
ToArrival(d, x) ==
    [train |-> x, in |-> x.time - visit.started, destination |-> ShownAs(d, x.terminus)]

\* Of one message, the trains at the platforms that come after the request began
\* and pass its filters; an error adds none.
Collected(d, a) ==
    IF a.st = "error" THEN {}
    ELSE {ToArrival(d, x) : x \in {y \in InSnapshot(a.feed, a.msg) :
            /\ y.stop \in visit.platforms
            /\ y.time > visit.started
            /\ RouteAllowed(visit.query, y.route)
            /\ DirectionAllowed(d, visit.query, y.stop)}}

\* What sort and slice can leave of the matched trains: the soonest, in order, no more
\* than asked for.  The order in which feeds list their trains is open, and with it the
\* order of equals.
SoonestFirst(limit) ==
    {list \in [1..Min({limit, Cardinality(visit.matched)}) -> visit.matched] :
        /\ IsInjective(list)
        /\ \A m, n \in DOMAIN list : m < n => list[m].train.time <= list[n].train.time
        /\ \A a \in visit.matched \ ToSet(list) : \A n \in DOMAIN list :
                list[n].train.time <= a.train.time}

ArrivalResponse(arrivals) ==
    [status |-> "ok",
     generatedAt |-> visit.started,
     stale |-> visit.stale,
     feedError |-> visit.feedError,
     arrivals |-> arrivals]

-----------------------------------------------------------------------------
(* getVehiclesForRoute: one feed, no word of stale, and its own error.     *)

VehicleResponse(a) ==
    IF a.st = "error" THEN [status |-> "unavailable"]
    ELSE [status |-> "ok",
          generatedAt |-> now,
          vehicles |-> {x.trip : x \in {y \in InSnapshot(a.feed, a.msg) :
                                            y.route = visit.query.route}}]

-----------------------------------------------------------------------------
(* Steps of a request. *)

Visit(kind, query, platforms, todo) ==
    [st |-> "open", kind |-> kind, query |-> query, started |-> now,
     platforms |-> platforms, asked |-> todo, todo |-> todo, heard |-> {}, matched |-> {},
     stale |-> FALSE, feedError |-> NULL, reply |-> NULL]

\* What a request makes of one answer: its trains, and its warning.
WithAnswer(d, a) ==
    [visit EXCEPT !.heard = @ \cup {a},
                  !.matched = @ \cup Collected(d, a),
                  !.stale = @ \/ Degraded(a),
                  !.feedError = IF Degraded(a) THEN a.feed ELSE @]

Replied(v, reply) == [v EXCEPT !.st = "replied", !.reply = reply]

BeginArrivals(d, q) ==
    LET stop == ResolveStop(d, q.stop)
        platforms == ResolvePlatformIds(d, stop)
    IN  /\ ~InArrivals
        /\ visit' = IF stop = NULL
                    THEN Replied(Visit("arrivals", q, {}, {}), NotFound)
                    ELSE Visit("arrivals", q, platforms, FeedsToAsk(d, q, platforms, now))
        /\ UNCHANGED <<now, answer>>

BeginVehicles(d, q) ==
    LET paths == IF q.route \in d.routes THEN FeedPaths(d, {q.route}) ELSE {}
        v == Visit("vehicles", q, {}, paths)
    IN  /\ ~InArrivals
        /\ visit' = IF paths = {} THEN Replied(v, NotFound) ELSE v
        /\ UNCHANGED <<now, answer>>

\* The next call of getFeed, for any feed that is left.
AskNext ==
    /\ visit.st = "open" /\ answer[Client] = Unasked
    /\ \E f \in visit.todo : \E reply \in FirstReply(f) :
        /\ answer' = [answer EXCEPT ![Client] = reply]
        /\ visit' = [visit EXCEPT !.todo = @ \ {f}]
    /\ UNCHANGED now

\* Fault: a feed that failed is asked again.
HearOrRetry(d) ==
    /\ visit.st = "open" /\ answer[Client] # Unasked /\ ~Waiting(Client)
    /\ visit' = IF answer[Client].st = "error"
                THEN [visit EXCEPT !.todo = @ \cup {answer[Client].feed}]
                ELSE WithAnswer(d, answer[Client])
    /\ answer' = [answer EXCEPT ![Client] = Unasked]
    /\ UNCHANGED now

\* Its answer, or its error, arrives; another call would be a new one.
Hear(d) ==
    /\ visit.st = "open" /\ answer[Client] # Unasked /\ ~Waiting(Client)
    /\ visit' = WithAnswer(d, answer[Client])
    /\ answer' = [answer EXCEPT ![Client] = Unasked]
    /\ UNCHANGED now

Reply ==
    /\ visit.st = "open" /\ visit.todo = {} /\ answer[Client] = Unasked
    /\ \/ visit.kind = "arrivals" /\ \E arrivals \in SoonestFirst(visit.query.limit) :
            visit' = Replied(visit, ArrivalResponse(arrivals))
       \/ visit.kind = "vehicles" /\ \E a \in visit.heard :
            visit' = Replied(visit, VehicleResponse(a))
    /\ UNCHANGED <<now, answer>>

\* The client reads the reply.
Leave ==
    /\ InArrivals /\ visit.st = "replied"
    /\ visit' = NoVisit
    /\ UNCHANGED <<now, answer>>

-----------------------------------------------------------------------------
(* The cache and the clock. *)

FetchSettles ==
    /\ Waiting(Client)
    /\ \E outcome \in Outcome(Client) : answer' = [answer EXCEPT ![Client] = outcome]
    /\ UNCHANGED <<now, visit>>

Tick == Waiting(Client) /\ ContractTick /\ UNCHANGED visit
=============================================================================
