------------------------------ MODULE Queries -------------------------------
(***************************************************************************)
(* A client of the API: it turns the pages of a schedule board, looks a    *)
(* trip up, or asks for arrivals and vehicles, one request at a time, over *)
(* a database that stays as it is while the server runs.                   *)
(*                                                                         *)
(* The handlers and the tools of the MCP server pass a request on to the   *)
(* same services (routes/*.routes.ts, mcp/tools.ts).                       *)
(***************************************************************************)
EXTENDS Schedule, Arrivals

CONSTANTS
    Worlds,         \* databases, each with the instants at which it is asked
    BoardQuery,     \* the requests of a client, per feed
    TripQuery,
    ArrivalsQuery,
    VehiclesQuery,
    MaxPages        \* bound: pages of one board

\* Tables are finite.  A trip is one row, and no two of its stop times have one number;
\* a service has one exception on a date at most.
DatabaseOK(d) ==
    /\ IsFiniteSet(d.stops) /\ IsFiniteSet(d.trips) /\ IsFiniteSet(d.stopTimes)
    /\ \A t \in d.trips : t.id \in Nat
    /\ \A t, o \in d.trips : t.id = o.id => t = o
    /\ \A st \in d.stopTimes : /\ st.trip \in Nat /\ st.seq \in Nat
                              /\ st.arr \in Nat \cup {NULL} /\ st.dep \in Nat \cup {NULL}
    /\ \A st, o \in d.stopTimes : st.trip = o.trip /\ st.seq = o.seq => st = o
    /\ \A x, y \in d.calendarDates : x.service = y.service /\ x.date = y.date => x = y
    /\ \A t \in d.transfers : t.min \in Nat \cup {NULL}

\* A train calls at a stop once, and the times of its stops do not run backwards.
OrderlyTimetable(d) ==
    \A st, o \in d.stopTimes : st.trip = o.trip /\ st.seq < o.seq =>
        /\ st.stop # o.stop
        /\ st.dep = NULL \/ o.arr = NULL \/ st.dep <= o.arr

\* The search relies on it on the railroad on which one changes.
ASSUME TimetableAssumption ==
    \A w \in Worlds : MaxTransfers(w.db) > 0 => OrderlyTimetable(w.db)

\* A railroad has one feed of its own; a page has room for something.
ASSUME QueriesAssumption ==
    \A w \in Worlds :
        /\ DatabaseOK(w.db)
        /\ w.db.feed = "subway" \/ w.db.feed \in Feed
        /\ \A q \in ArrivalsQuery[w.db.feed] : q.limit \in Nat
        /\ \A r \in BoardQuery[w.db.feed] :
              r \in [from : {r.from}, to : {r.to}, after : Int \cup {NULL},
                     date : Int \cup {NULL}, limit : Nat \ {0}, maxTransfers : Nat \cup {NULL}]
        /\ \A r \in TripQuery[w.db.feed] : r.date \in Int \cup {NULL}

VARIABLES
    db,             \* the static database, of the feed the client asks about
    screen          \* what the client has on its screen of the timetable

vars == <<now, answer, visit, db, screen>>

Blank == [kind |-> "blank"]

Init ==
    /\ ArrivalsInit
    /\ screen = Blank
    /\ \E w \in Worlds : db = w.db /\ now \in w.instants

Free == screen = Blank /\ ~InArrivals

\* Boards and trips read the clock once, so only the instants of Starts matter.
AtRest == Free /\ now \in Starts

OpenBoard ==
    /\ AtRest
    /\ \E r \in BoardQuery[db.feed] :
        screen' = [kind |-> "board", query |-> r, pages |-> <<GetSchedule(db, r, now)>>]
    /\ UNCHANGED <<now, answer, visit, db>>

\* The same request again, with the cursor of the last page.
TurnPage ==
    /\ screen.kind = "board" /\ Len(screen.pages) < MaxPages
    /\ Last(screen.pages).status = "ok" /\ Last(screen.pages).nextAfter # NULL
    /\ LET r == [screen.query EXCEPT !.after = Last(screen.pages).nextAfter]
       IN  screen' = [screen EXCEPT !.pages = Append(@, GetSchedule(db, r, now))]
    /\ UNCHANGED <<now, answer, visit, db>>

OpenTrip ==
    /\ AtRest
    /\ \E r \in TripQuery[db.feed] :
        screen' = [kind |-> "trip", query |-> r, trip |-> GetTripSchedule(db, r.id, r.date, now)]
    /\ UNCHANGED <<now, answer, visit, db>>

Close ==
    /\ screen # Blank
    /\ screen' = Blank
    /\ UNCHANGED <<now, answer, visit, db>>

Request ==
    /\ Free
    /\ \/ \E q \in ArrivalsQuery[db.feed] : BeginArrivals(db, q)
       \/ \E q \in VehiclesQuery[db.feed] : BeginVehicles(db, q)
    /\ UNCHANGED <<db, screen>>

Serve ==
    /\ AskNext \/ Hear(db) \/ Reply
    /\ UNCHANGED <<db, screen>>

Read == Leave /\ UNCHANGED <<db, screen>>

Settles == FetchSettles /\ UNCHANGED <<db, screen>>

Time == Tick /\ UNCHANGED <<db, screen>>

Next ==
    \/ OpenBoard \/ TurnPage \/ OpenTrip \/ Close
    \/ Request \/ Serve \/ Read
    \/ Settles \/ Time

\* The event loop resumes a handler whose await is over, and every fetch settles,
\* for it is aborted after its timeout.
Spec == Init /\ [][Next]_vars /\ WF_vars(Serve) /\ WF_vars(Settles)

-----------------------------------------------------------------------------
(* What a board promises.  A page covers the time from its `after` up to its
   cursor, or without end if it has none. *)

OnBoard == screen.kind = "board" /\ screen.pages[1].status = "ok"

Covers(page, u) == u >= page.after /\ (page.nextAfter = NULL \/ u < page.nextAfter)

LastSecond(page, u) == page.nextAfter # NULL /\ u = page.nextAfter - 1

Origins == ResolvePlatformIds(db, ResolveStop(db, screen.query.from))
Destinations == ResolvePlatformIds(db, ResolveStop(db, screen.query.to))

\* The trips of a date that go all the way.
Through(date) ==
    {Direct(date, l) : l \in {x \in Legs(db, date) : /\ x.board.stop \in Origins
                                                    /\ x.alight.stop \in Destinations}}

\* No timetable is thought to reach beyond hour 30, and a date is not looked at for
\* what leaves later (schedule.service.ts:36-40, 151).
InHours(c) == c.legs[1].board.dep <= MaxDeparture

\* Every way to change once, with no search: a wait of at most an hour, and at
\* least the minimum of the stop, for another train.
Change(f, s) ==
    /\ f.board.stop \in Origins /\ s.alight.stop \in Destinations
    /\ f.alight.stop = s.board.stop
    /\ f.alight.stop \notin ExcludedStops[db.feed] \cup Origins \cup Destinations
    /\ f.alight.arr # NULL /\ s.alight.arr # NULL
    /\ f.board.trip # s.board.trip
    /\ s.board.dep - f.alight.arr \in Minimum(db, f.alight.stop)..MaxConnection

WithOneChange(date) ==
    {Candidate(date, p, <<Connection(db, p[1], p[2])>>) :
        p \in {x \in Legs(db, date) \X Legs(db, date) : Change(x[1], x[2])}}

Journeys(page) ==
    IF EffectiveMaxTransfers(db, screen.query) = 0 THEN {}
    ELSE {c \in UNION {WithOneChange(date) : date \in ToSet(page.serviceDates)} :
            c.dep >= page.after}

Alternatives(page) ==
    Journeys(page) \cup {c \in UNION {Through(date) : date \in ToSet(page.serviceDates)} :
                            c.dep >= page.after}

\* c is the worse choice: x leaves no earlier, arrives no later, changes no more.
Worse(c, x) ==
    /\ x.arr # NULL
    /\ x.dep >= c.dep /\ x.arr <= c.arr /\ Len(x.legs) <= Len(c.legs)
    /\ <<x.dep, x.arr, Len(x.legs)>> # <<c.dep, c.arr, Len(c.legs)>>

\* However a client turns the pages, every through trip of the dates a page looked
\* at is on it if it leaves in the time the page covers; only trips of the last
\* second of a full page may be left out (schedule.service.ts:156-222).
NothingLost ==
    OnBoard => \A n \in DOMAIN screen.pages :
        LET page == screen.pages[n] IN
        \A date \in ToSet(page.serviceDates) : \A c \in Through(date) :
            InHours(c) /\ Covers(page, c.dep) =>
                c \in ToSet(page.departures) \/ LastSecond(page, c.dep)

\* Nothing is shown twice, on one page or on two, unless a date is in the window
\* twice, as it is in the first and the last hour of a 25-hour day (serviceDate.ts:98-104).
ShownOnce ==
    OnBoard => \A m, n \in DOMAIN screen.pages :
        \A i \in DOMAIN screen.pages[m].departures, j \in DOMAIN screen.pages[n].departures :
            \/ screen.pages[m].departures[i] # screen.pages[n].departures[j]
            \/ <<m, i>> = <<n, j>>
            \/ \E p \in {m, n} : ~IsInjective(screen.pages[p].serviceDates)

\* A journey that is shown is the worse choice against nothing that leaves before
\* the page ends, although the queries stop at LIMIT rows and the search at the
\* last of them (schedule.service.ts:167-183, 254-282).
ShownUndominated ==
    OnBoard => \A n \in DOMAIN screen.pages :
        LET page == screen.pages[n] IN
        \A c \in ToSet(page.departures) : Changes(c) = 1 =>
            \A x \in Alternatives(page) : InHours(x) /\ Worse(c, x) =>
                page.nextAfter # NULL /\ x.dep >= page.nextAfter - 1

\* Every journey that is no worse choice is shown, or one equal to it: the search
\* does not lose it to its bounds, its buckets or its break, nor the page to its
\* pruning (transferSearch.ts:107-184, schedule.service.ts:111-222).
JourneysKept ==
    OnBoard => \A n \in DOMAIN screen.pages :
        LET page == screen.pages[n] IN
        \A c \in Journeys(page) : InHours(c) =>
            \/ \E x \in Alternatives(page) : Worse(c, x)
            \/ page.nextAfter # NULL /\ c.dep >= page.nextAfter - 1
            \/ \E s \in ToSet(page.departures) : /\ Changes(s) = 1
                                                 /\ s.dep = c.dep /\ s.arr = c.arr

-----------------------------------------------------------------------------
(* Times and dates. *)

\* The instant shown for a stop time is the one at which a clock in New York
\* reads the published time, past midnight too and up to two days on, except next
\* to a change of the clocks (serviceDate.ts:160-169).
KeepsReading(date, seconds, u) ==
    u # NULL /\ seconds < 48 * Hour =>
        (Local(u) = date * Day + seconds <=> ~Shifted(date, seconds))

PublishedTimeKept ==
    /\ OnBoard => \A n \in DOMAIN screen.pages :
        \A c \in ToSet(screen.pages[n].departures) :
            /\ KeepsReading(c.date, c.legs[1].board.dep, c.dep)
            /\ KeepsReading(c.date, Last(c.legs).alight.arr, c.arr)
    /\ screen.kind = "trip" /\ screen.trip.status = "ok" =>
        \A n \in DOMAIN screen.trip.stops :
            LET s == screen.trip.stops[n] IN
            /\ KeepsReading(screen.trip.serviceDate, s.row.arr, s.arr)
            /\ KeepsReading(screen.trip.serviceDate, s.row.dep, s.dep)

\* A trip that is looked up without a date is dated by a day on which it runs,
\* always when it was found by the end of its identifier, and is not found only if
\* none that runs around now ends so, or one it may stand for has no stop times
\* (schedule.service.ts:464-541).
TripRunsOnDate ==
    screen.kind = "trip" /\ screen.query.date = NULL =>
        LET named == {t \in db.trips : t.id = screen.query.id \/ screen.query.id \in t.tails}
            runs(t, date) == t.service \in GetActiveServiceIds(db, date)
            around == ToSet(GetScheduleServiceDates(now))
        IN  IF screen.trip = NotFound
            THEN \/ \A t \in named :
                        /\ t.id # screen.query.id
                        /\ db.feed = "subway" => \A date \in around : ~runs(t, date)
                 \/ \E t \in named : \A st \in db.stopTimes : st.trip # t.id
            ELSE LET t == CHOOSE x \in named : x.id = screen.trip.trip
                     date == screen.trip.serviceDate
                 IN  IF date # NULL THEN date \in around /\ runs(t, date)
                     ELSE screen.trip.exact /\ \A other \in around : ~runs(t, other)

-----------------------------------------------------------------------------
(* What a reply from the realtime feeds promises. *)

HasReply == InArrivals /\ visit.st = "replied" /\ visit.reply.status = "ok"

Asked == Cardinality(visit.asked)

\* Two fetches for each feed, one feed after the other.
Longest == 2 * Timeout * Asked

\* A reply comes in time, whatever the feeds do: no call of getFeed waits for more
\* than two fetches, and feeds are asked one after the other
\* (realtime.service.ts:149-172, rtCache.ts:81-114).
RepliesInTime == InArrivals /\ visit.st = "replied" => now - visit.started <= Longest

\* A train that is listed has left no longer ago than the request took, for trains are
\* compared with the instant before the first await.  A reply that is not marked stale
\* has heard every feed it asked, and nothing older than the cache and the waits for
\* the other feeds allow; one that is marked names a feed that failed it
\* (realtime.service.ts:139-216).
FreshnessOfReply ==
    HasReply /\ visit.kind = "arrivals" =>
        /\ \A n \in DOMAIN visit.reply.arrivals :
                visit.reply.arrivals[n].train.time > now - Longest
        /\ IF visit.reply.stale
           THEN \E a \in visit.heard : a.st # "fresh" /\ a.feed = visit.reply.feedError
           ELSE /\ visit.reply.feedError = NULL
                /\ \A f \in visit.asked : \E a \in visit.heard :
                        /\ a.feed = f /\ a.msg # None
                        /\ now - a.msg <= Ttl[f] + Timeout - 1 + 2 * Timeout * (Asked - 1)

\* The timetable has the train of an update on the date it belongs to.
Scheduled(x) ==
    /\ \E t \in db.trips : /\ t.id = x.trip /\ t.route = x.route
                           /\ t.service \in GetActiveServiceIds(db, x.date)
    /\ \E st \in db.stopTimes : st.trip = x.trip /\ st.stop = x.stop
    /\ x.feed \in FeedPaths(db, {x.route})

\* A reply that is not marked stale lists every train in reach that has yet to
\* come, unless it is full of trains that come no later
\* (realtime.service.ts:125-261, serviceDate.ts:66-87).
NoTrainMissed ==
    HasReply /\ visit.kind = "arrivals" /\ ~visit.reply.stale =>
        LET listed == {a.train : a \in ToSet(visit.reply.arrivals)} IN
        \A x \in Updates :
            /\ Scheduled(x) /\ InReach(x.date, visit.started)
            /\ x.stop \in visit.platforms /\ x.time > now
            /\ RouteAllowed(visit.query, x.route)
            /\ DirectionAllowed(db, visit.query, x.stop)
            => \/ x \in listed
               \/ /\ Cardinality(listed) = visit.query.limit
                  /\ \A y \in listed : y.time <= x.time

\* Every request for arrivals or vehicles is answered, whatever the feeds do.
RequestReplied == (InArrivals /\ visit.st = "open") ~> (InArrivals /\ visit.st = "replied")
=============================================================================
