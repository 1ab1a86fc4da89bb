------------------------------ MODULE Schedule ------------------------------
(***************************************************************************)
(* GET /schedule and GET /trips/{id}: src/services/schedule.service.ts.    *)
(* Both are functions of the database, the request and the clock; the      *)
(* behaviour is that of a client who turns the pages of a board.           *)
(***************************************************************************)
EXTENDS Stations

MaxDeparture == 30 * Hour

MaxTransfers(d) == IF d.feed = "lirr" THEN 1 ELSE 0

\* A stop time as an instant.
At(date, seconds) ==
    IF seconds = NULL THEN NULL ELSE GetServiceDayOriginUnix(date) + seconds

-----------------------------------------------------------------------------
(* Candidates: a direct trip or a journey, and when it leaves and arrives. *)

Candidate(date, legs, connections) ==
    [date |-> date,
     legs |-> legs,
     connections |-> connections,
     dep |-> At(date, legs[1].board.dep),
     arr |-> At(date, legs[Len(legs)].alight.arr)]

Trip(c) == c.legs[1].board.trip
Changes(c) == Len(c.connections)

Direct(date, leg) == Candidate(date, <<leg>>, <<>>)

\* A full page of direct trips ends the search for journeys at the last of them.
UntilSeconds(rows, limit) ==
    IF Len(rows) = limit THEN rows[limit].board.dep ELSE MaxDeparture

AfterSeconds(date, afterUnix) == Max({0, afterUnix - GetServiceDayOriginUnix(date)})

\* What one date offers from one platform.
CandidatesOf(d, from, to, date, afterUnix, limit, maxTransfers) ==
    LET after == AfterSeconds(date, afterUnix)
        rows == GetScheduledDepartures(d, from, to, date, after, limit)
        journeys == IF maxTransfers < 1 THEN <<>>
                    ELSE FindTransferJourneys(d, from, to, date, after,
                                              UntilSeconds(rows, limit))
    IN  IF after > MaxDeparture THEN <<>>
        ELSE [n \in DOMAIN rows |-> Direct(date, rows[n])]
                \o [n \in DOMAIN journeys |->
                        Candidate(date, journeys[n].legs, journeys[n].connections)]

-----------------------------------------------------------------------------
(* pruneDominated. *)

\* Fault: a trip that leaves at the same time does not compare.
DominatesLater(x, c) ==
    /\ x.arr # NULL /\ c.arr # NULL
    /\ x.dep > c.dep
    /\ x.arr <= c.arr
    /\ Changes(x) <= Changes(c)

\* x leaves no earlier, arrives no later and changes no more often than c, and
\* is better in one of these.  An arrival that is not published compares with none.
Dominates(x, c) ==
    /\ x.arr # NULL /\ c.arr # NULL
    /\ x.dep >= c.dep
    /\ x.arr <= c.arr
    /\ Changes(x) <= Changes(c)
    /\ x.dep > c.dep \/ x.arr < c.arr \/ Changes(x) < Changes(c)

Dominated(c, candidates) == \E n \in DOMAIN candidates : Dominates(candidates[n], c)

\* Direct trips stay; of journeys that compare as equal the first stays.
PruneDominated(candidates) ==
    LET kept == {p \in DOMAIN candidates : \/ Changes(candidates[p]) = 0
                                           \/ ~Dominated(candidates[p], candidates)}
        rank(p) == <<candidates[p].dep, candidates[p].arr, Changes(candidates[p])>>
        stays(p) == \/ Changes(candidates[p]) = 0
                    \/ \A o \in kept : \/ ~Precedes(o, p)
                                       \/ Changes(candidates[o]) = 0
                                       \/ rank(o) # rank(p)
    IN  Restrict(candidates, {p \in kept : stays(p)})

\* The order of a page; the sort is stable.
PageKey(c, p) == <<c.dep, Trip(c), Len(c.legs), p[1], p[2], p[3]>>

Sorted(candidates) ==
    LET key(p) == PageKey(candidates[p], p)
        places == OrderBy(DOMAIN candidates, key)
    IN  [n \in DOMAIN places |-> candidates[places[n]]]

-----------------------------------------------------------------------------
(* getSchedule.  A request is [from, to, after, date, limit, maxTransfers]. *)

CandidateDates(r, u) ==
    IF r.date # NULL THEN <<r.date>>
    ELSE GetScheduleServiceDates(IF r.after # NULL THEN r.after ELSE u)

AfterUnix(r, u) ==
    IF r.after # NULL THEN r.after
    ELSE IF r.date # NULL THEN GetServiceDayOriginUnix(r.date) ELSE u

EffectiveMaxTransfers(d, r) ==
    IF r.maxTransfers = NULL THEN MaxTransfers(d) ELSE Min({r.maxTransfers, MaxTransfers(d)})

\* Every candidate of a request, at the place where it is pushed: a date, a platform,
\* and a number among those of the two.
Candidates(d, r, u) ==
    LET dates == CandidateDates(r, u)
        platforms == SetToSeq(ResolvePlatformIds(d, ResolveStop(d, r.from)))
        to == ResolvePlatformIds(d, ResolveStop(d, r.to))
        of == [x \in (DOMAIN dates) \X (DOMAIN platforms) |->
                  CandidatesOf(d, platforms[x[2]], to, dates[x[1]], AfterUnix(r, u), r.limit,
                               EffectiveMaxTransfers(d, r))]
        places == UNION {{<<x[1], x[2], n>> : n \in DOMAIN of[x]} : x \in DOMAIN of}
    IN  [p \in places |-> of[<<p[1], p[2]>>][p[3]]]

\* Fault: the cursor has the resolution of a minute.
NextMinute(page, limit) ==
    IF Len(page) = limit THEN (page[limit].dep \div 60 + 1) * 60 ELSE NULL

\* Fault: the next page begins with the last departure of this one.
NextAtLast(page, limit) == IF Len(page) = limit THEN page[limit].dep ELSE NULL

NextAfter(page, limit) ==
    IF Len(page) = limit THEN page[limit].dep + 1 ELSE NULL

GetSchedule(d, r, u) ==
    LET due == RestrictValues(Candidates(d, r, u), LAMBDA c : c.dep >= AfterUnix(r, u))
        page == Take(Sorted(PruneDominated(due)), r.limit)
    IN  IF ResolveStop(d, r.from) = NULL \/ ResolveStop(d, r.to) = NULL THEN NotFound
        ELSE [status |-> "ok",
              serviceDates |-> CandidateDates(r, u),
              after |-> AfterUnix(r, u),
              departures |-> page,
              nextAfter |-> NextAfter(page, r.limit)]

-----------------------------------------------------------------------------
(* getTripSchedule. *)

GetTripStops(d, trip) ==
    OrderBy({st \in d.stopTimes : st.trip = trip}, LAMBDA st : <<st.seq>>)

\* Trips whose identifier ends in a realtime one and whose service runs on one
\* of the dates.
FindSubwayTripIdsBySuffix(d, suffix, dates) ==
    {t.id : t \in {x \in d.trips :
        suffix \in x.tails /\ \E date \in dates : ActiveServicePredicate(d, x.service, date)}}

IsTripActiveOnDate(d, trip, date) == ActiveServicePredicate(d, ServiceOf(d, trip), date)

\* Fault: the window of the arrivals.
ResolveRelevantDate(d, trip, date, u) ==
    LET dates == GetRelevantServiceDates(u)
        active == {n \in DOMAIN dates : IsTripActiveOnDate(d, trip, dates[n])}
    IN  IF date # NULL THEN date
        ELSE IF active = {} THEN NULL ELSE dates[Min(active)]

\* An explicit date, or the first of the three on which the trip runs.
ResolveServiceDate(d, trip, date, u) ==
    LET dates == GetScheduleServiceDates(u)
        active == {n \in DOMAIN dates : IsTripActiveOnDate(d, trip, dates[n])}
    IN  IF date # NULL THEN date
        ELSE IF active = {} THEN NULL ELSE dates[Min(active)]

\* The trip an identifier stands for, or NULL.
ResolveTripId(d, id, date, u) ==
    LET dates == IF date # NULL THEN <<date>> ELSE GetScheduleServiceDates(u)
        matches == FindSubwayTripIdsBySuffix(d, id, ToSet(dates))
    IN  IF \E t \in d.trips : t.id = id THEN id
        ELSE IF d.feed = "subway" /\ matches # {} THEN Min(matches) ELSE NULL

ToTripStop(st, date) ==
    [stop |-> st.stop, arr |-> IF date = NULL THEN NULL ELSE At(date, st.arr),
     dep |-> IF date = NULL THEN NULL ELSE At(date, st.dep), row |-> st]

GetTripSchedule(d, id, date, u) ==
    LET trip == ResolveTripId(d, id, date, u)
        rows == GetTripStops(d, trip)
        serviceDate == ResolveServiceDate(d, trip, date, u)
    IN  IF trip = NULL \/ rows = <<>> THEN NotFound
        ELSE [status |-> "ok",
              trip |-> trip,
              exact |-> trip = id,
              serviceDate |-> serviceDate,
              stops |-> [n \in DOMAIN rows |-> ToTripStop(rows[n], serviceDate)]]
=============================================================================
