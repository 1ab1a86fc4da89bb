-------------------------- MODULE TransferSearch ---------------------------
(***************************************************************************)
(* The timetable queries of src/db/queries/schedule.ts and the search for  *)
(* journeys with one change of train, src/services/transferSearch.ts.      *)
(*                                                                         *)
(* A row of stop_times is [trip, stop, seq, arr, dep], its times seconds   *)
(* of the service day or NULL.  Trips are numbered in the order of their   *)
(* identifiers.  Columns that only decorate an answer are left out.        *)
(***************************************************************************)
EXTENDS ServiceCalendar, SequencesExt

CONSTANTS
    NULL,           \* SQL NULL, and an absent parameter
    ExcludedStops   \* EXCLUDED_TRANSFER_STOP_IDS, per feed

ASSUME NullAssumption == NULL \notin Int

DefaultMinConnection == 180
MaxConnection == 60 * 60

-----------------------------------------------------------------------------
(* ORDER BY. *)

\* The order of tuples of numbers, first component first.
Precedes(k, l) ==
    \E i \in DOMAIN k : k[i] < l[i] /\ \A j \in 1..(i - 1) : k[j] = l[j]

\* The members of S in the order of their keys, which are distinct.
OrderBy(S, Key(_)) ==
    [n \in 1..Cardinality(S) |->
        CHOOSE x \in S : Cardinality({y \in S : Precedes(Key(y), Key(x))}) = n - 1]

Take(s, n) == [i \in 1..Min({n, Len(s)}) |-> s[i]]

-----------------------------------------------------------------------------
(* A leg boards at one stop time of a trip and alights at a later one. *)

ServiceOf(d, trip) == (CHOOSE t \in d.trips : t.id = trip).service

\* Every leg of the trips that run on a date.
Legs(d, date) ==
    LET active == GetActiveServiceIds(d, date)
    IN  {l \in [board : d.stopTimes, alight : d.stopTimes] :
            /\ l.board.trip = l.alight.trip
            /\ l.board.seq < l.alight.seq
            /\ l.board.dep # NULL
            /\ ServiceOf(d, l.board.trip) \in active}

LegKey(l) == <<l.board.dep, l.board.trip, l.board.seq, l.alight.seq>>

\* The rows of one departure of one trip come in any order in SQL: here, by stop.
GetScheduledDepartures(d, from, to, date, after, limit) ==
    Take(OrderBy({l \in Legs(d, date) : /\ l.board.stop = from
                                        /\ l.alight.stop \in to
                                        /\ l.board.dep >= after}, LegKey), limit)

GetOutboundLegs(d, from, excluded, date, after, until) ==
    OrderBy({l \in Legs(d, date) : /\ l.board.stop = from
                                   /\ l.board.dep \in after..until
                                   /\ l.alight.arr # NULL
                                   /\ l.alight.stop \notin excluded}, LegKey)

\* Fault: the rows of a stop come in the order of their trips.
InboundByTrip(d, stop, to, excluded, date, earliest) ==
    LET key(l) == <<l.board.trip, l.board.seq, l.alight.seq>>
    IN  OrderBy({l \in Legs(d, date) : /\ l.board.stop = stop
                                       /\ l.board.stop \notin excluded
                                       /\ l.board.dep >= earliest
                                       /\ l.alight.stop \in to
                                       /\ l.alight.arr # NULL}, key)

\* Of one boarding stop at a time, as the search looks them up.  The query sorts by
\* stop, then by departure, and leaves the order of equals open: here, by trip.
GetInboundLegs(d, stop, to, excluded, date, earliest) ==
    OrderBy({l \in Legs(d, date) : /\ l.board.stop = stop
                                   /\ l.board.stop \notin excluded
                                   /\ l.board.dep >= earliest
                                   /\ l.alight.stop \in to
                                   /\ l.alight.arr # NULL}, LegKey)

-----------------------------------------------------------------------------
(* transfers.txt: [type, from, to, fromTrip, toTrip, min]. *)

GetGuaranteedTransferTripPairs(d) ==
    {<<t.fromTrip, t.toTrip>> : t \in {x \in d.transfers : /\ x.type = 1
                                                           /\ x.fromTrip # NULL
                                                           /\ x.toTrip # NULL}}

SameStopTransfers(d) == {x \in d.transfers : x.type = 2 /\ x.from = x.to /\ x.min # NULL}

GetSameStopMinTransferTimes(d) ==
    [stop \in {x.from : x \in SameStopTransfers(d)} |->
        Min({x.min : x \in {y \in SameStopTransfers(d) : y.from = stop}})]

-----------------------------------------------------------------------------
(* findTransferJourneys. *)

\* No second leg can leave earlier than the smallest minimum after the first.
SmallestMinimum(d) ==
    Min({DefaultMinConnection} \cup {x.min : x \in SameStopTransfers(d)})

Minimum(d, stop) ==
    LET min == GetSameStopMinTransferTimes(d)
    IN  IF stop \in DOMAIN min THEN min[stop] ELSE DefaultMinConnection

WaitAt(first, second) == second.board.dep - first.alight.arr

\* The rows of a bucket that the loop looks at: it skips those of the same trip
\* and stops at the first that waits too long.
Reached(first, bucket) ==
    {i \in DOMAIN bucket :
        \A j \in 1..i : \/ bucket[j].board.trip = first.board.trip
                        \/ WaitAt(first, bucket[j]) <= MaxConnection}

Feasible(d, first, bucket) ==
    {i \in Reached(first, bucket) :
        /\ bucket[i].board.trip # first.board.trip
        /\ WaitAt(first, bucket[i]) >= Minimum(d, first.alight.stop)}

\* A stop without a minimum of its own shows none.
Connection(d, first, second) ==
    LET stop == first.alight.stop
        min == GetSameStopMinTransferTimes(d)
    IN  [stop |-> stop,
         wait |-> WaitAt(first, second),
         min |-> IF stop \in DOMAIN min THEN min[stop] ELSE NULL,
         guaranteed |-> <<first.board.trip, second.board.trip>>
                            \in GetGuaranteedTransferTripPairs(d)]

Journey(d, first, second) ==
    [legs |-> <<first, second>>, connections |-> <<Connection(d, first, second)>>]

\* The earliest arrival over one first leg; of equals, the first of the bucket.
BestSecond(d, first, bucket) ==
    LET feasible == Feasible(d, first, bucket)
        earliest == Min({bucket[i].alight.arr : i \in feasible})
    IN  bucket[Min({i \in feasible : bucket[i].alight.arr = earliest})]

\* One journey per trip of the first leg: the one that arrives first, and of
\* equals the first found; in the order in which their trips were met.
BestByFirstLeg(journeys) ==
    LET trip(i) == journeys[i].legs[1].board.trip
        arrival(i) == journeys[i].legs[2].alight.arr
        same(i) == {j \in DOMAIN journeys : trip(j) = trip(i)}
        best(i) == LET earliest == Min({arrival(j) : j \in same(i)})
                   IN  Min({j \in same(i) : arrival(j) = earliest})
        met == OrderBy({i \in DOMAIN journeys : i = Min(same(i))}, LAMBDA i : <<i>>)
    IN  [n \in DOMAIN met |-> journeys[best(met[n])]]

FindTransferJourneys(d, from, to, date, after, until) ==
    LET excluded == ExcludedStops[d.feed] \cup {from} \cup to
        outbound == GetOutboundLegs(d, from, excluded, date, after, until)
        bucket(first) == GetInboundLegs(d, first.alight.stop, to, excluded, date,
                                        after + SmallestMinimum(d))
        connects(first) == Feasible(d, first, bucket(first)) # {}
        journey(first) == Journey(d, first, BestSecond(d, first, bucket(first)))
        firsts == OrderBy({l \in ToSet(outbound) : connects(l)}, LegKey)
    IN  BestByFirstLeg([n \in DOMAIN firsts |-> journey(firsts[n])])
=============================================================================
