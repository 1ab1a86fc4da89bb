------------------------------ MODULE MCQueries ------------------------------
(* Small timetables and feeds for TLC. *)
EXTENDS Queries

Clock(h, m, s) == h * Hour + m * 60 + s

\* Clocks change on date 10 and on date 20.
MCSpring == 10 * Day + 7 * Hour
MCFall == 20 * Day + 6 * Hour
MCWinter == -(5 * Hour)
MCSummer == -(4 * Hour)

MCExcludedStops == [lirr |-> {"X"}, subway |-> {}, mnr |-> {}]
MCSubwayFeed == [r \in {"1", "A"} |-> IF r = "1" THEN "gtfs" ELSE "ace"]
MCFeed == {"gtfs", "ace", "lirr", "mnr"}
MCTtl == [f \in MCFeed |-> 1]

\* A train: its trip, its route, its service, and its stops as <<stop, arr, dep>>.
Train(trip, route, service, stops) ==
    [trip |-> [id |-> trip, route |-> route, service |-> service,
               tails |-> {100 + (trip % 10)}],
     stopTimes |-> {[trip |-> trip, stop |-> stops[i][1], seq |-> i,
                     arr |-> stops[i][2], dep |-> stops[i][3]] : i \in DOMAIN stops}]

Flat(id) == [id |-> id, type |-> 0, parent |-> NULL, suffix |-> NULL]
Platform(id, parent, suffix) == [id |-> id, type |-> 0, parent |-> parent, suffix |-> suffix]
StationRow(id) == [id |-> id, type |-> 1, parent |-> NULL, suffix |-> NULL]

FlatStops == {Flat(id) : id \in {"A", "J", "W", "X", "B"}}
SubwayStops ==
    {StationRow("P"), Platform("PN", "P", "NORTH"), Platform("PS", "P", "SOUTH"),
     StationRow("Q"), Platform("QN", "Q", "NORTH"), Platform("QS", "Q", "SOUTH")}

Transfers ==
    {[type |-> 2, from |-> "W", to |-> "W", fromTrip |-> NULL, toTrip |-> NULL, min |-> 120],
     [type |-> 2, from |-> "W", to |-> "W", fromTrip |-> NULL, toTrip |-> NULL, min |-> 240],
     [type |-> 1, from |-> "J", to |-> "J", fromTrip |-> 1, toTrip |-> 4, min |-> NULL]}

Database(feed, stops, trains, calendar, calendarDates) ==
    [feed |-> feed, stops |-> stops,
     trips |-> {t.trip : t \in trains},
     routes |-> {t.trip.route : t \in trains},
     stopTimes |-> UNION {t.stopTimes : t \in trains},
     calendar |-> calendar, calendarDates |-> calendarDates,
     transfers |-> IF feed = "lirr" THEN Transfers ELSE {}]

-----------------------------------------------------------------------------
(* Midday on the railroad: any few of these trains. *)

c12(m) == Clock(12, m, 0)

Railroad ==
    {Train(1, "R", "D", <<<<"A", NULL, c12(0)>>, <<"J", c12(10), c12(11)>>, <<"B", c12(40), NULL>>>>),
     Train(2, "R", "D", <<<<"A", NULL, c12(2)>>, <<"J", c12(12), NULL>>>>),
     Train(3, "R", "D", <<<<"J", NULL, Clock(13, 12, 1)>>, <<"B", Clock(13, 20, 0), NULL>>>>),
     Train(4, "R", "D", <<<<"J", NULL, c12(16)>>, <<"B", c12(30), NULL>>>>),
     Train(5, "R", "D", <<<<"A", NULL, c12(5)>>, <<"W", c12(15), c12(15)>>, <<"J", c12(20), NULL>>>>),
     Train(6, "R", "D", <<<<"W", NULL, Clock(12, 17, 30)>>, <<"B", c12(25), NULL>>>>),
     Train(7, "R", "D", <<<<"A", NULL, c12(5)>>, <<"B", c12(24), NULL>>>>),
     Train(8, "R", "D", <<<<"A", NULL, c12(4)>>, <<"B", NULL, NULL>>>>),
     Train(9, "R", "D", <<<<"A", NULL, c12(1)>>, <<"X", c12(6), NULL>>>>),
     Train(10, "R", "D", <<<<"X", NULL, c12(10)>>, <<"B", c12(20), NULL>>>>)}

OneDay(date) == {[service |-> "D", start |-> date, end |-> date, days |-> 0..6]}

Midday == 30 * Day + Clock(17, 0, 0) - 60

RailroadWorlds ==
    {[db |-> Database("lirr", FlatStops, trains, OneDay(30), {}), instants |-> {Midday}] :
        trains \in {s \in SUBSET Railroad : Cardinality(s) \in 1..4}}

-----------------------------------------------------------------------------
(* Days and nights, and the days on which clocks change. *)

Nights ==
    {Train(1, "R", "D", <<<<"A", NULL, Clock(0, 30, 0)>>, <<"B", Clock(0, 50, 0), NULL>>>>),
     Train(2, "R", "D", <<<<"A", NULL, c12(0)>>, <<"B", c12(30), NULL>>>>),
     Train(3, "R", "D", <<<<"A", NULL, Clock(24, 30, 0)>>, <<"B", Clock(26, 10, 0), NULL>>>>)}

NightInstants ==
    {10 * Day + Clock(4, 30, 0),     \* the evening before the 23-hour day
     11 * Day + Clock(4, 0, 0),      \* the hour after it
     20 * Day + Clock(4, 30, 0),     \* the first hour of the 25-hour day
     21 * Day + Clock(4, 30, 0),     \* and its last
     15 * Day + Clock(16, 0, 0)}

NightWorld ==
    [db |-> Database("lirr", FlatStops, Nights,
                     {[service |-> "D", start |-> 8, end |-> 22, days |-> 2..6]},
                     {[service |-> "D", date |-> 21, type |-> 1],
                      [service |-> "D", date |-> 16, type |-> 2]}),
     instants |-> NightInstants]

-----------------------------------------------------------------------------
(* The subway, with two feeds, and Metro-North: trains of a few seconds. *)

Underground ==
    {Train(31, "1", "D", <<<<"PN", NULL, Clock(23, 59, 59)>>, <<"QN", Clock(24, 9, 0), NULL>>>>),
     Train(32, "A", "F", <<<<"PN", NULL, Clock(24, 0, 0)>>, <<"QN", Clock(24, 8, 0), NULL>>>>),
     Train(33, "1", "D", <<<<"QS", NULL, c12(0)>>, <<"PS", Clock(23, 59, 59), NULL>>>>),
     Train(34, "1", "D", <<<<"PN", NULL, Clock(24, 0, 1)>>, <<"QN", Clock(24, 9, 0), NULL>>>>),
     Train(35, "1", "E", <<<<"PN", NULL, 2>>, <<"QN", 600, NULL>>>>),
     Train(36, "A", "F", <<<<"PN", NULL, Clock(29, 0, 0)>>, <<"QN", Clock(29, 9, 0), NULL>>>>),
     Train(41, "1", "E", <<<<"PN", NULL, c12(30)>>, <<"QN", c12(40), NULL>>>>)}

UndergroundInstants ==
    {11 * Day + Clock(4, 0, 0),     \* after the 23-hour day
     13 * Day + Clock(3, 59, 58),   \* before midnight
     13 * Day + Clock(8, 59, 58)}   \* before five

UndergroundWorld ==
    [db |-> Database("subway", SubwayStops, Underground,
                     {[service |-> "D", start |-> 8, end |-> 16, days |-> 0..6]},
                     {[service |-> "E", date |-> 13, type |-> 1],
                      [service |-> "F", date |-> 12, type |-> 1],
                      [service |-> "D", date |-> 14, type |-> 2]}),
     instants |-> UndergroundInstants]

Harlem ==
    {Train(51, "H", "D", <<<<"A", NULL, Clock(24, 0, 1)>>, <<"B", Clock(24, 9, 0), NULL>>>>),
     Train(52, "H", "D", <<<<"A", NULL, Clock(24, 0, 0)>>, <<"B", Clock(24, 9, 0), NULL>>>>)}

HarlemWorld ==
    [db |-> Database("mnr", FlatStops, Harlem, OneDay(12), {}),
     instants |-> {13 * Day + Clock(3, 59, 58)}]

MCWorlds == RailroadWorlds \cup {NightWorld, UndergroundWorld, HarlemWorld}

-----------------------------------------------------------------------------
(* What the feeds say: each train on each date at each of its stops, on time. *)

FeedOf(train) == IF train.trip.route = "H" THEN "mnr" ELSE MCSubwayFeed[train.trip.route]

Said(train, date) ==
    {[feed |-> FeedOf(train), trip |-> train.trip.id, route |-> train.trip.route, date |-> date,
      stop |-> st.stop, terminus |-> IF train.trip.route = "H" THEN "B" ELSE "QN",
      time |-> At(date, IF st.arr # NULL THEN st.arr ELSE st.dep)] : st \in train.stopTimes}

MCUpdates == UNION {Said(t, date) : t \in Underground \cup Harlem, date \in {10, 12, 13}}

MCCall == {Client}
MCStarts == {Midday} \cup NightInstants \cup UndergroundInstants
MCInstant ==
    MCStarts \cup UNION {at..(at + 4) : at \in UndergroundInstants}

-----------------------------------------------------------------------------
(* Requests. *)

Board(from, to, after, date, limit, maxTransfers) ==
    [from |-> from, to |-> to, after |-> after, date |-> date, limit |-> limit,
     maxTransfers |-> maxTransfers]

MCBoardQuery ==
    [lirr |-> {Board("A", "B", NULL, date, limit, NULL) : date \in {NULL, 10, 20}, limit \in 1..3}
                \cup {Board("A", "B", NULL, NULL, 2, 0), Board("A", "Z", NULL, NULL, 1, 1)},
     subway |-> {Board("P", "QN", NULL, NULL, 2, 1), Board("QS", "P", NULL, 13, 1, NULL)},
     mnr |-> {}]

MCTripQuery ==
    [lirr |-> {[id |-> id, date |-> date] : id \in {2, 3, 102}, date \in {NULL, 10}},
     subway |-> {[id |-> id, date |-> date] : id \in {31, 101, 105, 104, 109}, date \in {NULL, 13}},
     mnr |-> {[id |-> 101, date |-> NULL]}]

Arriving(stop, routes, direction, limit) ==
    [stop |-> stop, routes |-> routes, direction |-> direction, limit |-> limit]

MCArrivalsQuery ==
    [lirr |-> {},
     subway |-> {Arriving("P", NULL, NULL, 2), Arriving("PN", {"A"}, "NORTH", 1),
                 Arriving("QS", NULL, "SOUTH", 1), Arriving("Z", NULL, NULL, 1)},
     mnr |-> {Arriving("A", NULL, NULL, 1), Arriving("A", NULL, "NORTH", 1)}]

MCVehiclesQuery ==
    [lirr |-> {}, subway |-> {[route |-> "1"], [route |-> "Z"]}, mnr |-> {[route |-> "H"]}]
=============================================================================
