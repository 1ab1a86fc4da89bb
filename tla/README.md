# A TLA+ model of mta-api

mta-api answers questions about New York's subway and its two railroads: live
arrivals, vehicles and alerts, read from the MTA's GTFS-Realtime feeds, and
timetables, read from a SQLite database that is built daily and shipped to the
machines that run the server. This directory holds TLA+ modules for the parts
whose behaviour depends on the order of things, TLC configurations that check
them on small instances, and TLAPS proofs of the properties that matter most.

## 1. The system

| Component | State it keeps | Operations | Interacts with | What is hard | What makes it correct |
|---|---|---|---|---|---|
| Feed cache (`src/cache/rtCache.ts`, `feed.service.ts`) | `cache`, `pending`, `degraded`, the memoised message type | `getFeed`: hit, join, fetch, finally, retry, give up | every realtime handler calls it; it calls upstream | interleaving at awaits; retries after a shared failure; completions out of order | answers no older than TTL + timeout; one fetch while nothing fails; an honest degraded mark; every call answered |
| `GET /alerts` (`alerts.routes.ts`, `alerts.service.ts`) | none; the client keeps a copy and its ETag | probe, 304, payload, 503 | two `getFeed` calls per conditional request | the feed changes between the two; ETags replayed across queries, machines and outages | a 304 never misleads; copies do not move back |
| Rate limiter (`rateLimit.ts`) | `store`, an interval timer | admit, deny, sweep | first middleware of every request | requests, window ends and sweeps at the same instant; rounding | burst bound; no spurious 429; Retry-After honoured; store bounded |
| Publication and installation (`build-db.yml`, `fetch-db.ts`, `start.sh`) | three objects in a bucket; database, -wal, label and .new on the volume | three uploads, roll; version, checksum, download, swap, label | the server opens what the script installed | publication races with boots; kills between steps; stale reads; missing checksum | label never ahead of the database; never an older database; every boot ends; the fleet catches up |
| Static sync (`static.service.ts`, `staticFeed.ts`, `seed.ts`) | seven tables, `feed_meta` | clear, import table by table, mark synced | builds what is published | one table of several fails; batches | no feed is marked synced with partial tables |
| Schema and startup (`client.ts`, `startup.ts`, `healthCache.ts`) | schema, `state.health` | migrate, count, refuse an empty database | runs before the server listens | old database, new code | boot never drops data and never stops on an old schema |
| Service dates and calendar (`serviceDate.ts`, `serviceCalendar.ts`) | none | dates of an instant, windows of dates, the origin of a service day, active services in two forms | every timetable query, and the choice of feeds | days of 23 and 25 hours; service past midnight; two forms of one test | shown instants read as published; windows hold the dates they should; the two forms agree |
| Schedule board and trip lookup (`schedule.service.ts`, `queries/schedule.ts`) | none; the client keeps a cursor | candidates per date and platform, pruning, order, page, cursor; identifier to trip to date | the database, the transfer search | early cut-offs, ties, several dates and platforms, a cursor of one second | paging neither loses nor repeats; nothing better is left out; a trip is dated by a day on which it runs |
| Transfer search (`transferSearch.ts`, `queries/transfers.ts`) | none | two leg queries, buckets per stop, best second leg, one journey per first train | called by the board | bounds on both legs, a break that relies on order | every journey worth showing is found |
| Arrivals and vehicles (`realtime.service.ts`, `queries/realtimeFeed.ts`) | none between requests | resolve the stop, choose feeds, ask each, collect, reply | `getFeed` once per feed, one after the other | time passes between the feeds; one of several fails; trains of yesterday | flags and times describe the whole answer; no train missed; an answer in bounded time |
| Stops and routes lookup | none | lookups | the database | | |
| HTTP shell, MCP server, parsing, schemas | none | | | | |

The server is one JavaScript process: two requests interleave only where a
handler awaits. The database is read-only while it runs. The parties that are
really concurrent are the handlers waiting for feeds, the clients, the timer,
and the CI job against the machines that boot.

## 2. The modules

| Module | Models | State | Extends |
|---|---|---|---|
| `RtCache` | `src/cache/rtCache.ts` | `cache`, `pending`, `degraded`, `feedType` are the module's own variables; `call[c]` is a suspended `getFeed` with its locals; `fetch[c]` the `fetchAndParse` that call started; `now` is `Date.now()` | |
| `RtCacheProofs` | proofs about it, and that it implements `FeedContract` | | `RtCache` |
| `FeedContract` | what `getFeed` promises, without the cache | `answer[c]`: idle, waiting until an instant, or a message with its mark, or an error | |
| `AlertsQuery` | query parsing, filter and ETag of `/alerts` | none | |
| `AlertsApi` | the handler of `GET /alerts` and its clients | `step`, `query`, `ifNoneMatch` of each request; `held`, `status` of each client | `RtCache`, instance of `AlertsQuery` |
| `AlertsApiProofs` | proofs about it | | `AlertsApi`, `RtCacheProofs` |
| `RateLimit` | `src/middleware/rateLimit.ts` | `store` per key, `sweepAt` the timer | |
| `RateLimitProofs` | proofs about it | | `RateLimit` |
| `FetchDb` | the publish step of `build-db.yml`, `fetch-db.ts`, `start.sh` | the job's step and the bucket's objects; the boot's step, its locals and the files of the volume | |
| `FetchDbProofs` | proofs about it | | `FetchDb` |
| `StaticDb` | `seed.ts`, `static.service.ts`, `staticFeed.ts`, the migration in `client.ts`, `startup.ts`, `vacuum-into.ts` | `shape`, `rows`, `stamp` are the database file; `at`, `n`, `feed`, `pos`, `batch` where the seed is; `server` the process that boots on the file | |
| `StaticDbProofs` | proofs about it | | `StaticDb` |
| `ServiceDates` | `utils/serviceDate.ts` | none | |
| `ServiceCalendar` | `queries/serviceCalendar.ts` | none | `ServiceDates` |
| `ServiceDatesProofs` | proofs about both | | `ServiceCalendar` |
| `TransferSearch` | the leg queries of `queries/schedule.ts`, `queries/transfers.ts`, `transferSearch.ts` | none | `ServiceCalendar` |
| `Stations` | stops, platforms and served routes: the lookups of `queries/stops.ts`, `queries/realtimeFeed.ts` | none | `TransferSearch` |
| `Schedule` | `schedule.service.ts`: `getSchedule`, `getTripSchedule` | none | `Stations` |
| `Arrivals` | `realtime.service.ts`: `getArrivalsForStop`, `getVehiclesForRoute` | `visit`: the request under way, what it has heard and collected | `FeedContract`, `Stations` |
| `Queries` | a client of boards, trips, arrivals and vehicles | `db`, the timetable; `screen`, the pages or the trip it looks at | `Schedule`, `Arrivals` |
| `QueriesProofs` | proofs about arrivals | | `Queries`, `ServiceDatesProofs` |
| `ScheduleProofs` | proofs about boards and trips | | `QueriesProofs` |
| `MCRtCache`, `MCAlertsApi`, `MCFetchDb`, `MCStaticDb`, `MCQueries` | constants for TLC | | their module |

**RtCache.** One action per stretch of code between two awaits: `Hit`, `Join` and
`Start` are a call up to its first await or return; `Decode` and `Fail` are
`fetchAndParse` when the body or the error arrives, with `cache.set` and
`markRecovered`; `Finally` is the handler that deletes the pending entry, and
wakes whoever awaits the promise; `Return`, `Retry` and `GiveUp` are the
continuations, the last with `markDegraded`. A feed message is the instant of the
snapshot it holds. Decisions worth knowing:

- Continuations of settled promises run before the event loop takes another I/O
  event or timer (`Quiet`), but in any order among themselves, and a new call may
  begin among them. That is a little more freedom than the engine's promise
  queue has. The two counterexamples do not use it: their runs admit new
  calls only while the loop is idle (`ArrivalsWhenIdle`).
- Loading the message type, which happens once, is part of the decode that needs
  it. Its promise is memoised also when it is rejected, so `feedType` can become
  `"broken"`, and then every decode fails.
- `Read` is upstream taking the snapshot, between the request and its answer: two
  answers may arrive in the opposite order of their snapshots.
- `Ttl` is at least one instant, `Timeout` any number.
- `failed` and `outcome` are history variables.

**AlertsApi.** A request makes one `getFeed` call, two if it carries
If-None-Match. The ETag is the pair of the snapshot's publication and the text the
handler hashes; only the hash is taken to be injective. Upstream's timestamp
changes when its alerts do. A client sends any query with the ETag of its last
200, and may begin with a copy from another machine or from before a restart.

That text (`QueryKey`) is spelled as in the code: routes, stops and keys are
sequences of words, commas and bars, two words never side by side, so that different
sequences are different texts. Routes are put in the order of `sort()` (`Rank`) and
joined with commas, the three parts with bars, and nothing is escaped. Two kinds of
queries share a key and select different alerts, and are the exceptions of
`NotModifiedSound`. A list of routes that is present but names none (`?routes=,`)
turns the filter on and lets nothing through, while it is spelled like no list at all
(`NamesNoRoute`, the subject of `AlertsReplayClaim`). And a bar that the caller wrote
reads like one that ends a part: `?routes=A,X|Y` and `?routes=A,X&stop_id=Y|` are both
`A,X|Y||` (`NamesBar`, when both have one). No comma can mislead: a route is what lies
between two of them, and one in a stop comes after the first bar.

**RateLimit.** The middleware decides without an await, so a request is one step;
the timer runs when it is due. `age` and `retryAt` are history variables: how long ago
each bucket's last admissions were, as far back as twice the limit. The
clock is finer than a second, because Retry-After is not.

**FetchDb.** A build is a number; objects and files are represented by the build
they come from. One machine is enough, since machines do not interact. The boot
script is a step per request and per file operation, and may be killed before
each. A download that is cut off leaves a part of a file in `.new`, which the
next boot overwrites without reading: the model keeps the old `.new`. `store`
says what the object store may do: serve an overwritten `mta.db.gz`, as
`build-db.yml` reports, or fail to return the checksum. Only `mta.db.gz` is large
enough to be cached, so the two small objects are read as last written.

**StaticDb.** The seed is a list of transactions and the model takes them one at a
time: each DROP, CREATE and DELETE outside a transaction is a step, `Clear` and
each upsert a whole one, `Push` a row of `stop_times.txt` with the flush of a full
batch. `Kill` may fall between any two. A row is its primary key, the rows its
foreign keys name, so that `ParentsExist` and `Referenced` are SQLite's checks, and
the line of the file it was parsed from, which stands for all other columns: `INSERT
OR REPLACE` leaves the last line of a key, and `transfers`, which has no key, takes
every line. A table is a set of rows. A table has the current shape, an old one, or is absent;
old shapes are those `needsRebuild` looks for, in `stops`, `stop_times` and
`trips`. An old `stops` has no feed column: the model still lists its rows by
feed, and uses only whether there are any. A run in CI starts without a file and
is published when it succeeds; a local file stays, and a server may boot on it
even while a seed runs. The boot is one step, since the process does nothing else
meanwhile. The counts of `/health` are left out, except that computing them
throws when `stops` is old.

**FeedContract.** A call is answered at once with a message no older than the TTL
plus a timeout, or waits for a fetch that is settled by its `due`; a caller that
only joined a fetch may wait once more, for its own. A fetch ends with a message
at most a timeout old, with the message the caller found on entry, marked stale,
or with an error. `RtCache!Told` is the refinement mapping: what a `getFeed` call
in each of its states has told its caller, `Due` the instant at which its fetch is
aborted. The contract has no module state of the cache in it, so `Arrivals` is a
composition with what the cache promises, and holds over `RtCache` because
`RtCache` implements it.

**ServiceDates, ServiceCalendar.** An instant is a number of seconds and a date a
number of days, whose order is that of `YYYYMMDD` strings. `Offset` is what
`tzOffsetMillis` finds out: one change to summer time and one back are all that a
request can see. Formatting is left out; the steps of 24 real hours, the test
`hour < 5` and noon less twelve hours are kept as they are. `Shifted` and
`InReach` are not code: they say which stop times and dates a change of the clocks
costs, and the theorems show that they say it exactly.

**TransferSearch, Stations, Schedule.** The queries are sets of rows in the order
their `ORDER BY` gives them; where SQL leaves the order of equals open the module
says which it takes. `CandidatesOf` is the body of the loop over dates and
platforms, with the cut-off `UntilSeconds`. `Candidates` is what the loop has pushed:
a function of places, a place being a date, a platform and a number, whose order is the
order in which they were pushed. `PruneDominated`, `Sorted` and `NextAfter` are the rest
of `getSchedule`; the sort is stable because the place is the last part of `PageKey`. `Reached` is the loop of the search with
its `continue` and its `break`. Trip identifiers are numbers, and `tails` what a
realtime identifier of the trip may be. Both services have a copy of `resolveStop`
and of `resolvePlatformIds`; `Stations` has one.

**Arrivals.** One step per stretch between two awaits: `BeginArrivals` up to the
loop, `AskNext` to the next `await getFeed`, `Hear` from the answer to the end of
the loop's body, `Reply`. `visit.started` is the `now` that is read before the loop;
`matched`, `stale` and `feedError` are the locals the loop fills, and `heard` keeps
the answers they came from. `SoonestFirst` is sort and slice: which of two trains of
one second comes first depends on how feeds list them, and is left open.
The feeds are asked in any order, since the order of the routes a query returns is
open. `Updates` is what the realtime feeds have to say; a snapshot lists the trains
that have not left yet. Vehicles ask one feed, and know neither stale nor
feed_error: its error is their 503.

**Queries.** The database does not change while the server runs, so the board and
the trip lookup are functions of the request and the clock; what makes a behaviour
is the client, which sends the cursor of the last page with the same request. The
route handlers and the MCP tools pass the request on to the same services, so a
client stands for both.

## 3. The runs

| Run | Instance | Shows |
|---|---|---|
| `RtCacheSafety` | 3 calls, 2 feeds, TTLs 1 and 2, timeout 1, 3 instants (an entry of each feed expires and is replaced), calls symmetric | the invariants of the cache, the inductive invariant, the refinement of `FeedContract`; 0.77 million states |
| `RtCacheDedupClaim` | 3 calls, 1 feed | *violation*: a failed shared fetch is followed by parallel fetches |
| `RtCacheStaleClaim` | 3 calls, 1 feed | *violation*: a call throws although the cache holds a message |
| `AlertsApiQueries` | 1 client, 9 queries, among them a list that names no route, stops with a comma and a bar, a route with a bar, 2 publications | `NotModifiedSound`, `NotModifiedFresh` |
| `AlertsApiClients` | 2 clients, 2 publications | `CopiesMoveForward`, `RequestAnswered` |
| `AlertsReplayClaim` | 1 client, 9 queries | *violation*: a 304 for a query that was never fetched |
| `RateLimit` | 1 address, limits 2 and 3, a window of 3 instants at 2 per second, 3 windows | the bound on bursts, the sweep, the 429s |
| `FetchDb` | 3 builds, 2 kills, 2 failures, both kinds of store | the invariants of installation, that boots end and machines catch up |
| `FetchDbChecksumClaim` | 2 builds, a store with both weaknesses | *violation*: a stale database under a new label |
| `StaticDb` | 2 feeds, 3 archives, batches of 2, 2 kills, 2 failures | what is published and stamped is whole, the migration completes, only the seed deletes, a seed run often enough succeeds |
| `StaticDbBootClaim` | 1 feed | *violation*: a server exits on a database of an older schema |
| `Queries` | 388 timetables, 3 pages, 2 realtime feeds, TTL and timeout of a second | boards: `NothingLost`, `ShownOnce`, `ShownUndominated`, `JourneysKept`; times and dates: `PublishedTimeKept`, `TripRunsOnDate`; arrivals: `RepliesInTime`, `FreshnessOfReply`, `NoTrainMissed`, `RequestReplied` |

Why the bounds are enough. Two fetches of one feed overlap only after a failure
they share, which takes two callers of one fetch and a third call to find the
cache filled between; three instants let an entry be stored, expire, and be
replaced or fail to be. Two publications are what a copy needs to move back.
Three builds let a boot begin under one, download under another and restart under
a third. Two feeds let the first be committed when the second fails; the archives
have a repeated id, a repeated transfer, rows that are skipped, a missing file, a
last batch that is not full, a stop time that is listed again after a full batch, and
a stop time without its stop that comes after a committed batch. Two kills interrupt a run and the one that repairs it. Three windows let a sweep fall before, at and after an expiry.

The properties of a board compare its pages with the timetable itself: `Through`
is every direct trip and `WithOneChange` every pair of legs that connects, with no
search. They speak of what departs within 30 hours of the start of its service date
(`InHours`): the code does not look at a date for anything later
(`schedule.service.ts:36-40`, `:151`). The timetables of `Queries` are:

- every choice of one to four out of ten trains around noon, which hold a stop with
  a minimum of its own, a wait one second over the hour, a train that stays the same
  over the change, an excluded stop, two interchanges of one first train, equal
  departures, an arrival that is not published, and journeys that beat a slower
  through train or are beaten by one;
- three trains of which one leaves at 24:30, asked for from the evening before the
  23-hour day to the last hour of the 25-hour day, with a service that a date adds
  and a date removes;
- a subway station with two platforms on two feeds, and a railroad, whose trains
  come within the seconds a request takes: just before midnight, just before five,
  and in the first hour after the 23-hour day.

Pages of one to three rows make full pages, short pages and pages cut in the middle
of a second. Two feeds let one fail or lag while the other answers, four seconds are
what the longest reply over both takes. That these cases occur was confirmed by
asking TLC for states with a guaranteed connection, a third page with a change, a
page that names a date twice, a departure that a change of the clocks shifts, a
last-second loss, a subway trip found by its end and dated yesterday, a reply from
two failing feeds, and a reply at the bound of `FreshnessOfReply`.

### Fairness

- *Cache.* A continuation that is ready runs (`WF`). A fetch settles (`SF`): its
  abort signal fires at the latest, and completions are handled in turn although
  others keep arriving, each of which makes the loop busy for a moment.
- *Handlers.* A handler whose `getFeed` has returned goes on. Nothing obliges a
  client to send a request.
- *Boot.* Requests carry a timeout, so the script moves on. A machine that is off
  is started, by the next request or the roll. The job's uploads run; a job may
  abort, except the last one, which gives `CatchesUp` something to reach.
- *Seed.* A seed that is not killed goes on, and one that failed is run again: in CI
  by the daily schedule, locally by the developer who needs the data.
- *Queries.* `WF(Serve)`: the event loop resumes a handler whose await is over.
  `WF(Settles)`: a fetch settles, at the latest when its abort signal fires. The
  clock needs no fairness for that, and no client is obliged to ask.
- The rate limiter states no liveness.

## 4. The proofs

For every number of calls, feeds, TTLs and any timeout, `RtCacheProofs` shows
`TypeOK`, `PendingLive`, `FreshnessBound`, `DedupUntilFailure`, `DegradedHonest`
and `MonotoneUntilFailure`, from `CacheAssumption` alone. None of them is
inductive. `IInv` adds what makes them so:

- `FetchInv`: a live fetch belongs to a call that awaits it and is at most
  `Timeout` old, because the clock does not pass the abort;
- `AwaitInv`: whoever awaits, awaits a live fetch of its own feed;
- `AgeInv`: the age of a snapshot when it was stored, which bounds the age of an
  answer during the TTL that follows;
- `NoFailureInv`: while a feed has not failed, its only live fetch is the one in
  `pending`, sent after the cached entry was stored, and nobody is about to retry.
  `DedupUntilFailure` and `MonotoneUntilFailure` follow;
- `DegradedInv`: the mark agrees with the last outcome except while the failed
  fetch's own call has yet to run its catch block.

There is a lemma per conjunct (`TypeStep`, `PendingStep`, `FetchStep`, ...) with a
case per action. `FinallyEffect` states once what the finally handler does to the
calls.

`RtCacheProofs` also shows that the cache implements `FeedContract`, for the same
constants. The inductive invariant supplies what the mapping needs: `AgeInv` that a
hit is young enough, `FetchInv` that a fetch is settled in time and its message no
older than it, `AwaitInv` that a call waits for something. `CapturedInv` adds that
what a call captured on entry is a message of the past. Every action of the cache
is an `Ask`, a `Settle`, a tick or a stutter of the contract: `Finally` is the step
that settles, for all callers of the fetch at once, and the continuations tell
nobody anything new. A call that is about to retry counts as waiting for its own
fetch already, because the event loop runs it before time goes on.

`FetchDbProofs` shows `LabelNotAhead`, `ServesOwnFiles` and `DbNeverOlder` for any
number of builds, kills and failures, under `NoDoublyWeakStore`: no store both
serves an overwritten database and loses its checksum. Without that assumption
the first is false, as `FetchDbChecksumClaim` shows. The invariant orders the
objects as they are published, no version newer than its checksum and no checksum
newer than its database (`PublishOrder`), and says at each step of a boot that
what it holds is no older than what it will replace and no newer than what was
published (`InstallOrder`); `WalOrder` keeps the -wal with its database.

`AlertsApiProofs` shows `NotModifiedSound`, `NotModifiedFresh` and `CopiesMoveForward`
for every number of clients, every set of queries, publications and alerts. Every step
of the API is a step of the cache or leaves the cache alone, so the cache's `IInv` holds
there as well. `RequestInv` ties a probe to the client's copy: the ETag it carries is
that of the copy's query and publication, since `ApiTypeOK` says so of every copy. What
the ETag tells is then a lemma about the query alone (`KeyDeterminesAlerts`): equal keys
filter equally, unless exactly one of the lists names no route or both queries have a bar.
If one of the two has none, its key has just the two bars that end its parts, so the key
splits in one way (`KeyParts`); then neither list of routes has a bar, every route is one
word, and the words can be read off the joined text (`JoinOfPlain`). It assumes of texts
that the two separators differ from each other and from words, that there is no comma in
a route, and that routes are numbered in their order (`TextAssumption`). `FreshInv`
says that what a handler has in hand is as young as `FreshnessBound` allows, since time
does not pass before it answers. `ForwardInv` follows one message through the cache: as
long as nothing fails, what a fetch stored and what its callers were handed is what the
cache holds, because nothing is decoded while a handler waits to run, and no client's copy
is newer. That a snapshot has a publication at all (`StampIs`) is the existence of a
greatest natural number below a bound.

`RateLimitProofs` shows `TypeOK`, `SlidingBound`, `ExpiredEntriesGo`, `NoSpuriousDenial`
and `RetryHonoured` for every set of addresses, every limit, window and clock.
`SlidingBound` does not say which admissions belong to the window that is open;
`WindowInv` does: the latest of a bucket, as many as its entry counts and at most the
limit, came since the window was opened, those before them did not, and all but `Limit` of
those are a window old, because the window before admitted no more. A swept entry leaves
the same statement about the one that follows. `TimerInv` says that the timer is never
late and that what it left expires after its last turn; `RetryInv` that no 429 named an
instant before the end of its window.

`StaticDbProofs` shows `MigratedBeforeImport` for any feeds, archives and number of
kills. What makes it inductive is `OldTables`: a database without `stops` has no
old table at all, because the DROPs reach `stops` after the two other tables whose
columns `needsRebuild` looks at. `DropProgress` and `CreateProgress` say which
tables each pass has dealt with, while a booting server may create tables under it.

It also shows `TypeOK`, `PublishedWhole`, `StampedWhole` and `RowsLostOnlyToSeed`, for any
number of feeds, any archives, any batch size. `Progress` says what the seed has done at
each of its statements: which feeds are finished and whole, which tables of the feed under
way are whole, which are still empty, and, within `stop_times`, that the lines parsed so
far are those in the table and those in the batch. `InsertWhole` is the lemma under it: a
table that holds all of the lines up to some line, and is given later lines in a batch of
any length, holds all of both; so the cut into batches does not show. A feed whose tables
are being changed carries no stamp, and a run that is published has stamped them all.

`ServiceDatesProofs` is about every zone with one change each way and every instant.
`DayBefore` and `DayAfter` say what a step of 24 hours lands on: yesterday or
tomorrow, except in one hour each around the two changes. `WindowExact` and
`RelevantDates` draw the consequence for the windows. `PublishedTimes` gives the
instant of a stop time up to 48 hours into its service day: the clock then reads as
published if and only if the stop time is not one that `Shifted` lists. All rest on
`Zone`, which places the changes on their dates, and on division with remainder.
`CalendarFormsAgree` needs only the primary key of `calendar_dates`.

`QueriesProofs` shows `RepliesInTime` for every timetable, set of feeds, timeout and
clock. The bound alone is not inductive, because it does not say how much of it is
used up. `TimeInv` budgets it: the time a request has spent, together with what the
call under way may still take (until `due`, and a timeout more if it only joined),
is at most two timeouts for each feed it has turned to, and when no call is under
way no time passes. The feeds it has turned to are those asked less those to do, so
at the reply they are all of them.

`FreshnessOfReply` and `NoTrainMissed` follow from `ServiceInv` on top of it. An answer
that was fresh when it was told has aged no more than the feeds asked since then have
had, or may yet have, to answer (`HeardInv`); with `TimeInv` that is the bound of
`FreshnessOfReply`. The warning is that of the answers (`WarningInv`); every train of
every answer is matched, and nothing else (`MatchedInv`); what is sent is the soonest of
the matched (`ReplyInv`). A train that is scheduled on a date in reach is on a route that
serves the platform on one of the relevant dates, because `RelevantDates` puts the date
among them and `CalendarFormsAgree` makes the two tests of its service one; so its feed is
asked (`FeedIsAsked`), and a reply that is not marked has heard it. What it
assumes of the constants is that times and dates are numbers, that feeds and updates are
finitely many, that a railroad has a feed of its own, and the primary key of
`calendar_dates` (`ArrivalsAssumption`, `QueriesAssumption`).

`ScheduleProofs` shows `NothingLost`, `ShownOnce`, `ShownUndominated`, `JourneysKept`,
`PublishedTimeKept` and `TripRunsOnDate` for every timetable, every request and however
many pages are turned.
What is on the screen is always an answer to the client's request, with some cursor, on
this database (`DisplayInv`); each page after the first begins at the cursor of the one
before, which is later than all that page shows (`BoardInv`). The rest is about
`GetSchedule` as a function of its arguments:

- `OrderBy` is defined by counting predecessors; in a total order the count of a member
  is its rank, so the sequence has every member once and in order (`Ranks`, `OrderIs`).
- `RowsOf` and `OffersOf` say what one date and one platform contribute: the trips of
  the query, all of them unless LIMIT cut it off, and journeys of the search
  (`JourneysOf`), which are never direct trips.
- A query that was cut off has as many trips as a page has room for, and each leaves no
  later than any trip it left out. They are all candidates, none is pruned, so at least
  as many places come before the one that was left out and the page is full before it
  (`FullPage`, `PageComplete`): the trip leaves in the last second of the page or after it.
- Two places of a page that hold one departure hold one leg of one date, hence one place
  of one query, unless the window names the date twice; on two pages the cursor
  separates them.
- For one first leg the search finds every second one that connects: the bound on the
  departures of second legs is the least minimum of all stops, and what follows the break
  waits longer still, since a bucket is in the order of departures (`ChangeIsFound`); and
  what it finds connects (`ChangeIsSound`). So for every change there is a candidate over
  the same first train that arrives no later, unless the search was ended by as many
  direct trips as the page has room for (`BestOffered`, `ChangeOffered`).
- Whatever is a candidate is one of the ways to travel (`CandidateIsAlternative`), and each
  of these within the page is matched by a candidate as good (`AlternativeIsOffered`). Then
  what prunes a journey is on the list, and what is on the list is no better than a journey
  that is no worse choice. Of equal journeys the first in the order of places stays
  (`PrunedJourneys`).
- `PublishedTimeKept` is `PublishedTimes` of every time that is shown, and
  `TripRunsOnDate` comes from `CalendarFormsAgree`.

It assumes of a database that its tables are finite, that trips, stop times and
exceptions have their primary keys, and that times are numbers or absent (`DatabaseOK`).
Of the railroad on which one changes it assumes that a train calls at a stop once and that
its times do not run backwards (`TimetableAssumption`). The code relies on both without
checking them: `bestByFirstLeg` is keyed by train alone (`transferSearch.ts:174-180`),
and the bound on second legs supposes that a train arrives after it left
(`transferSearch.ts:120-124`). The other two feeds have no journeys with a change, and
nothing is assumed of their trains.

Only model-checked is liveness (`RequestAnswered`, `BootEnds`, `CatchesUp`,
`SeedFinishes`, `RequestReplied`). The provers unfold no recursive definition and take no
induction over a data structure; where a fact about naturals needs an induction, the proofs
use that a set of naturals that is not empty has a least element (`LeastNatural`,
`GreatestNatural`). Two facts of this kind are needed of the ETag: that the recursion which
puts the routes behind one another has a solution (`Flattened`), and that every list can be
put in order (`CanBeSorted`). Liveness is out of their reach.

## 5. Where the code and its documentation disagree

1. Deduplication stops at the first failure (`rtCache.ts:92-98`, README line 717).
2. A call that began with an empty cache throws although the cache has been filled
   meanwhile (`rtCache.ts:82,105`, README line 256).
3. A client that replays an ETag can collect a 304 for a response it never fetched, which
   `alerts.routes.ts:18-21` rules out: `?routes=,` and no `routes` at all have one ETag,
   and the first has no alerts in it while the second has all (`alerts.routes.ts:30`).
   Nor does the key escape what it joins (`alerts.routes.ts:29-33`), so two queries that
   both have a `|` may share one ETag, as `?routes=A,X|Y` and `?routes=A,X&stop_id=Y|` do.
4. The checksum does not always catch a stale database (`build-db.yml:66-68`).
5. A server exits at boot on a database whose `stops` has no `feed_id`, because the
   counts for `/health` are computed first (`startup.ts:9`, `client.ts:100-102`).

These five have a run. The following came up while the timetable and the arrivals
were modelled; the properties are stated around them, and name the exception:

6. The board's window is said to be "yesterday, today and tomorrow"
   (`serviceDate.ts:90-92`). A step of 24 hours forward from the first hour of the
   25-hour day, or back from its last, lands on the same date, so the window names it
   twice, each of its trips is listed twice (`ShownOnce`), and tomorrow or yesterday
   is missing; in the hour on either side of the 23-hour day a date is stepped over
   (theorems `DayBefore`, `DayAfter`).
7. `serviceDate.ts:154-158` says that only stop times before 02:00 of the spring date
   are off. So are those before 03:00, those before 01:00 of the autumn date, and
   those from 26:00 on of the two dates before (`Shifted`, theorem `PublishedTimes`).
8. `serviceDate.ts:107-109` describes the offset to add to a UTC instant; the function
   returns its negative, and its caller uses it as such.
9. `getRelevantServiceDates` never names tomorrow, so a request shortly before midnight
   does not ask for a route that runs again only from tomorrow; and in the first hour
   after the 23-hour day it names the day before yesterday instead of yesterday
   (`serviceDate.ts:77`, `InReach`).
10. A page shows a journey beaten by a trip that leaves after the page ends, since only
    what was fetched prunes (README line 381 says without exception that dominated
    journeys are pruned).
11. Departures of the last second of a full page that did not fit are on no page:
    `next_after` is that second plus one (`schedule.service.ts:217`, `LastSecond`).
12. Results are said to "extend arbitrarily far into the future"
    (`schedule.routes.ts:24`), but `next_after` is null as soon as a window of three
    dates does not fill a page, whatever later dates hold.
13. `mcp/tools.ts:278` says that a platform ID gives one direction; `resolveStop` turns
    it into its station, and both directions are returned.
14. `/arrivals` documents a 503 for an unavailable feed (`arrivals.routes.ts:30`).
    `getArrivalsForStop` catches every error of a feed, so a request of which every
    feed failed is a 200 with an empty list that is marked stale. Of several degraded
   feeds the one heard last leaves its error (`realtime.service.ts:157-165`), in an order
   that nothing fixes; `FreshnessOfReply` asks only that it is the error of one of them.
15. README line 697 says that realtime tools return cached data with `stale: true`. Vehicles
    drop the mark: their answer looks the same when it is old.
16. One ETag stands for a stale and for a healthy response, though `alerts.routes.ts:13`
    calls the response deterministic given a snapshot: the `stale` flag is in the body
    (`alerts.routes.ts:118-123`). A client that was sent a stale copy is
    told by later 304s to keep it, mark and all, until upstream publishes again.

## 6. The plan

Done: every component of section 2. Every safety and action property that a run checks is
also a theorem, for all values of the constants; liveness is checked only. What could
still be added:

1. the safety half of liveness: measures that every step of a boot, of a seed and of a
   request for arrivals brings nearer to its end, unless it is killed or fails, so that
   fairness is all that the five liveness properties need besides;
2. the listings of stops and routes, if one of them comes to depend on an order.

## 7. Not modelled

- The search and the listings of stops and routes are queries of their own, without
  state or order. What the other services look up is in `Stations`.
- Presentation: names, headsigns, tracks, train numbers, delays, status, coordinates,
  the texts of alerts, the wording of errors.
- The HTTP shell, logging, cache headers, validation, the informational rate-limit
  headers; the transport of the MCP server, whose tools call the services modelled here.
- CSV, GTFS and protobuf parsing. The archives of `StaticDb` and the messages of the
  feeds begin where parsing has ended.
- The numbers `/health` shows: they are computed once and have no consequence.
- Damage to files on the volume.
