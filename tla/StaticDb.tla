------------------------------ MODULE StaticDb ------------------------------
(***************************************************************************)
(* How the static database is made and opened: `bun run seed`             *)
(* (scripts/seed.ts, services/static.service.ts, db/queries/staticFeed.ts) *)
(* and the migration both the seed and the server run (db/client.ts,       *)
(* startup.ts).                                                            *)
(*                                                                         *)
(* The seed is a list of SQLite transactions; it may be killed between any *)
(* two, its downloads may fail, and an archive may break a foreign key.    *)
(* In mode "ci" each run starts from no file and a successful run is       *)
(* published; in mode "local" the file stays from one run to the next and  *)
(* a server may boot on it at any moment.                                  *)
(***************************************************************************)
EXTENDS Naturals, Sequences, Functions

CONSTANTS
    FeedCount,      \* the feeds are 1..FeedCount, in the order they are imported
    Key,            \* primary keys of the rows
    Blank, NoSeq,   \* a row without an id; a stop_times row without a numeric stop_sequence
    Archive,        \* external: the GTFS archives upstream may serve
    BatchSize,      \* BATCH_SIZE
    MaxKill,        \* bound on the number of kills
    MaxFault,       \* bound on the downloads that fail or break a foreign key
    None

Table == {"stops", "routes", "trips", "stop_times", "calendar", "calendar_dates", "transfers"}

\* A row: its primary key and the rows its foreign keys name, with the line of the
\* file it comes from, which tells equal rows of transfers apart.
Ref     == Table \X Key
CsvRow  == [key : Key \cup {Blank, NoSeq}, up : SUBSET Ref]
Parsed  == [line : Nat, key : Key \cup {Blank, NoSeq}, up : SUBSET Ref]
Row     == [line : Nat, key : Key, up : SUBSET Ref]

ASSUME StaticDbAssumption ==
    /\ FeedCount \in Nat \ {0} /\ BatchSize \in Nat \ {0}
    /\ MaxKill \in Nat /\ MaxFault \in Nat
    /\ Blank \notin Key /\ NoSeq \notin Key
    /\ \A a \in Archive : a \in [Table -> Seq(CsvRow)]
    /\ None \notin Archive

Feed == 1..FeedCount

VARIABLES
    mode,       \* "ci" or "local"
    shape,      \* per table: "absent", "old" (made by an earlier schema) or "current"
    rows,       \* per feed and table: its rows
    stamp,      \* the feeds with a row in feed_meta
    at, n,      \* next statement of the seed, and its place in a list of statements
    feed,       \* feedId of the running syncFeed
    files,      \* per feed: the archive last downloaded
    pos,        \* rows of stop_times.txt parsed by the running syncFeed
    batch,      \* the inserter's batch
    server,     \* "off", "up" or "exited"
    published,  \* the last database CI produced and the archives it was made from
    kills, faults

database == <<shape, rows, stamp>>
loop     == <<feed, files, pos, batch>>
vars     == <<mode, database, at, n, loop, server, published, kills, faults>>

-----------------------------------------------------------------------------
(* Tables. *)

ChildrenFirst ==
    <<"stop_times", "trips", "calendar_dates", "calendar", "routes", "stops", "transfers">>

\* Fault: parents are emptied before their children.
ParentsFirst ==
    <<"stops", "routes", "trips", "stop_times", "calendar", "calendar_dates", "transfers", "feed_meta">>

\* Fault: the stamps survive the reset.
ResetKeepsMeta == ChildrenFirst

ResetOrder == Append(ChildrenFirst, "feed_meta")
CreateOrder == <<"stops", "routes", "trips", "stop_times", "calendar", "calendar_dates", "transfers">>
ImportOrder == CreateOrder

Empty == [f \in Feed |-> [t \in Table |-> {}]]

Line(csv, i) == [line |-> i, key |-> csv[i].key, up |-> csv[i].up]
Lines(csv)   == {Line(csv, i) : i \in DOMAIN csv}

Usable(row) == row.key \in Key

\* transfers has no primary key.
SameKey(t, r, s) == t # "transfers" /\ r.key = s.key

\* INSERT OR REPLACE of the parsed lines csv in the order of the file: of several with
\* one key the last stays, and transfers takes every line.
InsertAll(t, table, csv) ==
    LET good == {row \in csv : Usable(row)} IN
    {row \in table : \A r \in good : ~SameKey(t, r, row)}
      \cup {row \in good : \A r \in good : SameKey(t, r, row) => r.line <= row.line}

\* Foreign keys: a row needs its parents, and a row with children cannot go.
ParentsExist(f, csv) ==
    \A row \in csv : Usable(row) =>
        \A ref \in row.up : \E parent \in rows[f][ref[1]] : parent.key = ref[2]
Referenced(f, t, except) ==
    \E u \in Table \ except : \E row \in rows[f][u] : \E ref \in row.up : ref[1] = t

\* Fault: only the shape of stops is looked at.
StopsAreOld == shape["stops"] = "old"

NeedsRebuild ==
    /\ shape["stops"] # "absent"
    /\ \E t \in {"stops", "stop_times", "trips"} :
          shape[t] = "old" \/ (t # "stops" /\ shape[t] = "absent")

-----------------------------------------------------------------------------
(* The seed: migration and reset. *)

Idle == at \in {"off", "failed"} \/ (at = "done" /\ mode = "local")

Goto(label) == at' = label /\ n' = 1

\* An exception reaches main().catch, which exits with 1.
Abort == Goto("failed") /\ UNCHANGED <<database, loop>>

StartSeed ==
    /\ Idle
    /\ Goto("migrate")
    /\ feed' = 1 /\ pos' = 0 /\ batch' = <<>>
    /\ IF mode = "ci"
       THEN /\ shape' = [t \in Table |-> "absent"] /\ rows' = Empty /\ stamp' = {}
            /\ files' = [f \in Feed |-> None]
       ELSE UNCHANGED <<database, files>>
    /\ UNCHANGED <<mode, server, published, kills, faults>>

Migrate ==
    /\ at = "migrate"
    /\ Goto(IF NeedsRebuild THEN "drop" ELSE "create")
    /\ UNCHANGED <<mode, database, loop, server, published, kills, faults>>

\* recreateStaticTables; DROP TABLE deletes the rows first.
Drop ==
    /\ at = "drop"
    /\ LET t == ChildrenFirst[n] IN
       IF \E f \in Feed : Referenced(f, t, {t})
       THEN Abort
       ELSE /\ shape' = [shape EXCEPT ![t] = "absent"]
            /\ rows' = [f \in Feed |-> [rows[f] EXCEPT ![t] = {}]]
            /\ IF n = Len(ChildrenFirst) THEN Goto("create") ELSE at' = at /\ n' = n + 1
            /\ UNCHANGED <<stamp, loop>>
    /\ UNCHANGED <<mode, server, published, kills, faults>>

\* CREATE TABLE IF NOT EXISTS.
Create ==
    /\ at = "create"
    /\ LET t == CreateOrder[n] IN
       shape' = IF shape[t] = "absent" THEN [shape EXCEPT ![t] = "current"] ELSE shape
    /\ IF n = Len(CreateOrder) THEN Goto("reset") ELSE at' = at /\ n' = n + 1
    /\ UNCHANGED <<mode, rows, stamp, loop, server, published, kills, faults>>

\* resetStaticData: one DELETE after the other, in no transaction.
Reset ==
    /\ at = "reset"
    /\ LET t == ResetOrder[n] IN
       IF t = "feed_meta"
       THEN /\ stamp' = {}
            /\ UNCHANGED rows
            /\ Goto("fetch")
       ELSE IF \E f \in Feed : Referenced(f, t, {t})
       THEN Goto("failed") /\ UNCHANGED <<rows, stamp>>
       ELSE /\ rows' = [f \in Feed |-> [rows[f] EXCEPT ![t] = {}]]
            /\ IF n = Len(ResetOrder) THEN Goto("fetch") ELSE at' = at /\ n' = n + 1
            /\ UNCHANGED stamp
    /\ UNCHANGED <<mode, shape, loop, server, published, kills, faults>>

-----------------------------------------------------------------------------
(* syncFeed. *)

\* External: an archive that satisfies the foreign keys.
Sound(a) ==
    \A t \in Table : \A row \in Lines(a[t]) : Usable(row) =>
        \A ref \in row.up :
            \E parent \in Lines(a[ref[1]]) : Usable(parent) /\ parent.key = ref[2]

Fetch(a) ==
    /\ at = "fetch"
    /\ Sound(a) \/ faults < MaxFault
    /\ faults' = IF Sound(a) THEN faults ELSE faults + 1
    /\ files' = [files EXCEPT ![feed] = a]
    /\ Goto("clear")
    /\ UNCHANGED <<mode, database, feed, pos, batch, server, published, kills>>

\* Timeout, HTTP error, or a body unzipSync rejects.
FetchFails ==
    /\ at = "fetch"
    /\ faults < MaxFault
    /\ faults' = faults + 1
    /\ Abort
    /\ UNCHANGED <<mode, server, published, kills>>

\* clearFeedData: all or nothing, children first.
Clear ==
    /\ at = "clear"
    /\ IF \E i \in DOMAIN ChildrenFirst :
              Referenced(feed, ChildrenFirst[i], {ChildrenFirst[j] : j \in 1..i})
       THEN Abort
       ELSE /\ rows' = [rows EXCEPT ![feed] = [t \in Table |-> {}]]
            /\ Goto("import")
            /\ UNCHANGED <<shape, stamp, loop>>
    /\ UNCHANGED <<mode, server, published, kills, faults>>

NextTable == IF n = Len(ImportOrder) THEN Goto("meta") ELSE at' = at /\ n' = n + 1

\* The transaction that inserts csv into t.
Store(t, csv) ==
    rows' = [rows EXCEPT ![feed][t] = InsertAll(t, rows[feed][t], csv)]
Accepted(t, csv) == shape[t] = "current" /\ ParentsExist(feed, csv)

\* upsertStops, upsertRoutes, upsertTrips, upsertCalendar, upsertCalendarDates
\* and upsertTransfers.
Import ==
    /\ at = "import"
    /\ LET t == ImportOrder[n]  csv == Lines(files[feed][t]) IN
       /\ t # "stop_times"
       /\ IF Accepted(t, csv)
          THEN Store(t, csv) /\ NextTable /\ UNCHANGED <<shape, stamp, loop>>
          ELSE Abort
    /\ UNCHANGED <<mode, server, published, kills, faults>>

StopTimes == files[feed]["stop_times"]
Streaming == at = "import" /\ ImportOrder[n] = "stop_times"
CsvLeft   == pos < Len(StopTimes)

\* Fault: a full batch is not written.
PushOnly ==
    /\ Streaming /\ CsvLeft
    /\ pos' = pos + 1
    /\ batch' = Append(batch, Line(StopTimes, pos + 1))
    /\ UNCHANGED <<mode, database, at, n, feed, files, server, published, kills, faults>>

\* push: a row without ids is dropped, a full batch is written.
Push ==
    /\ Streaming /\ CsvLeft
    /\ LET row  == Line(StopTimes, pos + 1)
           full == IF row.key = Blank THEN batch ELSE Append(batch, row) IN
       IF Len(full) < BatchSize
       THEN batch' = full /\ pos' = pos + 1 /\ UNCHANGED <<database, at, n, feed, files>>
       ELSE IF Accepted("stop_times", Range(full))
       THEN /\ Store("stop_times", Range(full))
            /\ batch' = <<>> /\ pos' = pos + 1
            /\ UNCHANGED <<shape, stamp, at, n, feed, files>>
       ELSE Abort
    /\ UNCHANGED <<mode, server, published, kills, faults>>

\* Fault: the rest of the last batch is forgotten.
ForgetFlush ==
    /\ Streaming /\ ~CsvLeft
    /\ pos' = 0 /\ batch' = <<>> /\ NextTable
    /\ UNCHANGED <<mode, database, feed, files, server, published, kills, faults>>

\* flush: the rest of the rows.
Flush ==
    /\ Streaming /\ ~CsvLeft
    /\ IF Accepted("stop_times", Range(batch))
       THEN /\ Store("stop_times", Range(batch))
            /\ pos' = 0 /\ batch' = <<>> /\ NextTable
            /\ UNCHANGED <<shape, stamp, feed, files>>
       ELSE Abort
    /\ UNCHANGED <<mode, server, published, kills, faults>>

\* setFeedMeta, then the next feed of seed.ts.
SetFeedMeta ==
    /\ at = "meta"
    /\ stamp' = stamp \cup {feed}
    /\ IF feed < FeedCount
       THEN Goto("fetch") /\ feed' = feed + 1
       ELSE Goto("analyze") /\ UNCHANGED feed
    /\ UNCHANGED <<mode, shape, rows, files, pos, batch, server, published, kills, faults>>

Analyze ==
    /\ at = "analyze"
    /\ Goto("done")
    /\ UNCHANGED <<mode, database, loop, server, published, kills, faults>>

-----------------------------------------------------------------------------
(* Around the seed. *)

\* The next step of the CI job: vacuum-into.ts copies the database to publish.
Vacuum ==
    /\ mode = "ci" /\ at = "done"
    /\ published' = [rows |-> rows, files |-> files]
    /\ Goto("off")
    /\ UNCHANGED <<mode, database, loop, server, kills, faults>>

Kill ==
    /\ ~Idle
    /\ kills < MaxKill
    /\ kills' = kills + 1
    /\ Goto("off")
    /\ UNCHANGED <<mode, database, loop, server, published, faults>>

\* Fault: the boot may rebuild too.
DestructiveBoot ==
    /\ mode = "local" /\ NeedsRebuild
    /\ shape' = [t \in Table |-> "current"] /\ rows' = Empty
    /\ server' = "up"
    /\ UNCHANGED <<mode, stamp, at, n, loop, published, kills, faults>>

\* getDbCounts selects stops by feed_id (queries/health.ts:25-32): over stops of an
\* older schema it throws.
CountsThrow == shape["stops"] = "old"
StopsEmpty  == \A f \in Feed : rows[f]["stops"] = {}

\* startup: runMigrations without leave to drop (an index over a missing column is
\* skipped), refreshHealthCache, and the look at stops.
Boot ==
    /\ mode = "local"
    /\ server # "up"
    /\ shape' = [t \in Table |-> IF shape[t] = "absent" THEN "current" ELSE shape[t]]
    /\ server' = IF CountsThrow \/ StopsEmpty THEN "exited" ELSE "up"
    /\ UNCHANGED <<mode, rows, stamp, at, n, loop, published, kills, faults>>

StopServer ==
    /\ server = "up"
    /\ server' = "off"
    /\ UNCHANGED <<mode, database, at, n, loop, published, kills, faults>>

\* The rows an import of a sound archive leaves.
Imported(a) == [t \in Table |-> InsertAll(t, {}, Lines(a[t]))]

\* A file that is missing, or made by an earlier run of this or an older schema.
Init ==
    /\ mode \in {"ci", "local"}
    /\ \E a \in Archive, old \in SUBSET {"stops", "stop_times", "trips"} :
          \/ /\ shape = [t \in Table |-> "absent"] /\ rows = Empty /\ stamp = {}
             /\ files = [f \in Feed |-> None]
          \/ /\ mode = "local" /\ Sound(a)
             /\ shape = [t \in Table |-> IF t \in old THEN "old" ELSE "current"]
             /\ rows = [f \in Feed |-> Imported(a)] /\ stamp = Feed
             /\ files = [f \in Feed |-> a]
    /\ at = "off" /\ n = 1
    /\ feed = 1 /\ pos = 0 /\ batch = <<>>
    /\ server = "off" /\ published = None
    /\ kills = 0 /\ faults = 0

Seed ==
    \/ Migrate \/ Drop \/ Create \/ Reset
    \/ (\E a \in Archive : Fetch(a)) \/ FetchFails
    \/ Clear \/ Import \/ Push \/ Flush \/ SetFeedMeta \/ Analyze \/ Vacuum

Next == StartSeed \/ Seed \/ Kill \/ Boot \/ StopServer

\* The seed runs on unless it is killed, and is run again until it succeeds: by
\* the daily schedule of the job, or by the developer who needs the database.
Fairness == WF_vars(Seed) /\ WF_vars(StartSeed)

Spec == Init /\ [][Next]_vars /\ Fairness

-----------------------------------------------------------------------------
(* Properties. *)

Database == [rows : [Feed -> [Table -> SUBSET Row]], files : [Feed -> Archive]]

\* The types of the variables; the inserter never holds a full batch between two
\* rows (staticFeed.ts:192-196), which is what keeps a feed of a million rows out
\* of memory.
TypeOK ==
    /\ mode \in {"ci", "local"}
    /\ shape \in [Table -> {"absent", "old", "current"}]
    /\ rows \in [Feed -> [Table -> SUBSET Row]]
    /\ stamp \subseteq Feed
    /\ at \in {"off", "migrate", "drop", "create", "reset", "fetch", "clear", "import",
               "meta", "analyze", "failed", "done"}
    /\ n \in 1..Len(ResetOrder)
    /\ feed \in Feed /\ files \in [Feed -> Archive \cup {None}]
    /\ pos \in Nat
    /\ batch \in Seq(Parsed) /\ Len(batch) < BatchSize
    /\ server \in {"off", "up", "exited"}
    /\ published = None \/ published \in Database
    /\ kills \in 0..MaxKill /\ faults \in 0..MaxFault

\* What a table must hold after an import: for each id the last line that has it, and
\* of transfers every line; nothing else.
Whole(t, table, csv) ==
    /\ table \subseteq csv
    /\ \A row \in csv : row \in table <=>
          /\ Usable(row)
          /\ t = "transfers" \/
               ~\E later \in csv : later.key = row.key /\ later.line > row.line

\* A published database holds, in every table of every feed, all of the archive
\* downloaded for that feed in the same run, and nothing else (build-db.yml:42-45):
\* a run in which one feed, table or batch failed is not published.
PublishedWhole ==
    published # None =>
        \A f \in Feed, t \in Table :
            Whole(t, published.rows[f][t], Lines(published.files[f][t]))

\* A feed with a last_synced stamp is not half imported (static.service.ts:117):
\* each of its tables holds all of one archive, or was emptied by a reset that
\* has not finished.
StampedWhole ==
    \A f \in stamp : \A t \in Table :
        rows[f][t] = {} \/ Whole(t, rows[f][t], Lines(files[f][t]))

\* From the reset on the seed works on tables of the current schema, whatever it
\* found and wherever an earlier run was killed between two DROPs (client.ts:107-124).
MigratedBeforeImport ==
    at \in {"reset", "fetch", "clear", "import", "meta", "analyze"} =>
        \A t \in Table : shape[t] = "current"

\* A row goes away, unless another of its key takes its place, only by the hand of the
\* seed: a server that boots on a database of an older schema, or in the middle of a
\* seed, keeps what is there (client.ts:97-102).
RowsLostOnlyToSeed ==
    [][(\E f \in Feed, t \in Table : \E row \in rows[f][t] :
            \A r \in rows'[f][t] : r # row /\ ~SameKey(t, r, row)) =>
          \/ at \in {"drop", "reset", "clear"}
          \/ mode = "ci" /\ Idle]_vars

\* If it is run again often enough the seed succeeds, whatever state the failed or
\* killed runs left behind: no order of deletions or leftover row blocks it for good.
SeedFinishes == []<>(at = "done")

(* What the documentation says and the code does not do. *)

\* On a database of an older schema "queries touching the missing column fail until
\* a matching DB is downloaded, but every other endpoint keeps serving"
\* (client.ts:100-102): a server exits at boot only if there are no stops.
OldSchemaServed ==
    [][server # "exited" /\ server' = "exited" => StopsEmpty]_vars
=============================================================================
