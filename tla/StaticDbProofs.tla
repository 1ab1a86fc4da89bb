--------------------------- MODULE StaticDbProofs ---------------------------
(***************************************************************************)
(* The migration of the seed is complete from wherever it starts again,    *)
(* and what the seed stamps or CI publishes is all of its archives.        *)
(*                                                                         *)
(* MigratedBeforeImport is not inductive: a run killed between two DROPs   *)
(* leaves some old tables, which the next run must recognise.  It does     *)
(* because stops goes after the two other tables whose columns             *)
(* NeedsRebuild looks at, so that a database without stops has no old      *)
(* table; MigrationInv says so.  Progress says what the seed has done at   *)
(* each of its statements: which feeds and tables are whole, which are     *)
(* still empty, and how the lines of stop_times.txt that have been parsed  *)
(* are shared between the table and the batch.                             *)
(***************************************************************************)
EXTENDS StaticDb, TLAPS, WellFoundedInduction

Labels == {"off", "migrate", "drop", "create", "reset", "fetch", "clear", "import",
           "meta", "analyze", "failed", "done"}
Importing == {"reset", "fetch", "clear", "import", "meta", "analyze"}

ShapeType ==
    /\ shape \in [Table -> {"absent", "old", "current"}]
    /\ at \in Labels /\ n \in Nat

\* Only these tables have an older form, and none of them outlives stops.
OldTables ==
    /\ \A t \in Table : shape[t] = "old" => t \in {"stops", "stop_times", "trips"}
    /\ shape["stops"] = "absent" => \A t \in Table : shape[t] # "old"

DropProgress ==
    at = "drop" =>
        /\ n \in 1..7
        /\ n > 1 => shape["stop_times"] # "old"
        /\ n > 2 => shape["trips"] # "old"
        /\ n > 6 => shape["stops"] # "old"

CreateProgress ==
    at = "create" =>
        /\ n \in 1..7
        /\ \A t \in Table : shape[t] # "old"
        /\ \A i \in 1..7 : i < n => shape[CreateOrder[i]] = "current"

MigrationInv ==
    ShapeType /\ OldTables /\ DropProgress /\ CreateProgress /\ MigratedBeforeImport

-----------------------------------------------------------------------------

LEMMA Orders ==
    /\ Len(ChildrenFirst) = 7 /\ Len(CreateOrder) = 7
    /\ \A i \in 1..7 : ChildrenFirst[i] \in Table /\ CreateOrder[i] \in Table
    /\ ChildrenFirst[1] = "stop_times" /\ ChildrenFirst[2] = "trips"
    /\ \A i \in 1..7 : i # 1 => ChildrenFirst[i] # "stop_times"
    /\ \A i \in 1..7 : ChildrenFirst[i] = "stops" <=> i = 6
    /\ \A t \in Table : \E i \in 1..7 : CreateOrder[i] = t
<1>1. Len(ChildrenFirst) = 7 /\ Len(CreateOrder) = 7
  BY DEF ChildrenFirst, CreateOrder
<1>2. \A i \in 1..7 : i = 1 \/ i = 2 \/ i = 3 \/ i = 4 \/ i = 5 \/ i = 6 \/ i = 7
  OBVIOUS
<1>3. \A i \in 1..7 : ChildrenFirst[i] \in Table /\ CreateOrder[i] \in Table
  BY <1>2 DEF ChildrenFirst, CreateOrder, Table
<1>4. ChildrenFirst[1] = "stop_times" /\ ChildrenFirst[2] = "trips"
  BY DEF ChildrenFirst
<1>5. /\ \A i \in 1..7 : i # 1 => ChildrenFirst[i] # "stop_times"
      /\ \A i \in 1..7 : ChildrenFirst[i] = "stops" <=> i = 6
  BY <1>2 DEF ChildrenFirst
<1>6. /\ CreateOrder[1] = "stops" /\ CreateOrder[2] = "routes" /\ CreateOrder[3] = "trips"
      /\ CreateOrder[4] = "stop_times" /\ CreateOrder[5] = "calendar"
      /\ CreateOrder[6] = "calendar_dates" /\ CreateOrder[7] = "transfers"
  BY DEF CreateOrder
<1>7. \A t \in Table : \E i \in 1..7 : CreateOrder[i] = t
  BY <1>6 DEF Table
<1> QED BY <1>1, <1>3, <1>4, <1>5, <1>7

LEMMA MigrationInit == Init => MigrationInv
<1> SUFFICES ASSUME Init PROVE MigrationInv
  OBVIOUS
<1>1. at = "off" /\ n = 1
  BY DEF Init
<1>2. PICK old \in SUBSET {"stops", "stop_times", "trips"} :
         \/ shape = [t \in Table |-> "absent"]
         \/ shape = [t \in Table |-> IF t \in old THEN "old" ELSE "current"]
  BY DEF Init
<1>3. ShapeType
  BY <1>1, <1>2 DEF ShapeType, Labels
<1>4. OldTables
  <2>1. "stops" \in Table
    BY DEF Table
  <2> QED BY <1>2, <2>1 DEF OldTables
<1> QED BY <1>1, <1>3, <1>4 DEF MigrationInv, DropProgress, CreateProgress, MigratedBeforeImport

\* A step that leaves the shapes alone and stays in its phase, stops, or moves on
\* within the import keeps the invariant.
LEMMA SameShape ==
    ASSUME MigrationInv, shape' = shape, n' \in Nat,
           \/ at' \in {"off", "migrate", "failed", "done"}
           \/ at' \in Importing /\ at \in Importing
           \/ at' = at /\ n' = n
    PROVE  MigrationInv'
<1> QED BY DEF MigrationInv, ShapeType, OldTables, DropProgress, CreateProgress,
               MigratedBeforeImport, Importing, Labels

LEMMA MigrationStep == MigrationInv /\ [Next]_vars => MigrationInv'
<1> SUFFICES ASSUME MigrationInv, [Next]_vars PROVE MigrationInv'
  OBVIOUS
<1>1. CASE StartSeed
  <2>1. at' = "migrate" /\ n' = 1
    BY <1>1 DEF StartSeed, Goto
  <2>2. CASE mode = "ci"
    <3>1. shape' = [t \in Table |-> "absent"]
      BY <1>1, <2>2 DEF StartSeed
    <3> QED BY <2>1, <3>1 DEF MigrationInv, ShapeType, OldTables, DropProgress,
                              CreateProgress, MigratedBeforeImport, Labels
  <2>3. CASE mode # "ci"
    <3>1. shape' = shape
      BY <1>1, <2>3 DEF StartSeed, database
    <3> QED BY <2>1, <3>1, SameShape
  <2> QED BY <2>2, <2>3
<1>2. CASE Migrate
  <2>1. shape' = shape /\ n' = 1 /\ at = "migrate"
    BY <1>2 DEF Migrate, Goto, database
  <2>2. CASE NeedsRebuild
    <3>1. at' = "drop"
      BY <1>2, <2>2 DEF Migrate, Goto
    <3> QED BY <2>1, <3>1 DEF MigrationInv, ShapeType, OldTables, DropProgress,
                              CreateProgress, MigratedBeforeImport, Labels
  <2>3. CASE ~NeedsRebuild
    <3>1. at' = "create"
      BY <1>2, <2>3 DEF Migrate, Goto
    <3>2. \A t \in Table : shape[t] # "old"
      BY <2>3 DEF NeedsRebuild, MigrationInv, OldTables, Table
    <3> QED BY <2>1, <3>1, <3>2 DEF MigrationInv, ShapeType, OldTables, DropProgress,
                                    CreateProgress, MigratedBeforeImport, Labels
  <2> QED BY <2>2, <2>3
<1>3. CASE Drop
  <2> DEFINE t == ChildrenFirst[n]
  <2>1. at = "drop" /\ n \in 1..7 /\ t \in Table
    BY <1>3, Orders DEF Drop, MigrationInv, DropProgress
  <2>2. CASE \E f \in Feed : Referenced(f, t, {t})
    <3>1. shape' = shape /\ at' = "failed" /\ n' = 1
      BY <1>3, <2>2 DEF Drop, Abort, Goto, database
    <3> QED BY <3>1, SameShape
  <2>3. CASE ~(\E f \in Feed : Referenced(f, t, {t}))
    <3>1. shape' = [shape EXCEPT ![t] = "absent"]
      BY <1>3, <2>3 DEF Drop
    <3>2. \A u \in Table : shape'[u] = IF u = t THEN "absent" ELSE shape[u]
      BY <2>1, <3>1 DEF MigrationInv, ShapeType
    <3>3. /\ n = 7 => at' = "create" /\ n' = 1
          /\ n # 7 => at' = "drop" /\ n' = n + 1
      BY <1>3, <2>1, <2>3, Orders DEF Drop, Goto
    <3>4. n = 7 => \A u \in Table : shape[u] # "old"
      BY <2>1 DEF MigrationInv, OldTables, DropProgress
    <3>5. n = 6 => \A u \in Table : shape'[u] # "old"
      BY <2>1, <3>2, Orders DEF MigrationInv, OldTables, DropProgress
    <3>6. t = "stops" <=> n = 6
      BY <2>1, Orders
    <3>7. ShapeType'
      BY <2>1, <3>1, <3>3 DEF MigrationInv, ShapeType, Labels
    <3>8. OldTables'
      BY <3>2, <3>5, <3>6 DEF MigrationInv, OldTables, Table
    <3>9. DropProgress'
      <4>1. n = 1 => shape'["stop_times"] # "old"
        BY <3>2, Orders DEF Table
      <4>2. n = 2 => shape'["trips"] # "old"
        BY <3>2, Orders DEF Table
      <4>3. n = 6 => shape'["stops"] # "old"
        BY <3>5 DEF Table
      <4> QED BY <2>1, <3>2, <3>3, <4>1, <4>2, <4>3
              DEF MigrationInv, DropProgress, Table
    <3>10. CreateProgress'
      BY <2>1, <3>2, <3>3, <3>4 DEF CreateProgress
    <3> QED BY <3>3, <3>7, <3>8, <3>9, <3>10 DEF MigrationInv, MigratedBeforeImport
  <2> QED BY <2>2, <2>3
<1>4. CASE Create
  <2> DEFINE t == CreateOrder[n]
  <2>1. at = "create" /\ n \in 1..7 /\ t \in Table
    BY <1>4, Orders DEF Create, MigrationInv, CreateProgress
  <2>2. \A u \in Table : shape[u] # "old"
    BY <2>1 DEF MigrationInv, CreateProgress
  <2>3. shape' = IF shape[t] = "absent" THEN [shape EXCEPT ![t] = "current"] ELSE shape
    BY <1>4 DEF Create
  <2>4. \A u \in Table : shape'[u] = IF u = t THEN "current" ELSE shape[u]
    BY <2>1, <2>2, <2>3 DEF MigrationInv, ShapeType
  <2>5. /\ n = 7 => at' = "reset" /\ n' = 1
        /\ n # 7 => at' = "create" /\ n' = n + 1
    BY <1>4, <2>1, Orders DEF Create, Goto
  <2>6. \A i \in 1..7 : i < n + 1 => shape'[CreateOrder[i]] = "current"
    BY <2>1, <2>4, Orders DEF MigrationInv, CreateProgress
  <2>7. n = 7 => \A u \in Table : shape'[u] = "current"
    BY <2>1, <2>6, Orders
  <2>8. ShapeType'
    BY <2>1, <2>3, <2>5 DEF MigrationInv, ShapeType, Labels
  <2>9. OldTables' /\ \A u \in Table : shape'[u] # "old"
    BY <2>2, <2>4 DEF OldTables
  <2>10. CreateProgress'
    BY <2>1, <2>5, <2>6, <2>9 DEF CreateProgress
  <2> QED BY <2>5, <2>7, <2>8, <2>9, <2>10 DEF MigrationInv, DropProgress, MigratedBeforeImport
<1>5. CASE Boot
  <2>1. /\ shape' = [t \in Table |-> IF shape[t] = "absent" THEN "current" ELSE shape[t]]
        /\ at' = at /\ n' = n
    BY <1>5 DEF Boot
  <2>2. \A t \in Table : shape'[t] = IF shape[t] = "absent" THEN "current" ELSE shape[t]
    BY <2>1
  <2>3. ShapeType'
    BY <2>1 DEF MigrationInv, ShapeType
  <2>4. OldTables'
    BY <2>2 DEF MigrationInv, OldTables, Table
  <2>5. DropProgress'
    BY <2>1, <2>2 DEF MigrationInv, DropProgress, Table
  <2>6. CreateProgress'
    BY <2>1, <2>2, Orders DEF MigrationInv, CreateProgress
  <2> QED BY <2>1, <2>2, <2>3, <2>4, <2>5, <2>6 DEF MigrationInv, MigratedBeforeImport
<1>6. CASE Reset
  <2>1. shape' = shape /\ at = "reset"
    BY <1>6 DEF Reset
  <2>2. at' \in {"fetch", "failed", "reset"} /\ n' \in Nat
    BY <1>6 DEF Reset, Goto, MigrationInv, ShapeType
  <2> QED BY <2>1, <2>2, SameShape DEF Importing
<1>7. ASSUME NEW a \in Archive, Fetch(a) PROVE MigrationInv'
  BY <1>7, SameShape DEF Fetch, Goto, database, Importing
<1>8. CASE FetchFails \/ Clear \/ SetFeedMeta \/ Analyze \/ Vacuum \/ Kill
  <2>1. shape' = shape /\ n' = 1
    BY <1>8 DEF FetchFails, Clear, SetFeedMeta, Analyze, Vacuum, Kill, Abort, Goto, database
  <2>2. \/ at \in Importing /\ at' \in Importing
        \/ at' \in {"off", "failed", "done"}
    BY <1>8 DEF FetchFails, Clear, SetFeedMeta, Analyze, Vacuum, Kill, Abort, Goto, Importing
  <2> QED BY <2>1, <2>2, SameShape
<1>9. CASE Import \/ Push \/ Flush
  <2>1. shape' = shape /\ at = "import"
    BY <1>9 DEF Import, Push, Flush, Streaming, Abort, database
  <2>2. at' \in {"import", "meta", "failed"} /\ n' \in Nat
    BY <1>9, <2>1 DEF Import, Push, Flush, NextTable, Abort, Goto, MigrationInv, ShapeType
  <2> QED BY <2>1, <2>2, SameShape DEF Importing
<1>10. CASE StopServer \/ UNCHANGED vars
  <2>1. shape' = shape /\ at' = at /\ n' = n
    BY <1>10 DEF StopServer, vars, database
  <2>2. n' \in Nat
    BY <2>1 DEF MigrationInv, ShapeType
  <2> QED BY <2>1, <2>2, SameShape
<1> QED
  BY <1>1, <1>2, <1>3, <1>4, <1>5, <1>6, <1>7, <1>8, <1>9, <1>10 DEF Next, Seed

\* Whatever file it finds, and wherever earlier runs were killed, the seed imports
\* into tables of the current schema only (client.ts:107-124), for any feeds,
\* archives and number of kills.
THEOREM MigrationComplete == Spec => []MigratedBeforeImport
<1>1. MigrationInv => MigratedBeforeImport
  BY DEF MigrationInv
<1> QED BY <1>1, MigrationInit, MigrationStep, PTL DEF Spec
-----------------------------------------------------------------------------
(* What the seed has done so far. *)

\* The feeds the running seed, or the one that has just ended, has marked as synced.
Synced ==
    IF at \in {"fetch", "clear", "import", "meta"} THEN 1..(feed - 1)
    ELSE IF at \in {"analyze", "done"} THEN Feed
    ELSE {}

Streams == at = "import" /\ n = 4

\* Where the loop over feeds and tables stands.
LoopInv ==
    /\ at \in {"migrate", "drop", "create", "reset"} => feed = 1
    /\ at = "import" => n \in 1..7
    /\ at \in {"clear", "import", "meta"} => files[feed] \in Archive
    /\ \A f \in Synced : files[f] \in Archive
    /\ at \notin {"off", "failed", "analyze", "done"} /\ ~Streams => pos = 0 /\ batch = <<>>

Holds(f, t) == Whole(t, rows[f][t], Lines(files[f][t]))

\* The lines of stop_times.txt after the first i and up to the first j.
Between(i, j) == {row \in Lines(StopTimes) : i < row.line /\ row.line <= j}

\* Of the lines parsed, the first k are in the table as if they were the whole file,
\* and the others with ids are in the batch.
StreamInv ==
    Streams =>
        /\ pos <= Len(StopTimes)
        /\ \E k \in 0..pos :
              /\ Whole("stop_times", rows[feed]["stop_times"], Between(0, k))
              /\ Range(batch) = {row \in Between(k, pos) : row.key # Blank}

\* The tables before the one being imported are done, those after it empty.
ImportInv ==
    at = "import" =>
        \A i \in 1..7 :
            /\ i < n => Holds(feed, ImportOrder[i])
            /\ i > n \/ (i = n /\ ~Streams) => rows[feed][ImportOrder[i]] = {}

SyncedInv ==
    /\ \A f \in Synced, t \in Table : Holds(f, t)
    /\ at = "meta" => \A t \in Table : Holds(feed, t)

\* The stamps are those of this run, from the reset on.
StampInv == at \in {"fetch", "clear", "import", "meta"} => stamp \subseteq 1..(feed - 1)

Progress == LoopInv /\ StreamInv /\ ImportInv /\ SyncedInv /\ StampInv

SeedInv == MigrationInv /\ TypeOK /\ Progress /\ StampedWhole /\ PublishedWhole

-----------------------------------------------------------------------------
(* Lines and tables. *)

LEMMA LineFacts ==
  ASSUME NEW csv \in Seq(CsvRow)
  PROVE  /\ Lines(csv) \in SUBSET Parsed
         /\ \A i \in 1..Len(csv) : Line(csv, i) \in Lines(csv) /\ Line(csv, i).line = i
         /\ \A row \in Lines(csv) : row.line \in 1..Len(csv) /\ row = Line(csv, row.line)
<1>1. DOMAIN csv = 1..Len(csv) /\ \A i \in 1..Len(csv) : csv[i] \in CsvRow
  OBVIOUS
<1>2. \A i \in 1..Len(csv) : Line(csv, i) \in Parsed /\ Line(csv, i).line = i
  BY <1>1 DEF Line, Parsed, CsvRow
<1> QED BY <1>1, <1>2 DEF Lines

LEMMA WholeOfNothing == ASSUME NEW t PROVE Whole(t, {}, {})
<1> QED BY DEF Whole

\* A table stays whole when lines are counted in that are not imported.
LEMMA SkippedLines ==
  ASSUME NEW t, NEW table, NEW read, NEW more, Whole(t, table, read),
         \A row \in more : ~Usable(row)
  PROVE  Whole(t, table, read \cup more)
<1> QED BY DEF Whole, Usable

\* A table that holds the first lines of a file holds all of them after later lines
\* are inserted, in whatever batches.
LEMMA InsertWhole ==
  ASSUME NEW t, NEW table, NEW read \in SUBSET Parsed, NEW csv \in SUBSET Parsed,
         Whole(t, table, read), \A old \in read, row \in csv : old.line < row.line
  PROVE  Whole(t, InsertAll(t, table, csv), read \cup csv)
<1> DEFINE after == InsertAll(t, table, csv)
           all   == read \cup csv
<1>1. /\ \A row \in all : row.line \in Nat
      /\ \A row \in read : row \notin csv
  BY DEF Parsed
<1>2. after \subseteq all
  BY DEF InsertAll, Whole
<1>3. ASSUME NEW row \in csv
      PROVE  row \in after <=>
               /\ Usable(row)
               /\ t = "transfers" \/
                    ~\E later \in all : later.key = row.key /\ later.line > row.line
  <2>1. row \notin table
    BY <1>1 DEF Whole
  <2>2. \A old \in read : ~(old.line > row.line)
    BY <1>1
  <2>3. \A r \in csv : r.key = row.key /\ Usable(row) => Usable(r)
    BY DEF Usable
  <2>4. \A r \in csv : r.line <= row.line <=> ~(r.line > row.line)
    BY <1>1
  <2> QED BY <2>1, <2>2, <2>3, <2>4 DEF InsertAll, SameKey
<1>4. ASSUME NEW row \in read
      PROVE  row \in after <=>
               /\ Usable(row)
               /\ t = "transfers" \/
                    ~\E later \in all : later.key = row.key /\ later.line > row.line
  <2>1. row \in after <=> row \in table /\ \A r \in csv : Usable(r) => ~SameKey(t, r, row)
    BY <1>1 DEF InsertAll
  <2>2. \A r \in csv : r.line > row.line
    BY <1>1
  <2> QED BY <2>1, <2>2 DEF Whole, SameKey, Usable
<1> QED BY <1>2, <1>3, <1>4 DEF Whole

LEMMA InsertType ==
  ASSUME NEW t, NEW table \in SUBSET Row, NEW csv \in SUBSET Parsed
  PROVE  InsertAll(t, table, csv) \in SUBSET Row
<1> QED BY DEF InsertAll, Usable, Parsed, Row

\* Any set of naturals that is not empty and has a bound has a greatest element.
LEMMA GreatestNatural ==
  ASSUME NEW S \in SUBSET Nat, NEW top \in Nat, S # {}, \A x \in S : x <= top
  PROVE  \E x \in S : \A m \in S : m <= x
<1> DEFINE Above == {ss \in Nat \X Nat : ss[1] < ss[2]}
           Gaps  == {top - x : x \in S}
<1>1. IsWellFoundedOn(Above, Nat)
  BY NatLessThanWellFounded DEF OpToRel
<1>2. Gaps \in SUBSET Nat /\ Gaps # {}
  <2>1. \A x \in S : top - x \in Nat
    OBVIOUS
  <2>2. PICK x \in S : TRUE
    OBVIOUS
  <2>3. top - x \in Gaps
    OBVIOUS
  <2> QED BY <2>1, <2>3
<1>3. PICK gap \in Gaps : \A other \in Gaps : <<other, gap>> \notin Above
  <2> HIDE DEF Above, Gaps
  <2> QED BY <1>1, <1>2, WFMin
<1>4. PICK x \in S : gap = top - x
  OBVIOUS
<1>5. ASSUME NEW m \in S PROVE m <= x
  <2>1. top - m \in Gaps /\ top - m \in Nat /\ gap \in Nat
    BY <1>2
  <2>2. ~(top - m < gap)
    BY <1>3, <2>1
  <2>3. x \in Nat /\ m \in Nat /\ gap = top - x
    BY <1>4
  <2>4. ~(top - m < top - x)
    BY <2>2, <2>3
  <2> HIDE DEF Gaps
  <2> QED BY <2>3, <2>4
<1> QED BY <1>5

\* An insertion takes the place of rows of the same key, and of no other.
LEMMA InsertKeeps ==
  ASSUME NEW t, NEW table, NEW csv \in SUBSET Parsed, NEW top \in Nat,
         \A row \in csv : row.line <= top, NEW row \in table
  PROVE  \E r \in InsertAll(t, table, csv) : r = row \/ SameKey(t, r, row)
<1> DEFINE rivals == {r \in csv : Usable(r) /\ SameKey(t, r, row)}
           places == {r.line : r \in rivals}
<1>1. CASE rivals = {}
  <2>1. row \in InsertAll(t, table, csv)
    BY <1>1 DEF InsertAll
  <2> QED BY <2>1
<1>2. CASE rivals # {}
  <2>1. places \in SUBSET Nat /\ places # {} /\ \A x \in places : x <= top
    BY <1>2 DEF Parsed
  <2>2. PICK x \in places : \A m \in places : m <= x
    <3> HIDE DEF places
    <3> QED BY <2>1, GreatestNatural
  <2>3. PICK r \in rivals : r.line = x
    OBVIOUS
  <2>4. \A q \in csv : Usable(q) /\ SameKey(t, q, r) => q.line <= r.line
    BY <2>2, <2>3 DEF SameKey
  <2>5. r \in InsertAll(t, table, csv)
    BY <2>4 DEF InsertAll
  <2> QED BY <2>5
<1> QED BY <1>1, <1>2

-----------------------------------------------------------------------------
(* Types. *)

LEMMA Tables ==
  /\ Len(ImportOrder) = 7 /\ Len(ResetOrder) = 8
  /\ \A i \in 1..7 : ImportOrder[i] \in Table /\ (ImportOrder[i] = "stop_times" <=> i = 4)
  /\ \A i \in 1..7, j \in 1..7 : ImportOrder[i] = ImportOrder[j] => i = j
  /\ \A t \in Table : \E i \in 1..7 : ImportOrder[i] = t
  /\ \A i \in 1..7 : ResetOrder[i] \in Table /\ ResetOrder[i] # "feed_meta"
  /\ ResetOrder[8] = "feed_meta"
<1>1. /\ ImportOrder[1] = "stops" /\ ImportOrder[2] = "routes" /\ ImportOrder[3] = "trips"
      /\ ImportOrder[4] = "stop_times" /\ ImportOrder[5] = "calendar"
      /\ ImportOrder[6] = "calendar_dates" /\ ImportOrder[7] = "transfers"
      /\ Len(ImportOrder) = 7
  BY DEF ImportOrder, CreateOrder
<1>2. /\ ResetOrder[1] = "stop_times" /\ ResetOrder[2] = "trips"
      /\ ResetOrder[3] = "calendar_dates" /\ ResetOrder[4] = "calendar"
      /\ ResetOrder[5] = "routes" /\ ResetOrder[6] = "stops" /\ ResetOrder[7] = "transfers"
      /\ ResetOrder[8] = "feed_meta" /\ Len(ResetOrder) = 8
  BY DEF ResetOrder, ChildrenFirst
<1>3. \A i \in 1..7 : i = 1 \/ i = 2 \/ i = 3 \/ i = 4 \/ i = 5 \/ i = 6 \/ i = 7
  OBVIOUS
<1>4. \A i \in 1..7 : ImportOrder[i] \in Table /\ (ImportOrder[i] = "stop_times" <=> i = 4)
  BY <1>1, <1>3 DEF Table
<1>5. \A i \in 1..7, j \in 1..7 : ImportOrder[i] = ImportOrder[j] => i = j
  BY <1>1, <1>3
<1>6. \A t \in Table : \E i \in 1..7 : ImportOrder[i] = t
  BY <1>1 DEF Table
<1>7. \A i \in 1..7 : ResetOrder[i] \in Table /\ ResetOrder[i] # "feed_meta"
  BY <1>2, <1>3 DEF Table
<1> QED BY <1>1, <1>2, <1>4, <1>5, <1>6, <1>7

LEMMA FeedType == Feed \subseteq Nat /\ 1 \in Feed /\ \A f \in Feed : 1 <= f /\ f <= FeedCount
<1> QED BY StaticDbAssumption DEF Feed

\* The rows after the transaction that inserts csv into t.
LEMMA StoreEffect ==
  ASSUME TypeOK, NEW t \in Table, NEW csv \in SUBSET Parsed, Store(t, csv)
  PROVE  /\ rows' \in [Feed -> [Table -> SUBSET Row]]
         /\ \A f \in Feed, u \in Table :
               rows'[f][u] = IF f = feed /\ u = t THEN InsertAll(t, rows[feed][t], csv)
                             ELSE rows[f][u]
<1> DEFINE table == InsertAll(t, rows[feed][t], csv)
<1>1. feed \in Feed /\ rows \in [Feed -> [Table -> SUBSET Row]] /\ rows[feed][t] \in SUBSET Row
  BY DEF TypeOK
<1>2. table \in SUBSET Row
  BY <1>1, InsertType
<1>3. rows' = [rows EXCEPT ![feed][t] = table]
  BY DEF Store
<1> HIDE DEF table
<1>4. /\ rows' \in [Feed -> [Table -> SUBSET Row]]
      /\ \A f \in Feed, u \in Table :
               rows'[f][u] = IF f = feed /\ u = t THEN table ELSE rows[f][u]
  BY <1>1, <1>2, <1>3
<1> QED BY <1>4 DEF table

\* The stop times and what is left of them.
LEMMA StreamFacts ==
  ASSUME TypeOK, LoopInv, Streaming
  PROVE  /\ Streams /\ StopTimes \in Seq(CsvRow)
         /\ Len(StopTimes) \in Nat
         /\ CsvLeft => Line(StopTimes, pos + 1) \in Parsed
<1>1. Streams
  BY Tables DEF Streaming, Streams, LoopInv
<1>2. files[feed] \in Archive /\ "stop_times" \in Table
  BY <1>1 DEF LoopInv, Streams, Table
<1>3. StopTimes \in Seq(CsvRow)
  BY <1>2, StaticDbAssumption DEF StopTimes
<1>4. CsvLeft => pos + 1 \in 1..Len(StopTimes)
  BY <1>3 DEF CsvLeft, TypeOK
<1> QED BY <1>1, <1>3, <1>4, LineFacts

LEMMA ImportFacts ==
  ASSUME TypeOK, LoopInv, at = "import", ImportOrder[n] # "stop_times"
  PROVE  /\ n \in 1..7 /\ ~Streams /\ ImportOrder[n] \in Table
         /\ Lines(files[feed][ImportOrder[n]]) \in SUBSET Parsed
<1>1. n \in 1..7 /\ ImportOrder[n] \in Table /\ files[feed] \in Archive
  BY Tables DEF LoopInv
<1>2. files[feed][ImportOrder[n]] \in Seq(CsvRow)
  BY <1>1, StaticDbAssumption
<1> QED BY <1>1, <1>2, LineFacts, Tables DEF Streams

LEMMA BatchFacts ==
  ASSUME TypeOK
  PROVE  Range(batch) \in SUBSET Parsed
<1> QED BY DEF TypeOK, Range

LEMMA TypeInit == Init => TypeOK
<1> SUFFICES ASSUME Init PROVE TypeOK
  OBVIOUS
<1>1. PICK a \in Archive, old \in SUBSET {"stops", "stop_times", "trips"} :
         \/ /\ shape = [t \in Table |-> "absent"] /\ rows = Empty /\ stamp = {}
            /\ files = [f \in Feed |-> None]
         \/ /\ mode = "local" /\ Sound(a)
            /\ shape = [t \in Table |-> IF t \in old THEN "old" ELSE "current"]
            /\ rows = [f \in Feed |-> Imported(a)] /\ stamp = Feed
            /\ files = [f \in Feed |-> a]
  BY DEF Init
<1>2. Imported(a) \in [Table -> SUBSET Row]
  <2>1. ASSUME NEW t \in Table PROVE InsertAll(t, {}, Lines(a[t])) \in SUBSET Row
    <3>1. Lines(a[t]) \in SUBSET Parsed
      BY StaticDbAssumption, LineFacts
    <3> QED BY <3>1, InsertType
  <2> QED BY <2>1 DEF Imported
<1>3. Empty \in [Feed -> [Table -> SUBSET Row]]
  BY DEF Empty
<1>4. /\ rows \in [Feed -> [Table -> SUBSET Row]] /\ stamp \subseteq Feed
      /\ files \in [Feed -> Archive \cup {None}]
      /\ shape \in [Table -> {"absent", "old", "current"}]
  BY <1>1, <1>2, <1>3
<1>5. /\ mode \in {"ci", "local"} /\ at = "off" /\ n = 1 /\ feed = 1 /\ pos = 0 /\ batch = <<>>
      /\ server = "off" /\ published = None /\ kills = 0 /\ faults = 0
  BY DEF Init
<1>6. batch \in Seq(Parsed) /\ Len(batch) < BatchSize
  BY <1>5, StaticDbAssumption
<1>7. n \in 1..Len(ResetOrder)
  BY <1>5, Tables
<1>8. kills \in 0..MaxKill /\ faults \in 0..MaxFault
  BY <1>5, StaticDbAssumption
<1>9. feed \in Feed /\ pos \in Nat
  BY <1>5, FeedType
<1> QED BY <1>4, <1>5, <1>6, <1>7, <1>8, <1>9 DEF TypeOK

\* The types one by one, to be used unexpanded.
RowsType(r)      == r \in [Feed -> [Table -> SUBSET Row]]
StampType(s)     == s \subseteq Feed
PlaceType(i)     == i \in 1..8
FeedsType(f)     == f \in Feed
FilesType(f)     == f \in [Feed -> Archive \cup {None}]
LineType(i)      == i \in Nat
BatchType(b)     == b \in Seq(Parsed) /\ Len(b) < BatchSize
ServerType(s)    == s \in {"off", "up", "exited"}
PublishedType(p) == p = None \/ p \in Database
KillsType(k)     == k \in 0..MaxKill
FaultsType(k)    == k \in 0..MaxFault

\* What a step may do to everything but the shapes.
LEMMA TypeFrame ==
  ASSUME TypeOK, MigrationInv', mode' = mode, RowsType(rows'), StampType(stamp'), PlaceType(n'),
         FeedsType(feed'), FilesType(files'), LineType(pos'), BatchType(batch'),
         ServerType(server'), PublishedType(published'), KillsType(kills'), FaultsType(faults')
  PROVE  TypeOK'
<1> QED
  BY Tables DEF TypeOK, MigrationInv, ShapeType, Labels, RowsType, StampType, PlaceType,
                FeedsType, FilesType, LineType, BatchType, ServerType, PublishedType,
                KillsType, FaultsType

LEMMA TypeStep == MigrationInv /\ TypeOK /\ LoopInv /\ [Next]_vars => TypeOK'
<1> SUFFICES ASSUME MigrationInv, TypeOK, LoopInv, [Next]_vars PROVE TypeOK'
  OBVIOUS
<1>0. MigrationInv'
  BY MigrationStep
<1>t. /\ RowsType(rows) /\ StampType(stamp) /\ PlaceType(n) /\ FeedsType(feed)
      /\ FilesType(files) /\ LineType(pos) /\ BatchType(batch) /\ ServerType(server)
      /\ PublishedType(published) /\ KillsType(kills) /\ FaultsType(faults)
  BY Tables DEF TypeOK, RowsType, StampType, PlaceType, FeedsType, FilesType, LineType,
                BatchType, ServerType, PublishedType, KillsType, FaultsType
<1>e. BatchType(<<>>) /\ PlaceType(1) /\ LineType(0) /\ FeedsType(1)
  BY StaticDbAssumption, FeedType DEF BatchType, PlaceType, LineType, FeedsType
<1>1. CASE StartSeed
  <2>1. RowsType(rows') /\ StampType(stamp') /\ FilesType(files')
    BY <1>1, <1>t DEF StartSeed, Empty, database, RowsType, StampType, FilesType
  <2>2. /\ mode' = mode /\ n' = 1 /\ feed' = 1 /\ pos' = 0 /\ batch' = <<>> /\ server' = server
        /\ published' = published /\ kills' = kills /\ faults' = faults
    BY <1>1 DEF StartSeed, Goto
  <2> QED BY <1>0, <1>t, <1>e, <2>1, <2>2, TypeFrame
<1>2. CASE Migrate \/ Analyze \/ StopServer \/ Boot
  <2>1. /\ mode' = mode /\ rows' = rows /\ stamp' = stamp /\ n' \in {1, n} /\ feed' = feed
        /\ files' = files /\ pos' = pos /\ batch' = batch
        /\ ServerType(server')
        /\ published' = published /\ kills' = kills /\ faults' = faults
    BY <1>2, <1>t DEF Migrate, Analyze, StopServer, Boot, Goto, database, loop, ServerType
  <2> QED BY <1>0, <1>t, <1>e, <2>1, TypeFrame
<1>3. CASE Kill
  <2>1. /\ mode' = mode /\ rows' = rows /\ stamp' = stamp /\ n' = 1 /\ feed' = feed
        /\ files' = files /\ pos' = pos /\ batch' = batch /\ server' = server
        /\ published' = published /\ kills < MaxKill /\ kills' = kills + 1 /\ faults' = faults
    BY <1>3 DEF Kill, Goto, database, loop
  <2>2. KillsType(kills')
    BY <1>t, <2>1, StaticDbAssumption DEF KillsType
  <2> QED BY <1>0, <1>t, <1>e, <2>1, <2>2, TypeFrame
<1>4. CASE Drop \/ Reset
  <2>1. /\ mode' = mode /\ feed' = feed /\ files' = files /\ pos' = pos /\ batch' = batch
        /\ server' = server /\ published' = published /\ kills' = kills /\ faults' = faults
    BY <1>4 DEF Drop, Reset, Abort, Goto, database, loop
  <2>2. RowsType(rows')
    BY <1>4, <1>t DEF Drop, Reset, Abort, Goto, database, RowsType
  <2>3. StampType(stamp')
    BY <1>4, <1>t DEF Drop, Reset, Abort, Goto, database, StampType
  <2>4. PlaceType(n')
    <3>1. CASE Drop
      <4>1. n \in 1..7
        BY <3>1 DEF Drop, MigrationInv, DropProgress
      <4> QED BY <3>1, <4>1 DEF Drop, Abort, Goto, PlaceType
    <3>2. CASE Reset
      <4>1. n # 8 => n + 1 \in 1..8
        BY <1>t DEF PlaceType
      <4> QED BY <1>e, <3>2, <4>1, Tables DEF Reset, Abort, Goto, PlaceType
    <3> QED BY <1>4, <3>1, <3>2
  <2> QED BY <1>0, <1>t, <2>1, <2>2, <2>3, <2>4, TypeFrame
<1>5. CASE Create
  <2>1. /\ mode' = mode /\ rows' = rows /\ stamp' = stamp /\ feed' = feed
        /\ files' = files /\ pos' = pos /\ batch' = batch /\ server' = server
        /\ published' = published /\ kills' = kills /\ faults' = faults
    BY <1>5 DEF Create, loop
  <2>2. n \in 1..7
    BY <1>5 DEF Create, MigrationInv, CreateProgress
  <2>3. PlaceType(n')
    BY <1>5, <2>2 DEF Create, Goto, PlaceType
  <2> QED BY <1>0, <1>t, <2>1, <2>3, TypeFrame
<1>6. ASSUME NEW a \in Archive, Fetch(a) PROVE TypeOK'
  <2>1. /\ mode' = mode /\ rows' = rows /\ stamp' = stamp /\ n' = 1 /\ feed' = feed
        /\ files' = [files EXCEPT ![feed] = a] /\ pos' = pos /\ batch' = batch /\ server' = server
        /\ published' = published /\ kills' = kills
    BY <1>6 DEF Fetch, Goto, database
  <2>2. FilesType(files')
    BY <1>t, <2>1 DEF FilesType
  <2>3. FaultsType(faults')
    BY <1>6, <1>t, StaticDbAssumption DEF Fetch, FaultsType
  <2> QED BY <1>0, <1>t, <1>e, <2>1, <2>2, <2>3, TypeFrame
<1>7. CASE FetchFails
  <2>1. /\ mode' = mode /\ rows' = rows /\ stamp' = stamp /\ n' = 1 /\ feed' = feed
        /\ files' = files /\ pos' = pos /\ batch' = batch /\ server' = server
        /\ published' = published /\ kills' = kills
        /\ faults < MaxFault /\ faults' = faults + 1
    BY <1>7 DEF FetchFails, Abort, Goto, database, loop
  <2>2. FaultsType(faults')
    BY <1>t, <2>1, StaticDbAssumption DEF FaultsType
  <2> QED BY <1>0, <1>t, <1>e, <2>1, <2>2, TypeFrame
<1>8. CASE Clear
  <2>1. /\ mode' = mode /\ stamp' = stamp /\ n' = 1 /\ feed' = feed
        /\ files' = files /\ pos' = pos /\ batch' = batch /\ server' = server
        /\ published' = published /\ kills' = kills /\ faults' = faults
    BY <1>8 DEF Clear, Abort, Goto, database, loop
  <2>2. RowsType(rows')
    BY <1>8, <1>t DEF Clear, Abort, database, RowsType
  <2> QED BY <1>0, <1>t, <1>e, <2>1, <2>2, TypeFrame
<1>9. CASE Import
  <2> DEFINE t == ImportOrder[n]
             csv == Lines(files[feed][t])
  <2>1. /\ mode' = mode /\ stamp' = stamp /\ feed' = feed
        /\ files' = files /\ pos' = pos /\ batch' = batch /\ server' = server
        /\ published' = published /\ kills' = kills /\ faults' = faults
    BY <1>9 DEF Import, Abort, Goto, database, loop
  <2>2. n \in 1..7 /\ t \in Table /\ csv \in SUBSET Parsed
    BY <1>9, ImportFacts DEF Import
  <2>3. PlaceType(n')
    BY <1>9, <2>2, Tables DEF Import, NextTable, Abort, Goto, PlaceType
  <2>4. rows' = rows \/ Store(t, csv)
    BY <1>9 DEF Import, Abort, database
  <2>5. RowsType(rows')
    <3> HIDE DEF t, csv
    <3> QED BY <1>t, <2>2, <2>4, StoreEffect DEF RowsType
  <2> QED BY <1>0, <1>t, <2>1, <2>3, <2>5, TypeFrame
<1>10. CASE Push
  <2> DEFINE row  == Line(StopTimes, pos + 1)
             full == IF row.key = Blank THEN batch ELSE Append(batch, row)
  <2>1. /\ mode' = mode /\ stamp' = stamp /\ feed' = feed
        /\ files' = files /\ server' = server
        /\ published' = published /\ kills' = kills /\ faults' = faults
    BY <1>10 DEF Push, Abort, Goto, database, loop
  <2>2. row \in Parsed
    BY <1>10, StreamFacts DEF Push
  <2>3. full \in Seq(Parsed)
    <3> HIDE DEF row
    <3> QED BY <1>t, <2>2 DEF BatchType
  <2>4. /\ LineType(pos') /\ n' \in {1, n}
        /\ batch' = batch \/ batch' = <<>> \/ (batch' = full /\ Len(full) < BatchSize)
    BY <1>10, <1>t DEF Push, Abort, Goto, loop, LineType
  <2>5. rows' = rows \/ Store("stop_times", Range(full))
    BY <1>10 DEF Push, Abort, database
  <2>6. Range(full) \in SUBSET Parsed /\ "stop_times" \in Table
    <3> HIDE DEF full
    <3> QED BY <2>3 DEF Range, Table
  <2>7. RowsType(rows')
    <3> HIDE DEF full
    <3> QED BY <1>t, <2>5, <2>6, StoreEffect DEF RowsType
  <2>8. BatchType(batch') /\ PlaceType(n')
    <3> HIDE DEF full
    <3> QED BY <1>t, <1>e, <2>3, <2>4 DEF BatchType
  <2> QED BY <1>0, <1>t, <2>1, <2>4, <2>7, <2>8, TypeFrame
<1>11. CASE Flush
  <2>1. /\ mode' = mode /\ stamp' = stamp /\ feed' = feed
        /\ files' = files /\ server' = server
        /\ published' = published /\ kills' = kills /\ faults' = faults
    BY <1>11 DEF Flush, Abort, Goto, database, loop
  <2>2. n \in 1..7
    BY <1>11 DEF Flush, Streaming, LoopInv
  <2>3. LineType(pos') /\ PlaceType(n') /\ BatchType(batch')
    BY <1>11, <1>t, <1>e, <2>2, Tables DEF Flush, NextTable, Abort, Goto, loop, PlaceType
  <2>4. rows' = rows \/ Store("stop_times", Range(batch))
    BY <1>11 DEF Flush, Abort, database
  <2>5. RowsType(rows')
    <3>1. "stop_times" \in Table
      BY DEF Table
    <3> QED BY <1>t, <2>4, <3>1, BatchFacts, StoreEffect DEF RowsType
  <2> QED BY <1>0, <1>t, <2>1, <2>3, <2>5, TypeFrame
<1>12. CASE SetFeedMeta
  <2>1. /\ mode' = mode /\ rows' = rows /\ stamp' = stamp \cup {feed} /\ n' = 1
        /\ feed' = feed \/ (feed < FeedCount /\ feed' = feed + 1)
        /\ files' = files /\ pos' = pos /\ batch' = batch /\ server' = server
        /\ published' = published /\ kills' = kills /\ faults' = faults
    BY <1>12 DEF SetFeedMeta, Goto
  <2>2. FeedsType(feed')
    BY <1>t, <2>1, StaticDbAssumption DEF Feed, FeedsType
  <2>3. StampType(stamp')
    BY <1>t, <2>1 DEF StampType, FeedsType
  <2> QED BY <1>0, <1>t, <1>e, <2>1, <2>2, <2>3, TypeFrame
<1>13. CASE Vacuum
  <2>1. /\ mode' = mode /\ rows' = rows /\ stamp' = stamp /\ n' = 1 /\ feed' = feed
        /\ files' = files /\ pos' = pos /\ batch' = batch /\ server' = server
        /\ published' = [rows |-> rows, files |-> files] /\ kills' = kills /\ faults' = faults
    BY <1>13 DEF Vacuum, Goto, database, loop
  <2>2. files \in [Feed -> Archive]
    <3>1. \A f \in Feed : files[f] \in Archive
      BY <1>13 DEF Vacuum, LoopInv, Synced
    <3> QED BY <1>t, <3>1 DEF FilesType
  <2>3. PublishedType(published')
    BY <1>t, <2>1, <2>2 DEF Database, PublishedType, RowsType
  <2> QED BY <1>0, <1>t, <1>e, <2>1, <2>3, TypeFrame
<1>14. CASE UNCHANGED vars
  BY <1>0, <1>t, <1>14, TypeFrame DEF vars, database, loop
<1> QED
  BY <1>1, <1>2, <1>3, <1>4, <1>5, <1>6, <1>7, <1>8, <1>9, <1>10, <1>11, <1>12, <1>13, <1>14
  DEF Next, Seed

-----------------------------------------------------------------------------
(* The import. *)

\* Nothing is claimed of a run that has not reached the import or has ended early.
LEMMA Ended ==
  ASSUME at' \in {"off", "failed"}
  PROVE  Progress'
<1> QED BY DEF Progress, LoopInv, StreamInv, ImportInv, SyncedInv, StampInv, Synced, Streams

LEMMA NotStarted ==
  ASSUME at' \in {"migrate", "drop", "create", "reset"}, feed' = 1, pos' = 0, batch' = <<>>
  PROVE  Progress'
<1> QED BY DEF Progress, LoopInv, StreamInv, ImportInv, SyncedInv, StampInv, Synced, Streams

\* A step that leaves the import alone.
LEMMA ProgressKept ==
  ASSUME Progress, rows' = rows, stamp' = stamp, at' = at, n' = n, feed' = feed,
         files' = files, pos' = pos, batch' = batch
  PROVE  Progress'
<1>1. LoopInv'
  BY DEF Progress, LoopInv, Synced, Streams
<1>2. StreamInv'
  BY DEF Progress, StreamInv, Streams, StopTimes, Between
<1>3. ImportInv' /\ SyncedInv' /\ StampInv'
  BY DEF Progress, ImportInv, SyncedInv, StampInv, Holds, Synced, Streams
<1> QED BY <1>1, <1>2, <1>3 DEF Progress

LEMMA FetchProgress ==
  ASSUME TypeOK, Progress, NEW a \in Archive, Fetch(a) PROVE Progress'
<1>1. /\ at = "fetch" /\ at' = "clear" /\ n' = 1 /\ rows' = rows /\ stamp' = stamp
      /\ feed' = feed /\ files' = [files EXCEPT ![feed] = a] /\ pos' = pos /\ batch' = batch
  BY DEF Fetch, Goto, database
<1>2. feed \in Feed /\ \A f \in Feed : files'[f] = IF f = feed THEN a ELSE files[f]
  BY <1>1 DEF TypeOK
<1>3. Synced' = Synced /\ \A f \in Synced : f # feed /\ f \in Feed
  BY <1>1, <1>2, StaticDbAssumption DEF Synced, Feed
<1>4. LoopInv'
  BY <1>1, <1>2, <1>3 DEF Progress, LoopInv, Streams
<1>5. SyncedInv'
  BY <1>1, <1>2, <1>3 DEF Progress, SyncedInv, Holds
<1> QED BY <1>1, <1>4, <1>5 DEF Progress, StreamInv, ImportInv, StampInv, Streams

LEMMA ClearProgress ==
  ASSUME TypeOK, Progress, Clear PROVE Progress'
<1>1. CASE at' = "failed"
  BY <1>1, Ended
<1>2. CASE at' # "failed"
  <2>1. /\ at = "clear" /\ at' = "import" /\ n' = 1 /\ stamp' = stamp
        /\ feed' = feed /\ files' = files /\ pos' = pos /\ batch' = batch
        /\ rows' = [rows EXCEPT ![feed] = [t \in Table |-> {}]]
    BY <1>2 DEF Clear, Goto, Abort, loop
  <2>2. feed \in Feed /\ \A f \in Feed, t \in Table :
           rows'[f][t] = IF f = feed THEN {} ELSE rows[f][t]
    BY <2>1 DEF TypeOK
  <2>3. Synced' = Synced /\ \A f \in Synced : f # feed /\ f \in Feed
    BY <2>1, <2>2, StaticDbAssumption DEF Synced, Feed
  <2>4. LoopInv'
    BY <2>1, <2>3 DEF Progress, LoopInv, Streams
  <2>5. SyncedInv'
    BY <2>1, <2>2, <2>3 DEF Progress, SyncedInv, Holds
  <2>6. ImportInv'
    BY <2>1, <2>2, Tables DEF ImportInv
  <2> QED BY <2>1, <2>4, <2>5, <2>6 DEF Progress, StreamInv, StampInv, Streams
<1> QED BY <1>1, <1>2

\* After the last table the feed is whole; before it, one more table is.
LEMMA NextTableProgress ==
  ASSUME TypeOK, Progress, at = "import", n \in 1..7, NextTable, stamp' = stamp, feed' = feed,
         files' = files, pos' = 0, batch' = <<>>, NEW t, t = ImportOrder[n], Holds(feed, t)',
         \A f \in Feed, u \in Table : f # feed \/ u # t => rows'[f][u] = rows[f][u]
  PROVE  Progress'
<1>1. feed \in Feed /\ \A f \in Synced : f # feed /\ f \in Feed
  BY StaticDbAssumption DEF Synced, Feed, TypeOK
<1>2. Synced' = Synced
  BY Tables DEF NextTable, Goto, Synced
<1>3. \A f \in Synced', u \in Table : Holds(f, u)'
  BY <1>1, <1>2 DEF Progress, SyncedInv, Holds
<1>4. \A i \in 1..7 : i < n => Holds(feed, ImportOrder[i])'
  BY <1>1, Tables DEF Progress, ImportInv, Holds
<1>5. \A i \in 1..7 : i = n => Holds(feed, ImportOrder[i])'
  OBVIOUS
<1>6. StampInv'
  BY Tables DEF Progress, StampInv, NextTable, Goto
<1>7. CASE n = 7
  <2>1. at' = "meta" /\ n' = 1
    BY <1>7, Tables DEF NextTable, Goto
  <2>2. \A i \in 1..7 : Holds(feed, ImportOrder[i])'
    BY <1>4, <1>5, <1>7
  <2>3. SyncedInv'
    BY <1>3, <2>2, Tables DEF SyncedInv
  <2>4. LoopInv'
    BY <2>1, <1>2 DEF Progress, LoopInv, Streams
  <2> QED BY <1>6, <2>1, <2>3, <2>4 DEF Progress, StreamInv, ImportInv, Streams
<1>8. CASE n # 7
  <2>1. at' = "import" /\ n' = n + 1 /\ n' \in 1..7
    BY <1>8, Tables DEF NextTable, Goto
  <2>2. SyncedInv'
    BY <1>3, <2>1 DEF SyncedInv
  <2>3. LoopInv'
    BY <2>1, <1>2 DEF Progress, LoopInv, Streams
  <2>4. \A i \in 1..7 : i > n => rows'[feed][ImportOrder[i]] = {}
    BY <1>1, Tables DEF Progress, ImportInv
  <2>5. ImportInv'
    BY <1>4, <1>5, <2>1, <2>4 DEF ImportInv
  <2>6. StreamInv'
    <3> SUFFICES ASSUME n' = 4 PROVE StreamInv'
      BY DEF StreamInv, Streams
    <3>1. rows'[feed]["stop_times"] = {}
      BY <2>1, <2>4, Tables
    <3>2. Between(0, 0)' = {}
      <4>1. files[feed] \in Archive /\ "stop_times" \in Table
        BY DEF Progress, LoopInv, Table
      <4>2. StopTimes' \in Seq(CsvRow)
        BY <4>1, StaticDbAssumption DEF StopTimes
      <4>3. \A row \in Lines(StopTimes') : row.line \in Nat
        BY <4>2, LineFacts
      <4> QED BY <4>3 DEF Between
    <3>3. Len(StopTimes') >= 0
      <4>1. files[feed] \in Archive /\ "stop_times" \in Table
        BY DEF Progress, LoopInv, Table
      <4>2. StopTimes' \in Seq(CsvRow)
        BY <4>1, StaticDbAssumption DEF StopTimes
      <4> QED BY <4>2
    <3>4. Range(batch') = {}
      BY DEF Range
    <3>5. Whole("stop_times", rows'[feed]["stop_times"], Between(0, 0)')
      BY <3>1, <3>2, WholeOfNothing
    <3> QED BY <3>2, <3>3, <3>4, <3>5 DEF StreamInv
  <2> QED BY <1>6, <2>2, <2>3, <2>5, <2>6 DEF Progress
<1> QED BY <1>7, <1>8

LEMMA ImportProgress ==
  ASSUME TypeOK, Progress, Import PROVE Progress'
<1> PICK t : t = ImportOrder[n]
  OBVIOUS
<1> DEFINE csv == Lines(files[feed][t])
<1>0. at = "import" /\ t # "stop_times"
  BY DEF Import
<1>1. n \in 1..7 /\ ~Streams /\ t \in Table /\ csv \in SUBSET Parsed /\ feed \in Feed
  BY <1>0, ImportFacts DEF Progress, TypeOK
<1>2. CASE ~Accepted(t, csv)
  BY <1>2, Ended DEF Import, Abort, Goto
<1>3. CASE Accepted(t, csv)
  <2>1. /\ Store(t, csv) /\ NextTable /\ stamp' = stamp /\ feed' = feed /\ files' = files
        /\ pos' = pos /\ batch' = batch
    BY <1>3 DEF Import, loop
  <2>2. pos = 0 /\ batch = <<>>
    BY <1>0, <1>1 DEF Progress, LoopInv
  <2>3. \A f \in Feed, u \in Table :
           rows'[f][u] = IF f = feed /\ u = t THEN InsertAll(t, rows[feed][t], csv)
                         ELSE rows[f][u]
    <3> HIDE DEF csv
    <3> QED BY <1>1, <2>1, StoreEffect
  <2>4. rows[feed][t] = {}
    BY <1>0, <1>1 DEF Progress, ImportInv
  <2>5. Whole(t, InsertAll(t, {}, csv), {} \cup csv)
    <3> HIDE DEF csv
    <3> QED BY <1>1, InsertWhole, WholeOfNothing
  <2>6. Holds(feed, t)'
    <3>1. rows'[feed][t] = InsertAll(t, {}, csv) /\ {} \cup csv = csv
      BY <1>1, <2>3, <2>4
    <3> QED BY <2>1, <2>5, <3>1 DEF Holds
  <2>7. \A f \in Feed, u \in Table : f # feed \/ u # t => rows'[f][u] = rows[f][u]
    BY <2>3
  <2> QED BY <1>0, <1>1, <2>1, <2>2, <2>6, <2>7, NextTableProgress
<1> QED BY <1>2, <1>3

\* The batch is inserted after lines that are all in the table: so are its own then.
LEMMA BatchStored ==
  ASSUME NEW csv \in Seq(CsvRow), NEW i \in Nat, NEW j \in Nat, i <= j,
         NEW table, NEW list,
         Whole("stop_times", table, {row \in Lines(csv) : 0 < row.line /\ row.line <= i}),
         list = {row \in Lines(csv) : i < row.line /\ row.line <= j /\ row.key # Blank}
  PROVE  Whole("stop_times", InsertAll("stop_times", table, list),
               {row \in Lines(csv) : 0 < row.line /\ row.line <= j})
<1> DEFINE Upto(k) == {row \in Lines(csv) : 0 < row.line /\ row.line <= k}
           blank   == {row \in Lines(csv) : i < row.line /\ row.line <= j /\ row.key = Blank}
<1>1. Lines(csv) \in SUBSET Parsed /\ \A row \in Lines(csv) : row.line \in Nat
  BY LineFacts DEF Parsed
<1>2. Upto(i) \in SUBSET Parsed /\ list \in SUBSET Parsed
  BY <1>1
<1>3. \A old \in Upto(i), row \in list : old.line < row.line
  BY <1>1
<1>4. Whole("stop_times", InsertAll("stop_times", table, list), Upto(i) \cup list)
  <2> HIDE DEF Upto
  <2>1. Whole("stop_times", table, Upto(i))
    BY DEF Upto
  <2> QED BY <1>2, <1>3, <2>1, InsertWhole
<1>5. \A row \in blank : ~Usable(row)
  BY StaticDbAssumption DEF Usable
<1>6. Upto(j) = (Upto(i) \cup list) \cup blank
  BY <1>1
<1>7. Whole("stop_times", InsertAll("stop_times", table, list), (Upto(i) \cup list) \cup blank)
  <2> HIDE DEF Upto, blank
  <2> QED BY <1>4, <1>5, SkippedLines
<1> QED BY <1>6, <1>7

LEMMA FlushProgress ==
  ASSUME TypeOK, Progress, Flush PROVE Progress'
<1>0. at = "import" /\ ~CsvLeft /\ Streaming
  BY DEF Flush, Streaming
<1>1. Streams /\ StopTimes \in Seq(CsvRow) /\ Len(StopTimes) \in Nat
  BY <1>0, StreamFacts DEF Progress
<1>2. CASE ~Accepted("stop_times", Range(batch))
  BY <1>2, Ended DEF Flush, Abort, Goto
<1>3. CASE Accepted("stop_times", Range(batch))
  <2>1. /\ Store("stop_times", Range(batch)) /\ NextTable /\ stamp' = stamp /\ feed' = feed
        /\ files' = files /\ pos' = 0 /\ batch' = <<>>
    BY <1>3 DEF Flush
  <2>2. n = 4 /\ n \in 1..7 /\ ImportOrder[n] = "stop_times" /\ "stop_times" \in Table /\ feed \in Feed
    BY <1>0, <1>1 DEF Streams, Streaming, Table, TypeOK
  <2>3. \A f \in Feed, u \in Table :
           rows'[f][u] = IF f = feed /\ u = "stop_times"
                         THEN InsertAll("stop_times", rows[feed]["stop_times"], Range(batch))
                         ELSE rows[f][u]
    BY <2>1, <2>2, BatchFacts, StoreEffect
  <2>4. pos \in Nat /\ pos = Len(StopTimes)
    BY <1>0, <1>1 DEF CsvLeft, Progress, StreamInv, TypeOK
  <2>5. PICK k \in 0..pos :
           /\ Whole("stop_times", rows[feed]["stop_times"], Between(0, k))
           /\ Range(batch) = {row \in Between(k, pos) : row.key # Blank}
    BY <1>1 DEF Progress, StreamInv
  <2>6. k \in Nat /\ k <= pos
    BY <2>4
  <2>7. Range(batch) =
          {row \in Lines(StopTimes) : k < row.line /\ row.line <= pos /\ row.key # Blank}
    BY <2>5 DEF Between
  <2>8. Whole("stop_times", InsertAll("stop_times", rows[feed]["stop_times"], Range(batch)),
              {row \in Lines(StopTimes) : 0 < row.line /\ row.line <= pos})
    BY <1>1, <2>4, <2>5, <2>6, <2>7, BatchStored DEF Between
  <2>9. {row \in Lines(StopTimes) : 0 < row.line /\ row.line <= pos} = Lines(StopTimes)
    BY <1>1, <2>4, LineFacts
  <2>10. Holds(feed, "stop_times")'
    <3>1. rows'[feed]["stop_times"] =
            InsertAll("stop_times", rows[feed]["stop_times"], Range(batch))
      BY <2>2, <2>3
    <3> QED BY <2>1, <2>8, <2>9, <3>1 DEF Holds, StopTimes
  <2>11. \A f \in Feed, u \in Table : f # feed \/ u # "stop_times" => rows'[f][u] = rows[f][u]
    BY <2>3
  <2> QED BY <1>0, <2>1, <2>2, <2>10, <2>11, NextTableProgress
<1> QED BY <1>2, <1>3

LEMMA PushProgress ==
  ASSUME TypeOK, Progress, Push PROVE Progress'
<1> DEFINE row  == Line(StopTimes, pos + 1)
           full == IF row.key = Blank THEN batch ELSE Append(batch, row)
<1>0. at = "import" /\ CsvLeft /\ Streaming
  BY DEF Push, Streaming
<1>1. /\ Streams /\ StopTimes \in Seq(CsvRow) /\ Len(StopTimes) \in Nat /\ row \in Parsed
      /\ n = 4 /\ feed \in Feed /\ "stop_times" \in Table /\ pos \in Nat
      /\ batch \in Seq(Parsed)
  BY <1>0, StreamFacts DEF Progress, Streams, TypeOK, Table
<1>2. pos + 1 <= Len(StopTimes) /\ row \in Lines(StopTimes) /\ row.line = pos + 1
  <2>1. pos + 1 \in 1..Len(StopTimes)
    BY <1>0, <1>1 DEF CsvLeft
  <2> QED BY <1>1, <2>1, LineFacts
<1>3. PICK k \in 0..pos :
         /\ Whole("stop_times", rows[feed]["stop_times"], Between(0, k))
         /\ Range(batch) = {r \in Between(k, pos) : r.key # Blank}
  BY <1>1 DEF Progress, StreamInv
<1>4. k \in Nat /\ k <= pos
  BY <1>1
<1>5. Range(full) = {r \in Between(k, pos + 1) : r.key # Blank}
  <2>1. Between(k, pos + 1) = Between(k, pos) \cup {row}
    <3>1. \A r \in Lines(StopTimes) : r.line \in Nat /\ (r.line = pos + 1 => r = row)
      BY <1>1, LineFacts
    <3>2. \A r \in Lines(StopTimes) : r.line <= pos + 1 <=> r.line <= pos \/ r = row
      BY <1>1, <1>2, <3>1
    <3>3. k < row.line
      BY <1>1, <1>2, <1>4
    <3> HIDE DEF row
    <3> QED BY <1>2, <3>2, <3>3 DEF Between
  <2>2. CASE row.key = Blank
    BY <1>3, <2>1, <2>2
  <2>3. CASE row.key # Blank
    <3>1. Range(Append(batch, row)) = Range(batch) \cup {row}
      <4> HIDE DEF row
      <4>1. /\ DOMAIN Append(batch, row) = 1..(Len(batch) + 1)
            /\ DOMAIN batch = 1..Len(batch) /\ Len(batch) \in Nat
            /\ \A i \in 1..Len(batch) : Append(batch, row)[i] = batch[i]
            /\ Append(batch, row)[Len(batch) + 1] = row
        BY <1>1
      <4>2. 1..(Len(batch) + 1) = (1..Len(batch)) \cup {Len(batch) + 1}
        BY <4>1
      <4> QED BY <4>1, <4>2 DEF Range
    <3> HIDE DEF row
    <3> QED BY <1>3, <2>1, <2>3, <3>1
  <2> QED BY <2>2, <2>3
<1>6. CASE Len(full) < BatchSize
  <2>1. /\ rows' = rows /\ stamp' = stamp /\ at' = at /\ n' = n /\ feed' = feed
        /\ files' = files /\ pos' = pos + 1 /\ batch' = full
    BY <1>6 DEF Push, database
  <2>2. StreamInv'
    <3>1. k \in 0..(pos + 1)
      BY <1>1, <1>4
    <3> HIDE DEF full
    <3> QED BY <1>2, <1>3, <1>5, <2>1, <3>1 DEF StreamInv, StopTimes, Between
  <2>3. LoopInv'
    BY <1>1, <2>1 DEF Progress, LoopInv, Synced, Streams
  <2> QED BY <2>1, <2>2, <2>3
          DEF Progress, ImportInv, SyncedInv, StampInv, Holds, Synced, Streams
<1>7. CASE ~(Len(full) < BatchSize) /\ ~Accepted("stop_times", Range(full))
  BY <1>7, Ended DEF Push, Abort, Goto
<1>8. CASE ~(Len(full) < BatchSize) /\ Accepted("stop_times", Range(full))
  <2>1. /\ Store("stop_times", Range(full)) /\ stamp' = stamp /\ at' = at /\ n' = n
        /\ feed' = feed /\ files' = files /\ pos' = pos + 1 /\ batch' = <<>>
    BY <1>8 DEF Push
  <2>2. Range(full) \in SUBSET Parsed
    <3>1. Lines(StopTimes) \in SUBSET Parsed
      BY <1>1, LineFacts
    <3> HIDE DEF full
    <3> QED BY <1>5, <3>1 DEF Between
  <2>3. \A f \in Feed, u \in Table :
           rows'[f][u] = IF f = feed /\ u = "stop_times"
                         THEN InsertAll("stop_times", rows[feed]["stop_times"], Range(full))
                         ELSE rows[f][u]
    <3> HIDE DEF full
    <3> QED BY <1>1, <2>1, <2>2, StoreEffect
  <2>4. Whole("stop_times", InsertAll("stop_times", rows[feed]["stop_times"], Range(full)),
              {r \in Lines(StopTimes) : 0 < r.line /\ r.line <= pos + 1})
    <3>1. Range(full) =
            {r \in Lines(StopTimes) : k < r.line /\ r.line <= pos + 1 /\ r.key # Blank}
      BY <1>5 DEF Between
    <3>2. pos + 1 \in Nat /\ k <= pos + 1
      BY <1>1, <1>4
    <3> HIDE DEF full
    <3> QED BY <1>1, <1>3, <1>4, <3>1, <3>2, BatchStored DEF Between
  <2>5. StreamInv'
    <3>1. PICK p \in Nat : p = pos + 1
      BY <1>1
    <3>2. pos' = p /\ p \in 0..p /\ p <= Len(StopTimes) /\ Range(batch') = {}
      BY <1>2, <2>1, <3>1 DEF Range
    <3>3. Between(0, p)' = {r \in Lines(StopTimes) : 0 < r.line /\ r.line <= p}
      BY <2>1 DEF Between, StopTimes
    <3>4. Whole("stop_times", rows[feed]["stop_times"], Between(0, p))'
      BY <1>1, <2>1, <2>3, <2>4, <3>1, <3>3
    <3>5. Between(p, p)' = {}
      <4>1. \A r \in Lines(StopTimes) : r.line \in Nat
        BY <1>1, LineFacts
      <4> QED BY <2>1, <4>1 DEF Between, StopTimes
    <3> QED BY <2>1, <3>2, <3>4, <3>5 DEF StreamInv, StopTimes
  <2>6. LoopInv'
    BY <1>1, <2>1 DEF Progress, LoopInv, Synced, Streams
  <2>7. \A f \in Feed, u \in Table : f # feed \/ u # "stop_times" => rows'[f][u] = rows[f][u]
    BY <2>3
  <2>8. ImportInv'
    <3>1. \A i \in 1..7 : i # n => ImportOrder[i] # "stop_times" /\ ImportOrder[i] \in Table
      BY <1>1, Tables
    <3>2. Streams' /\ n' = n /\ n = 4
      BY <1>1, <2>1 DEF Streams
    <3>3. ASSUME NEW i \in 1..7, i < n PROVE Holds(feed, ImportOrder[i])'
      <4>1. Holds(feed, ImportOrder[i]) /\ i # n
        BY <1>0, <3>3, <1>1 DEF Progress, ImportInv
      <4> QED BY <1>1, <2>1, <2>7, <3>1, <4>1 DEF Holds
    <3>4. ASSUME NEW i \in 1..7, i > n PROVE rows'[feed][ImportOrder[i]] = {}
      <4>1. rows[feed][ImportOrder[i]] = {} /\ i # n
        BY <1>0, <1>1, <3>4 DEF Progress, ImportInv
      <4> QED BY <1>1, <2>7, <3>1, <4>1
    <3> QED BY <2>1, <3>2, <3>3, <3>4 DEF ImportInv
  <2>9. SyncedInv'
    <3>1. \A f \in Synced : f # feed /\ f \in Feed
      BY <1>0, <1>1, StaticDbAssumption DEF Synced, Feed
    <3> QED BY <1>0, <2>1, <2>7, <3>1 DEF Progress, SyncedInv, Holds, Synced
  <2> QED BY <2>1, <2>5, <2>6, <2>8, <2>9 DEF Progress, StampInv
<1> QED BY <1>6, <1>7, <1>8

LEMMA SetFeedMetaProgress ==
  ASSUME TypeOK, Progress, SetFeedMeta PROVE Progress'
<1>1. /\ at = "meta" /\ rows' = rows /\ files' = files /\ pos' = pos /\ batch' = batch
      /\ stamp' = stamp \cup {feed} /\ feed \in 1..FeedCount /\ FeedCount \in Nat
  BY StaticDbAssumption DEF SetFeedMeta, TypeOK, Feed
<1>2. /\ pos = 0 /\ batch = <<>> /\ files[feed] \in Archive
      /\ \A t \in Table : Holds(feed, t)
      /\ \A f \in 1..(feed - 1) : files[f] \in Archive /\ \A t \in Table : Holds(f, t)
      /\ stamp \subseteq 1..(feed - 1)
  BY <1>1 DEF Progress, LoopInv, SyncedInv, StampInv, Synced, Streams
<1>3. \A f \in 1..feed : files[f] \in Archive /\ \A t \in Table : Holds(f, t)
  <2>1. \A f \in 1..feed : f = feed \/ f \in 1..(feed - 1)
    BY <1>1
  <2> QED BY <1>2, <2>1
<1>4. CASE feed < FeedCount
  <2>1. at' = "fetch" /\ n' = 1 /\ feed' = feed + 1
    BY <1>4 DEF SetFeedMeta, Goto
  <2>2. Synced' = 1..feed /\ feed + 1 - 1 = feed
    BY <1>1, <2>1 DEF Synced
  <2>3. stamp' \subseteq 1..(feed' - 1)
    BY <1>1, <1>2, <2>1
  <2> QED BY <1>1, <1>2, <1>3, <2>1, <2>2, <2>3
          DEF Progress, LoopInv, StreamInv, ImportInv, SyncedInv, StampInv, Holds, Streams
<1>5. CASE ~(feed < FeedCount)
  <2>1. at' = "analyze" /\ n' = 1 /\ feed' = feed
    BY <1>5 DEF SetFeedMeta, Goto
  <2>2. Synced' = 1..feed
    BY <1>1, <1>5, <2>1 DEF Synced, Feed
  <2> QED BY <1>1, <1>2, <1>3, <2>1, <2>2
          DEF Progress, LoopInv, StreamInv, ImportInv, SyncedInv, StampInv, Holds, Streams
<1> QED BY <1>4, <1>5

LEMMA ProgressStep == MigrationInv /\ TypeOK /\ Progress /\ [Next]_vars => Progress'
<1> SUFFICES ASSUME MigrationInv, TypeOK, Progress, [Next]_vars PROVE Progress'
  OBVIOUS
<1>1. CASE StartSeed
  BY <1>1, NotStarted DEF StartSeed, Goto
<1>2. CASE Migrate \/ Drop \/ Create \/ Reset
  <2>1. /\ at \in {"migrate", "drop", "create", "reset"} /\ feed = 1 /\ pos = 0 /\ batch = <<>>
    BY <1>2 DEF Migrate, Drop, Create, Reset, Progress, LoopInv, Streams
  <2>2. feed' = feed /\ pos' = pos /\ batch' = batch /\ files' = files
    BY <1>2 DEF Migrate, Drop, Create, Reset, Abort, loop
  <2>3. at' \in {"migrate", "drop", "create", "reset", "failed", "fetch"}
    BY <1>2, <2>1 DEF Migrate, Drop, Create, Reset, Abort, Goto
  <2>4. CASE at' = "fetch"
    <3>1. stamp' = {} /\ n' = 1
      BY <1>2, <2>4, Tables DEF Migrate, Drop, Create, Reset, Abort, Goto, TypeOK
    <3> QED BY <2>1, <2>2, <2>4, <3>1
            DEF Progress, LoopInv, StreamInv, ImportInv, SyncedInv, StampInv, Synced, Streams
  <2> QED BY <2>1, <2>2, <2>3, <2>4, Ended, NotStarted
<1>3. CASE FetchFails \/ Vacuum \/ Kill
  BY <1>3, Ended DEF FetchFails, Vacuum, Kill, Abort, Goto
<1>4. CASE Analyze
  <2>1. /\ at = "analyze" /\ at' = "done" /\ rows' = rows /\ files' = files
    BY <1>4 DEF Analyze, Goto, database, loop
  <2> QED BY <2>1 DEF Progress, LoopInv, StreamInv, ImportInv, SyncedInv, StampInv,
                      Holds, Synced, Streams
<1>5. CASE Boot \/ StopServer \/ UNCHANGED vars
  BY <1>5, ProgressKept DEF Boot, StopServer, vars, database, loop
<1>6. CASE (\E a \in Archive : Fetch(a)) \/ Clear \/ Import \/ Push \/ Flush \/ SetFeedMeta
  <2>1. ASSUME NEW a \in Archive, Fetch(a) PROVE Progress'
    BY <2>1, FetchProgress
  <2> QED BY <1>6, <2>1, ClearProgress, ImportProgress, PushProgress, FlushProgress,
             SetFeedMetaProgress
<1> QED BY <1>1, <1>2, <1>3, <1>4, <1>5, <1>6 DEF Next, Seed

-----------------------------------------------------------------------------
(* Stamps and what is published. *)

LEMMA ImportedWhole ==
  ASSUME NEW a \in Archive, NEW t \in Table
  PROVE  Whole(t, Imported(a)[t], Lines(a[t]))
<1> DEFINE csv == Lines(a[t])
<1>1. csv \in SUBSET Parsed
  BY StaticDbAssumption, LineFacts
<1>2. Whole(t, InsertAll(t, {}, csv), {} \cup csv)
  <2> HIDE DEF csv
  <2> QED BY <1>1, InsertWhole, WholeOfNothing
<1>3. {} \cup csv = csv
  OBVIOUS
<1> QED BY <1>2, <1>3 DEF Imported

\* Only the feed at hand changes its archive or gains rows, and it has no stamp yet.
LEMMA StampedStep ==
  MigrationInv /\ TypeOK /\ Progress /\ StampedWhole /\ [Next]_vars => StampedWhole'
<1> SUFFICES ASSUME MigrationInv, TypeOK, Progress, StampedWhole, [Next]_vars
             PROVE  StampedWhole'
  OBVIOUS
<1> DEFINE Stays(f, t) == rows'[f][t] = {} \/ rows'[f][t] = rows[f][t]
<1>0. stamp \subseteq Feed /\ feed \in Feed /\ rows \in [Feed -> [Table -> SUBSET Row]]
  BY DEF TypeOK
<1>k. ASSUME stamp' \subseteq stamp, \A f \in stamp', t \in Table : Stays(f, t) /\ files'[f] = files[f]
      PROVE  StampedWhole'
  BY <1>k DEF StampedWhole
<1>1. CASE StartSeed
  <2>1. CASE mode = "ci"
    BY <1>1, <2>1 DEF StartSeed, StampedWhole
  <2>2. CASE mode # "ci"
    BY <1>1, <1>k, <2>2 DEF StartSeed, database
  <2> QED BY <2>1, <2>2
<1>2. CASE Drop \/ Reset
  <2>1. files' = files /\ stamp' \subseteq stamp
    BY <1>2 DEF Drop, Reset, Abort, database, loop
  <2>2. ASSUME NEW f \in Feed, NEW t \in Table PROVE Stays(f, t)
    <3>1. rows' = rows \/ \E u : rows' = [g \in Feed |-> [rows[g] EXCEPT ![u] = {}]]
      BY <1>2 DEF Drop, Reset, Abort, database
    <3> QED BY <1>0, <3>1
  <2> QED BY <1>0, <1>k, <2>1, <2>2
<1>3. CASE Migrate \/ Create \/ FetchFails \/ Analyze \/ Vacuum \/ Kill \/ Boot \/ StopServer
           \/ UNCHANGED vars
  <2>1. rows' = rows /\ stamp' = stamp /\ files' = files
    BY <1>3 DEF Migrate, Create, FetchFails, Analyze, Vacuum, Kill, Boot, StopServer,
                Abort, vars, database, loop
  <2> QED BY <1>k, <2>1
<1>4. CASE (\E a \in Archive : Fetch(a)) \/ Clear \/ Import \/ Push \/ Flush
  <2>1. at \in {"fetch", "clear", "import"} /\ stamp' = stamp
    BY <1>4 DEF Fetch, Clear, Import, Push, Flush, Streaming, Abort, database
  <2>2. \A f \in stamp : f \in Feed /\ f # feed
    BY <1>0, <2>1, StaticDbAssumption DEF Progress, StampInv, Feed
  <2>3. \A f \in stamp : files'[f] = files[f]
    <3>1. files' = files \/ \E a \in Archive : files' = [files EXCEPT ![feed] = a]
      BY <1>4 DEF Fetch, Clear, Import, Push, Flush, Abort, loop
    <3> QED BY <2>2, <3>1 DEF TypeOK
  <2>4. ASSUME NEW f \in stamp, NEW t \in Table PROVE Stays(f, t)
    <3>1. \/ rows' = rows
          \/ \E u, x : rows' = [rows EXCEPT ![feed][u] = x]
          \/ rows' = [rows EXCEPT ![feed] = [u \in Table |-> {}]]
      BY <1>4 DEF Fetch, Clear, Import, Push, Flush, Store, Abort, database
    <3> QED BY <1>0, <2>2, <3>1
  <2> QED BY <1>k, <2>1, <2>3, <2>4
<1>5. CASE SetFeedMeta
  <2>1. at = "meta" /\ stamp' = stamp \cup {feed} /\ rows' = rows /\ files' = files
    BY <1>5 DEF SetFeedMeta
  <2>2. \A t \in Table : Whole(t, rows[feed][t], Lines(files[feed][t]))
    BY <2>1 DEF Progress, SyncedInv, Holds
  <2> QED BY <2>1, <2>2 DEF StampedWhole
<1> QED BY <1>1, <1>2, <1>3, <1>4, <1>5 DEF Next, Seed

LEMMA PublishedStep ==
  MigrationInv /\ TypeOK /\ Progress /\ PublishedWhole /\ [Next]_vars => PublishedWhole'
<1> SUFFICES ASSUME MigrationInv, TypeOK, Progress, PublishedWhole, [Next]_vars
             PROVE  PublishedWhole'
  OBVIOUS
<1>1. CASE Vacuum
  <2>1. at = "done" /\ published' = [rows |-> rows, files |-> files]
    BY <1>1 DEF Vacuum
  <2>2. \A f \in Feed, t \in Table : Whole(t, rows[f][t], Lines(files[f][t]))
    BY <2>1 DEF Progress, SyncedInv, Synced, Holds
  <2> QED BY <2>1, <2>2 DEF PublishedWhole
<1>2. CASE published' = published
  BY <1>2 DEF PublishedWhole
<1>3. Vacuum \/ published' = published
  BY DEF Next, Seed, StartSeed, Migrate, Drop, Create, Reset, Fetch, FetchFails, Clear, Import,
         Push, Flush, SetFeedMeta, Analyze, Kill, Boot, StopServer, vars
<1> QED BY <1>1, <1>2, <1>3

LEMMA SeedInit == Init => SeedInv
<1> SUFFICES ASSUME Init PROVE SeedInv
  OBVIOUS
<1>1. Progress
  BY DEF Init, Progress, LoopInv, StreamInv, ImportInv, SyncedInv, StampInv, Synced, Streams
<1>2. PublishedWhole
  BY DEF Init, PublishedWhole
<1>3. StampedWhole
  <2>1. PICK a \in Archive :
          \/ stamp = {}
          \/ rows = [f \in Feed |-> Imported(a)] /\ stamp = Feed /\ files = [f \in Feed |-> a]
    BY DEF Init
  <2> QED BY <2>1, ImportedWhole DEF StampedWhole
<1> QED BY <1>1, <1>2, <1>3, MigrationInit, TypeInit DEF SeedInv

LEMMA SeedStep == SeedInv /\ [Next]_vars => SeedInv'
<1> QED BY MigrationStep, TypeStep, ProgressStep, StampedStep, PublishedStep DEF SeedInv, Progress

\* The seed's variables keep their types, and between two rows the inserter holds less
\* than a batch (staticFeed.ts:192-196), for any archives, batch size and number of kills.
THEOREM SeedTypes == Spec => []TypeOK
<1>1. SeedInv => TypeOK
  BY DEF SeedInv
<1> QED BY <1>1, SeedInit, SeedStep, PTL DEF Spec

\* A database that CI publishes holds, for every feed and table, all that the archive
\* of the same run holds and nothing else (build-db.yml:42-45).
THEOREM PublishedComplete == Spec => []PublishedWhole
<1>1. SeedInv => PublishedWhole
  BY DEF SeedInv
<1> QED BY <1>1, SeedInit, SeedStep, PTL DEF Spec

\* No feed is stamped as synced over tables of which one is imported in part
\* (static.service.ts:117), wherever the seed fails or is killed.
THEOREM StampsAreTrue == Spec => []StampedWhole
<1>1. SeedInv => StampedWhole
  BY DEF SeedInv
<1> QED BY <1>1, SeedInit, SeedStep, PTL DEF Spec

\* Outside the seed's own deletions a row goes away only for another of its key
\* (client.ts:97-102): neither an import, nor a boot, nor a kill loses one.
THEOREM OnlySeedDeletes == Spec => RowsLostOnlyToSeed
<1> DEFINE Kept(f, t) == \A row \in rows[f][t] :
             \E r \in rows'[f][t] : r = row \/ SameKey(t, r, row)
<1>1. ASSUME SeedInv, [Next]_vars, at \notin {"drop", "reset", "clear"},
             ~(mode = "ci" /\ Idle), NEW f \in Feed, NEW t \in Table
      PROVE  Kept(f, t)
  <2>1. TypeOK /\ LoopInv
    BY <1>1 DEF SeedInv, Progress
  <2>2. CASE rows' = rows
    BY <2>2
  <2>3. ASSUME NEW u \in Table, NEW csv \in SUBSET Parsed, NEW top \in Nat,
               \A row \in csv : row.line <= top, Store(u, csv)
        PROVE  Kept(f, t)
    <3>1. rows'[f][t] = IF f = feed /\ t = u THEN InsertAll(u, rows[feed][u], csv) ELSE rows[f][t]
      BY <2>1, <2>3, StoreEffect
    <3> QED BY <2>3, <3>1, InsertKeeps
  <2>4. CASE Import
    <3> PICK v : v = ImportOrder[n]
      OBVIOUS
    <3> DEFINE csv == Lines(files[feed][v])
    <3>1. at = "import" /\ v # "stop_times"
      BY <2>4 DEF Import
    <3>2. v \in Table /\ csv \in SUBSET Parsed /\ files[feed] \in Archive
      BY <2>1, <3>1, ImportFacts DEF LoopInv
    <3>3. files[feed][v] \in Seq(CsvRow)
      BY <3>2, StaticDbAssumption
    <3>4. \A row \in csv : row.line <= Len(files[feed][v])
      BY <3>3, LineFacts
    <3>5. rows' = rows \/ Store(v, csv)
      BY <2>4 DEF Import, Abort, database
    <3>6. Len(files[feed][v]) \in Nat
      BY <3>3
    <3> HIDE DEF csv
    <3> QED BY <2>2, <2>3, <3>2, <3>4, <3>5, <3>6
  <2>5. CASE Push \/ Flush
    <3>1. at = "import" /\ Streaming
      BY <2>5 DEF Push, Flush, Streaming
    <3>2. /\ StopTimes \in Seq(CsvRow) /\ Len(StopTimes) \in Nat /\ "stop_times" \in Table
          /\ pos \in Nat /\ pos <= Len(StopTimes)
          /\ Range(batch) \subseteq Lines(StopTimes)
      <4>1. Streams /\ StopTimes \in Seq(CsvRow) /\ Len(StopTimes) \in Nat
        BY <2>1, <3>1, StreamFacts
      <4>2. StreamInv
        BY <1>1 DEF SeedInv, Progress
      <4> QED BY <2>1, <4>1, <4>2 DEF StreamInv, Between, TypeOK, Table
    <3>3. \A row \in Lines(StopTimes) : row.line <= Len(StopTimes) /\ row \in Parsed
      BY <3>2, LineFacts
    <3>4. PICK list : /\ rows' = rows \/ Store("stop_times", Range(list))
                      /\ \/ list = batch
                         \/ CsvLeft /\ list = Append(batch, Line(StopTimes, pos + 1))
      BY <2>5 DEF Push, Flush, Abort, database
    <3>5. Range(list) \subseteq Lines(StopTimes)
      <4>1. CASE list = batch
        BY <3>2, <4>1
      <4>2. CASE CsvLeft /\ list = Append(batch, Line(StopTimes, pos + 1))
        <5>1. pos + 1 \in 1..Len(StopTimes)
          BY <3>2, <4>2 DEF CsvLeft
        <5>2. Line(StopTimes, pos + 1) \in Lines(StopTimes)
          BY <3>2, <5>1, LineFacts
        <5>3. batch \in Seq(Parsed)
          BY <2>1 DEF TypeOK
        <5> QED BY <3>2, <4>2, <5>2, <5>3 DEF Range
      <4> QED BY <3>4, <4>1, <4>2
    <3>6. Range(list) \in SUBSET Parsed /\ \A row \in Range(list) : row.line <= Len(StopTimes)
      BY <3>3, <3>5
    <3> QED BY <2>2, <2>3, <3>2, <3>4, <3>6
  <2>6. rows' = rows \/ Import \/ Push \/ Flush
    <3>1. ~Drop /\ ~Reset /\ ~Clear
      BY <1>1 DEF Drop, Reset, Clear
    <3>2. StartSeed => rows' = rows
      BY <1>1 DEF StartSeed, database
    <3>3. CASE Migrate \/ Create \/ FetchFails \/ SetFeedMeta \/ Analyze \/ Vacuum \/ Kill \/ Boot
               \/ StopServer \/ UNCHANGED vars \/ \E a \in Archive : Fetch(a)
      BY <3>3 DEF Migrate, Create, Fetch, FetchFails, SetFeedMeta, Analyze, Vacuum, Kill, Boot,
                  StopServer, Abort, vars, database
    <3> QED BY <1>1, <3>1, <3>2, <3>3 DEF Next, Seed
  <2> QED BY <2>2, <2>4, <2>5, <2>6
<1>2. SeedInv /\ [Next]_vars =>
        [(\E f \in Feed, t \in Table : \E row \in rows[f][t] :
            \A r \in rows'[f][t] : r # row /\ ~SameKey(t, r, row)) =>
          \/ at \in {"drop", "reset", "clear"}
          \/ mode = "ci" /\ Idle]_vars
  BY <1>1
<1> QED BY <1>2, SeedInit, SeedStep, PTL DEF Spec, RowsLostOnlyToSeed
=============================================================================
