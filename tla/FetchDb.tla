------------------------------ MODULE FetchDb ------------------------------
(***************************************************************************)
(* How a machine gets its database: the CI job that publishes builds       *)
(* (.github/workflows/build-db.yml), the script that installs one at boot  *)
(* (scripts/fetch-db.ts) and the server it starts (start.sh).              *)
(*                                                                         *)
(* A build is represented by its number: builds are published in order, so *)
(* the larger of two is the newer.  The three objects in the bucket and    *)
(* the files on the volume are each represented by the build they come     *)
(* from.  Machines do not interact, so one machine is modelled.            *)
(***************************************************************************)
EXTENDS Naturals

CONSTANTS
    MaxBuild,       \* bound on the number of builds
    MaxCrash,       \* bound on the number of times the machine is killed while booting
    MaxFault,       \* bound on the number of requests and file operations that fail
    Store,          \* external: the kinds of object store to consider
    None            \* a file or object that is not there

ASSUME FetchDbAssumption ==
    /\ MaxBuild \in Nat /\ MaxCrash \in Nat /\ MaxFault \in Nat
    /\ Store \subseteq [staleGz : BOOLEAN, shaFails : BOOLEAN]
    /\ None \notin Nat

Build == 1..MaxBuild

VARIABLES
    job,        \* the CI job: its next step, or "idle"
    built,      \* number of the latest build
    store,      \* external: may an overwritten mta.db.gz be served; may mta.db.sha256 fail
    gz, sha, version,   \* the objects mta.db.gz, mta.db.sha256, mta.db.version
    uploads,    \* every build ever uploaded as mta.db.gz
    pc,         \* the machine: next step of its boot, "serving", "exited" or "off"
    db,         \* DB_PATH
    wal,        \* DB_PATH-wal: the database file it was written for, or None
    label,      \* DB_PATH.version
    new,        \* DB_PATH.new
    remote,     \* remoteVersion of the running boot
    expected,   \* expectedSha of the running boot, None when it was unreadable
    crashes,    \* times the machine was killed while booting
    faults      \* requests and file operations that failed

bucket  == <<job, built, store, gz, sha, version, uploads>>
volume  == <<db, wal, label, new>>
locals  == <<remote, expected>>
counts  == <<crashes, faults>>
vars == <<bucket, pc, volume, locals, counts>>

Booting == {"version", "sha", "download", "verify", "sidecars", "rename", "label"}

TypeOK ==
    /\ job \in {"idle", "gz", "sha", "version", "roll", "done"}
    /\ built \in 0..MaxBuild
    /\ store \in Store
    /\ {gz, sha, version, db, wal, label, new, remote, expected} \subseteq Build \cup {None}
    /\ uploads \subseteq Build
    /\ pc \in Booting \cup {"off", "serving", "exited"}
    /\ crashes \in 0..MaxCrash /\ faults \in 0..MaxFault

Init ==
    /\ job = "idle" /\ built = 0
    /\ store \in Store
    /\ gz = None /\ sha = None /\ version = None /\ uploads = {}
    /\ pc = "off"
    /\ db = None /\ wal = None /\ label = None /\ new = None
    /\ remote = None /\ expected = None
    /\ crashes = 0 /\ faults = 0

-----------------------------------------------------------------------------
(* The CI job.  Its concurrency group lets one run publish at a time. *)

StartBuild ==
    /\ job = "idle"
    /\ built < MaxBuild
    /\ built' = built + 1
    /\ job' = "gz"
    /\ UNCHANGED <<store, gz, sha, version, uploads, pc, volume, locals, counts>>

PublishGz ==
    /\ job = "gz"
    /\ gz' = built
    /\ uploads' = uploads \cup {built}
    /\ job' = "sha"
    /\ UNCHANGED <<store, built, sha, version, pc, volume, locals, counts>>

PublishSha ==
    /\ job = "sha"
    /\ sha' = built
    /\ job' = "version"
    /\ UNCHANGED <<store, built, gz, version, uploads, pc, volume, locals, counts>>

\* Fault: the marker is published before the checksum and the database.
PublishVersionFirst ==
    /\ job = "gz"
    /\ version' = built
    /\ UNCHANGED <<store, job, built, gz, sha, uploads, pc, volume, locals, counts>>

\* The version marker comes last.
PublishVersion ==
    /\ job = "version"
    /\ version' = built
    /\ job' = "roll"
    /\ UNCHANGED <<store, built, gz, sha, uploads, pc, volume, locals, counts>>

\* `flyctl apps restart`; a machine that is off stays off until it is started.
Roll ==
    /\ job = "roll"
    /\ job' = IF built = MaxBuild THEN "done" ELSE "idle"
    /\ pc' = "off"
    /\ wal' \in IF pc = "serving" THEN {wal, None} ELSE {wal}
    /\ UNCHANGED <<store, built, gz, sha, version, uploads, db, label, new, locals, counts>>

\* A run that fails between two uploads is not resumed.
AbortBuild ==
    /\ job \in {"gz", "sha", "version"}
    /\ built < MaxBuild
    /\ job' = "idle"
    /\ UNCHANGED <<store, built, gz, sha, version, uploads, pc, volume, locals, counts>>

-----------------------------------------------------------------------------
(* scripts/fetch-db.ts. *)

\* Where a boot goes when the script gives up: fallbackOrFail, then start.sh.
Fallback == IF db # None THEN "serving" ELSE "exited"

\* Opening the database writes a -wal next to it (PRAGMA journal_mode = WAL).
OpenedWal(next) == wal' = IF next = "serving" THEN db ELSE wal

\* Fault: the server is started whether or not there is a database.
GiveUpBlindly ==
    /\ pc' = "serving"
    /\ OpenedWal("serving")

GiveUp ==
    /\ pc' = Fallback
    /\ OpenedWal(Fallback)

Boot ==
    /\ pc \in {"off", "exited"}
    /\ pc' = "version"
    /\ remote' = None /\ expected' = None
    /\ UNCHANGED <<bucket, volume, counts>>

Failure == faults < MaxFault /\ faults' = faults + 1 /\ UNCHANGED crashes

ReadVersion ==
    /\ pc = "version"
    /\ version # None
    /\ remote' = version
    /\ pc' = IF db # None /\ label = version THEN "serving" ELSE "sha"
    /\ OpenedWal(pc')
    /\ UNCHANGED <<bucket, db, label, new, expected, counts>>

VersionUnreadable ==
    /\ pc = "version"
    /\ IF version = None THEN UNCHANGED counts ELSE Failure
    /\ GiveUp
    /\ UNCHANGED <<bucket, db, label, new, locals>>

ReadSha ==
    /\ pc = "sha"
    /\ sha # None
    /\ expected' = sha
    /\ pc' = "download"
    /\ UNCHANGED <<bucket, volume, remote, counts>>

\* The checksum is optional: without it the download is not verified.
ShaUnreadable ==
    /\ pc = "sha"
    /\ store.shaFails \/ sha = None
    /\ expected' = None
    /\ pc' = "download"
    /\ UNCHANGED <<bucket, volume, remote, counts>>

\* The stream is written to DB_PATH.new as it arrives.
Download ==
    /\ pc = "download"
    /\ gz # None
    /\ new' \in IF store.staleGz THEN uploads ELSE {gz}
    /\ pc' = "verify"
    /\ UNCHANGED <<bucket, db, wal, label, locals, counts>>

DownloadFails ==
    /\ pc = "download"
    /\ IF gz = None THEN UNCHANGED counts ELSE Failure
    /\ new' = None
    /\ GiveUp
    /\ UNCHANGED <<bucket, db, label, locals>>

\* Fault: the label is written before the file is swapped in.
VerifiedLabelFirst ==
    /\ pc = "verify"
    /\ expected \in {None, new}
    /\ label' = remote
    /\ pc' = "sidecars"
    /\ UNCHANGED <<bucket, db, wal, new, locals, counts>>

\* Fault: the checksum is read but not compared.
VerifiedUnchecked ==
    /\ pc = "verify"
    /\ pc' = "sidecars"
    /\ UNCHANGED <<bucket, volume, locals, counts>>

Verified ==
    /\ pc = "verify"
    /\ expected \in {None, new}
    /\ pc' = "sidecars"
    /\ UNCHANGED <<bucket, volume, locals, counts>>

\* Fault: the download is repeated, against the checksum already read.
MismatchDownloadsAgain ==
    /\ pc = "verify"
    /\ expected \notin {None, new}
    /\ pc' = "download"
    /\ UNCHANGED <<bucket, volume, locals, counts>>

Mismatch ==
    /\ pc = "verify"
    /\ expected \notin {None, new}
    /\ new' = None
    /\ GiveUp
    /\ UNCHANGED <<bucket, db, label, locals, counts>>

\* Fault: the sidecars of the previous file are left behind.
KeepSidecars ==
    /\ pc = "sidecars"
    /\ pc' = "rename"
    /\ UNCHANGED <<bucket, volume, locals, counts>>

RemoveSidecars ==
    /\ pc = "sidecars"
    /\ wal' = None
    /\ pc' = "rename"
    /\ UNCHANGED <<bucket, db, label, new, locals, counts>>

Rename ==
    /\ pc = "rename"
    /\ db' = new
    /\ new' = None
    /\ pc' = "label"
    /\ UNCHANGED <<bucket, wal, label, locals, counts>>

WriteLabel ==
    /\ pc = "label"
    /\ label' = remote
    /\ pc' = "serving"
    /\ OpenedWal("serving")
    /\ UNCHANGED <<bucket, db, new, locals, counts>>

\* A file operation throws: main().catch gives up the same way.
FileError ==
    /\ pc \in {"sidecars", "rename", "label"}
    /\ Failure
    /\ GiveUp
    /\ UNCHANGED <<bucket, db, label, new, locals>>

\* The machine is stopped, or killed at any point of its boot.  A process that is
\* killed leaves its -wal behind.
Stop ==
    /\ pc = "serving"
    /\ pc' = "off"
    /\ wal' \in {wal, None}
    /\ UNCHANGED <<bucket, db, label, new, locals, counts>>

Crash ==
    /\ pc \in Booting
    /\ crashes < MaxCrash
    /\ crashes' = crashes + 1
    /\ pc' = "off"
    /\ UNCHANGED <<bucket, volume, locals, faults>>

-----------------------------------------------------------------------------
Job == StartBuild \/ PublishGz \/ PublishSha \/ PublishVersion \/ Roll \/ AbortBuild

Script ==
    \/ ReadVersion \/ VersionUnreadable \/ ReadSha \/ ShaUnreadable
    \/ Download \/ DownloadFails \/ Verified \/ Mismatch
    \/ RemoveSidecars \/ Rename \/ WriteLabel \/ FileError

Next == Job \/ Boot \/ Script \/ Stop \/ Crash

\* Every request carries a timeout, so the script moves on; the job's steps are
\* run; a machine that is off is started, by a request or by the restart.
Fairness ==
    /\ WF_vars(Script)
    /\ WF_vars(Boot)
    /\ WF_vars(StartBuild) /\ WF_vars(PublishGz) /\ WF_vars(PublishSha)
    /\ WF_vars(PublishVersion) /\ WF_vars(Roll)

Spec == Init /\ [][Next]_vars /\ Fairness

-----------------------------------------------------------------------------
\* The database is at least as new as its label says, whatever publication ran
\* during the download and wherever a boot was interrupted.  A label that is ahead
\* makes every later boot skip the download (fetch-db.ts:75).
LabelNotAhead == label # None => db # None /\ db >= label

\* An installed database is never replaced by an older one.
DbNeverOlder == [][db # None => db' # None /\ db' >= db]_vars

\* The server never opens a database next to the -wal of another file, and never
\* starts without one (fetch-db.ts:125, start.sh:6).
ServesOwnFiles == pc = "serving" => db # None /\ wal \in {None, db}

\* Every boot ends: the server runs, the script exits, or the machine goes down.
BootEnds == pc \in Booting ~> pc \in {"serving", "exited", "off"}

\* Once the last build is published and the machines are rolled, the machine
\* installs it, even if it is killed while it does so or the publication raced
\* with an earlier boot.  A request that fails, or a stale mta.db.gz, leaves it on
\* its old build instead.
CatchesUp ==
    job = "done" /\ ~store.staleGz ~> faults > 0 \/ (db # None /\ db >= version)

(* The inductive invariant behind LabelNotAhead, DbNeverOlder and ServesOwnFiles. *)

\* x is no newer than y, and exists only if y does.
NotNewer(x, y) == x # None => y # None /\ x <= y

\* The objects are published in the order gz, sha256, version.
PublishOrder ==
    /\ NotNewer(version, sha)
    /\ NotNewer(sha, gz)
    /\ gz # None => gz <= built
    /\ job # "idle" => built > 0
    /\ job \in {"sha", "version", "roll"} => gz = built
    /\ job \in {"version", "roll"} => sha = built

\* The newest build an install may be of: with stale reads only the checksum says
\* which build the download is.
Newest == IF store.staleGz THEN sha ELSE gz

\* A boot never holds anything older than what it has to replace.
InstallOrder ==
    /\ NotNewer(db, Newest)
    /\ NotNewer(remote, version)
    /\ pc \in Booting \ {"version"} => remote # None
    /\ (pc \in {"download", "verify"} /\ store.staleGz) =>
          /\ expected # None
          /\ NotNewer(remote, expected) /\ NotNewer(db, expected)
          /\ NotNewer(expected, sha)
    /\ pc = "verify" => new # None
    /\ pc \in {"sidecars", "rename"} \/ (pc = "verify" /\ ~store.staleGz) =>
          /\ new # None
          /\ NotNewer(remote, new) /\ NotNewer(db, new)
          /\ NotNewer(new, Newest)
    /\ pc = "label" => NotNewer(remote, db)

\* A -wal next to the database is that database's own.
WalOrder ==
    /\ wal \in {None, db}
    /\ pc \in {"rename", "label"} => wal = None
    /\ pc = "serving" => db # None

IInv == TypeOK /\ PublishOrder /\ InstallOrder /\ WalOrder /\ LabelNotAhead
=============================================================================
