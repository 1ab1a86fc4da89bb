--------------------------- MODULE FetchDbProofs ---------------------------
(***************************************************************************)
(* Proofs that the installed database is never older than its label and    *)
(* never goes back, for any number of builds, kills and failures.  They    *)
(* assume that mta.db.gz is read back as last written or that the checksum *)
(* can always be read: with neither, the first of them is false.           *)
(***************************************************************************)
EXTENDS FetchDb, TLAPS

\* No store both serves an overwritten database and loses the checksum.
NoDoublyWeakStore == \A s \in Store : ~(s.staleGz /\ s.shaFails)

LEMMA IInvInit == Init => IInv
  BY FetchDbAssumption DEF Init, IInv, TypeOK, PublishOrder, InstallOrder, WalOrder,
     LabelNotAhead, NotNewer, Booting, Newest, Build

\* The parts of the invariant that every step preserves, one lemma per actor.
\* The steps of the CI job.
LEMMA JobStep ==
  ASSUME NoDoublyWeakStore, IInv, Job
  PROVE  IInv'
<1> USE FetchDbAssumption DEF NoDoublyWeakStore, IInv, TypeOK, Build, Booting, bucket, volume, locals, counts
<1>1. CASE StartBuild
  <2>1. TypeOK'
    BY <1>1 DEF StartBuild
  <2>2. PublishOrder'
    BY <1>1 DEF StartBuild, PublishOrder, NotNewer
  <2>3. InstallOrder'
    BY <1>1 DEF StartBuild, PublishOrder, InstallOrder, NotNewer, Newest
  <2>4. WalOrder'
    BY <1>1 DEF StartBuild, WalOrder, InstallOrder
  <2>5. LabelNotAhead'
    BY <1>1 DEF StartBuild, LabelNotAhead, InstallOrder, NotNewer
  <2>6. QED
    BY <2>1, <2>2, <2>3, <2>4, <2>5
<1>2. CASE PublishGz
  <2>1. TypeOK'
    <3>1. built \in Build
      BY <1>2 DEF PublishGz, PublishOrder
    <3>2. uploads' \subseteq Build
      BY <1>2, <3>1 DEF PublishGz
    <3>3. QED
      BY <1>2, <3>1, <3>2 DEF PublishGz
  <2>2. PublishOrder'
    BY <1>2 DEF PublishGz, PublishOrder, NotNewer
  <2>3. InstallOrder'
    BY <1>2 DEF PublishGz, PublishOrder, InstallOrder, NotNewer, Newest
  <2>4. WalOrder'
    BY <1>2 DEF PublishGz, WalOrder, InstallOrder
  <2>5. LabelNotAhead'
    BY <1>2 DEF PublishGz, LabelNotAhead, InstallOrder, NotNewer
  <2>6. QED
    BY <2>1, <2>2, <2>3, <2>4, <2>5
<1>3. CASE PublishSha
  <2>1. TypeOK'
    BY <1>3 DEF PublishSha, PublishOrder
  <2>2. PublishOrder'
    BY <1>3 DEF PublishSha, PublishOrder, NotNewer
  <2>3. InstallOrder'
    BY <1>3 DEF PublishSha, PublishOrder, InstallOrder, NotNewer, Newest
  <2>4. WalOrder'
    BY <1>3 DEF PublishSha, WalOrder, InstallOrder
  <2>5. LabelNotAhead'
    BY <1>3 DEF PublishSha, LabelNotAhead, InstallOrder, NotNewer
  <2>6. QED
    BY <2>1, <2>2, <2>3, <2>4, <2>5
<1>4. CASE PublishVersion
  <2>1. TypeOK'
    BY <1>4 DEF PublishVersion, PublishOrder
  <2>2. PublishOrder'
    BY <1>4 DEF PublishVersion, PublishOrder, NotNewer
  <2>3. InstallOrder'
    BY <1>4 DEF PublishVersion, PublishOrder, InstallOrder, NotNewer, Newest
  <2>4. WalOrder'
    BY <1>4 DEF PublishVersion, WalOrder, InstallOrder
  <2>5. LabelNotAhead'
    BY <1>4 DEF PublishVersion, LabelNotAhead, InstallOrder, NotNewer
  <2>6. QED
    BY <2>1, <2>2, <2>3, <2>4, <2>5
<1>5. CASE Roll
  <2>1. TypeOK'
    BY <1>5 DEF Roll
  <2>2. PublishOrder'
    BY <1>5 DEF Roll, PublishOrder, NotNewer
  <2>3. InstallOrder'
    BY <1>5 DEF Roll, PublishOrder, InstallOrder, NotNewer, Newest
  <2>4. WalOrder'
    BY <1>5 DEF Roll, WalOrder, InstallOrder
  <2>5. LabelNotAhead'
    BY <1>5 DEF Roll, LabelNotAhead, InstallOrder, NotNewer
  <2>6. QED
    BY <2>1, <2>2, <2>3, <2>4, <2>5
<1>6. CASE AbortBuild
  <2>1. TypeOK'
    BY <1>6 DEF AbortBuild
  <2>2. PublishOrder'
    BY <1>6 DEF AbortBuild, PublishOrder, NotNewer
  <2>3. InstallOrder'
    BY <1>6 DEF AbortBuild, PublishOrder, InstallOrder, NotNewer, Newest
  <2>4. WalOrder'
    BY <1>6 DEF AbortBuild, WalOrder, InstallOrder
  <2>5. LabelNotAhead'
    BY <1>6 DEF AbortBuild, LabelNotAhead, InstallOrder, NotNewer
  <2>6. QED
    BY <2>1, <2>2, <2>3, <2>4, <2>5
<1>7. QED
  BY <1>1, <1>2, <1>3, <1>4, <1>5, <1>6 DEF Job

\* The machine starts, stops or is killed.
LEMMA MachineStep ==
  ASSUME NoDoublyWeakStore, IInv, Boot \/ Stop \/ Crash
  PROVE  IInv'
<1> USE FetchDbAssumption DEF NoDoublyWeakStore, IInv, TypeOK, Build, Booting, bucket, volume, locals, counts
<1>1. CASE Boot
  <2>1. TypeOK'
    BY <1>1 DEF Boot
  <2>2. PublishOrder'
    BY <1>1 DEF Boot, PublishOrder, NotNewer
  <2>3. InstallOrder'
    BY <1>1 DEF Boot, PublishOrder, InstallOrder, NotNewer, Newest
  <2>4. WalOrder'
    BY <1>1 DEF Boot, WalOrder, InstallOrder
  <2>5. LabelNotAhead'
    BY <1>1 DEF Boot, LabelNotAhead, InstallOrder, NotNewer
  <2>6. QED
    BY <2>1, <2>2, <2>3, <2>4, <2>5
<1>2. CASE Stop
  <2>1. TypeOK'
    BY <1>2 DEF Stop
  <2>2. PublishOrder'
    BY <1>2 DEF Stop, PublishOrder, NotNewer
  <2>3. InstallOrder'
    BY <1>2 DEF Stop, PublishOrder, InstallOrder, NotNewer, Newest
  <2>4. WalOrder'
    BY <1>2 DEF Stop, WalOrder, InstallOrder
  <2>5. LabelNotAhead'
    BY <1>2 DEF Stop, LabelNotAhead, InstallOrder, NotNewer
  <2>6. QED
    BY <2>1, <2>2, <2>3, <2>4, <2>5
<1>3. CASE Crash
  <2>1. TypeOK'
    BY <1>3 DEF Crash
  <2>2. PublishOrder'
    BY <1>3 DEF Crash, PublishOrder, NotNewer
  <2>3. InstallOrder'
    BY <1>3 DEF Crash, PublishOrder, InstallOrder, NotNewer, Newest
  <2>4. WalOrder'
    BY <1>3 DEF Crash, WalOrder, InstallOrder
  <2>5. LabelNotAhead'
    BY <1>3 DEF Crash, LabelNotAhead, InstallOrder, NotNewer
  <2>6. QED
    BY <2>1, <2>2, <2>3, <2>4, <2>5
<1>4. QED
  BY <1>1, <1>2, <1>3

\* The steps of the script.
LEMMA ScriptStep ==
  ASSUME NoDoublyWeakStore, IInv, Script
  PROVE  IInv'
<1> USE FetchDbAssumption DEF NoDoublyWeakStore, IInv, TypeOK, Build, Booting, bucket, volume, locals, counts
<1>1. CASE ReadVersion
  <2>1. TypeOK'
    BY <1>1 DEF ReadVersion, OpenedWal
  <2>2. PublishOrder'
    BY <1>1 DEF ReadVersion, OpenedWal, PublishOrder, NotNewer
  <2>3. InstallOrder'
    BY <1>1 DEF ReadVersion, OpenedWal, PublishOrder, InstallOrder, NotNewer, Newest
  <2>4. WalOrder'
    BY <1>1 DEF ReadVersion, OpenedWal, WalOrder, InstallOrder
  <2>5. LabelNotAhead'
    BY <1>1 DEF ReadVersion, OpenedWal, LabelNotAhead, InstallOrder, NotNewer
  <2>6. QED
    BY <2>1, <2>2, <2>3, <2>4, <2>5
<1>2. CASE VersionUnreadable
  <2>1. TypeOK'
    BY <1>2 DEF VersionUnreadable, GiveUp, Fallback, OpenedWal, Failure
  <2>2. PublishOrder'
    BY <1>2 DEF VersionUnreadable, GiveUp, Fallback, OpenedWal, Failure, PublishOrder, NotNewer
  <2>3. InstallOrder'
    BY <1>2 DEF VersionUnreadable, GiveUp, Fallback, OpenedWal, Failure, PublishOrder, InstallOrder, NotNewer, Newest
  <2>4. WalOrder'
    BY <1>2 DEF VersionUnreadable, GiveUp, Fallback, OpenedWal, Failure, WalOrder, InstallOrder
  <2>5. LabelNotAhead'
    BY <1>2 DEF VersionUnreadable, GiveUp, Fallback, OpenedWal, Failure, LabelNotAhead, InstallOrder, NotNewer
  <2>6. QED
    BY <2>1, <2>2, <2>3, <2>4, <2>5
<1>3. CASE ReadSha
  <2>1. TypeOK'
    BY <1>3 DEF ReadSha
  <2>2. PublishOrder'
    BY <1>3 DEF ReadSha, PublishOrder, NotNewer
  <2>3. InstallOrder'
    BY <1>3 DEF ReadSha, PublishOrder, InstallOrder, NotNewer, Newest
  <2>4. WalOrder'
    BY <1>3 DEF ReadSha, WalOrder, InstallOrder
  <2>5. LabelNotAhead'
    BY <1>3 DEF ReadSha, LabelNotAhead, InstallOrder, NotNewer
  <2>6. QED
    BY <2>1, <2>2, <2>3, <2>4, <2>5
<1>4. CASE ShaUnreadable
  <2>1. TypeOK'
    BY <1>4 DEF ShaUnreadable
  <2>2. PublishOrder'
    BY <1>4 DEF ShaUnreadable, PublishOrder, NotNewer
  <2>3. InstallOrder'
    BY <1>4 DEF ShaUnreadable, PublishOrder, InstallOrder, NotNewer, Newest
  <2>4. WalOrder'
    BY <1>4 DEF ShaUnreadable, WalOrder, InstallOrder
  <2>5. LabelNotAhead'
    BY <1>4 DEF ShaUnreadable, LabelNotAhead, InstallOrder, NotNewer
  <2>6. QED
    BY <2>1, <2>2, <2>3, <2>4, <2>5
<1>5. CASE Download
  <2>1. TypeOK'
    BY <1>5 DEF Download
  <2>2. PublishOrder'
    BY <1>5 DEF Download, PublishOrder, NotNewer
  <2>3. InstallOrder'
    BY <1>5 DEF Download, PublishOrder, InstallOrder, NotNewer, Newest
  <2>4. WalOrder'
    BY <1>5 DEF Download, WalOrder, InstallOrder
  <2>5. LabelNotAhead'
    BY <1>5 DEF Download, LabelNotAhead, InstallOrder, NotNewer
  <2>6. QED
    BY <2>1, <2>2, <2>3, <2>4, <2>5
<1>6. CASE DownloadFails
  <2>1. TypeOK'
    BY <1>6 DEF DownloadFails, GiveUp, Fallback, OpenedWal, Failure
  <2>2. PublishOrder'
    BY <1>6 DEF DownloadFails, GiveUp, Fallback, OpenedWal, Failure, PublishOrder, NotNewer
  <2>3. InstallOrder'
    BY <1>6 DEF DownloadFails, GiveUp, Fallback, OpenedWal, Failure, PublishOrder, InstallOrder, NotNewer, Newest
  <2>4. WalOrder'
    BY <1>6 DEF DownloadFails, GiveUp, Fallback, OpenedWal, Failure, WalOrder, InstallOrder
  <2>5. LabelNotAhead'
    BY <1>6 DEF DownloadFails, GiveUp, Fallback, OpenedWal, Failure, LabelNotAhead, InstallOrder, NotNewer
  <2>6. QED
    BY <2>1, <2>2, <2>3, <2>4, <2>5
<1>7. CASE Verified
  <2>1. TypeOK'
    BY <1>7 DEF Verified
  <2>2. PublishOrder'
    BY <1>7 DEF Verified, PublishOrder, NotNewer
  <2>3. InstallOrder'
    BY <1>7 DEF Verified, PublishOrder, InstallOrder, NotNewer, Newest
  <2>4. WalOrder'
    BY <1>7 DEF Verified, WalOrder, InstallOrder
  <2>5. LabelNotAhead'
    BY <1>7 DEF Verified, LabelNotAhead, InstallOrder, NotNewer
  <2>6. QED
    BY <2>1, <2>2, <2>3, <2>4, <2>5
<1>8. CASE Mismatch
  <2>1. TypeOK'
    BY <1>8 DEF Mismatch, GiveUp, Fallback, OpenedWal, Failure
  <2>2. PublishOrder'
    BY <1>8 DEF Mismatch, GiveUp, Fallback, OpenedWal, Failure, PublishOrder, NotNewer
  <2>3. InstallOrder'
    BY <1>8 DEF Mismatch, GiveUp, Fallback, OpenedWal, Failure, PublishOrder, InstallOrder, NotNewer, Newest
  <2>4. WalOrder'
    BY <1>8 DEF Mismatch, GiveUp, Fallback, OpenedWal, Failure, WalOrder, InstallOrder
  <2>5. LabelNotAhead'
    BY <1>8 DEF Mismatch, GiveUp, Fallback, OpenedWal, Failure, LabelNotAhead, InstallOrder, NotNewer
  <2>6. QED
    BY <2>1, <2>2, <2>3, <2>4, <2>5
<1>9. CASE RemoveSidecars
  <2>1. TypeOK'
    BY <1>9 DEF RemoveSidecars
  <2>2. PublishOrder'
    BY <1>9 DEF RemoveSidecars, PublishOrder, NotNewer
  <2>3. InstallOrder'
    BY <1>9 DEF RemoveSidecars, PublishOrder, InstallOrder, NotNewer, Newest
  <2>4. WalOrder'
    BY <1>9 DEF RemoveSidecars, WalOrder, InstallOrder
  <2>5. LabelNotAhead'
    BY <1>9 DEF RemoveSidecars, LabelNotAhead, InstallOrder, NotNewer
  <2>6. QED
    BY <2>1, <2>2, <2>3, <2>4, <2>5
<1>10. CASE Rename
  <2>1. TypeOK'
    BY <1>10 DEF Rename
  <2>2. PublishOrder'
    BY <1>10 DEF Rename, PublishOrder, NotNewer
  <2>3. InstallOrder'
    BY <1>10 DEF Rename, PublishOrder, InstallOrder, NotNewer, Newest
  <2>4. WalOrder'
    BY <1>10 DEF Rename, WalOrder, InstallOrder
  <2>5. LabelNotAhead'
    BY <1>10 DEF Rename, LabelNotAhead, InstallOrder, NotNewer
  <2>6. QED
    BY <2>1, <2>2, <2>3, <2>4, <2>5
<1>11. CASE WriteLabel
  <2>1. TypeOK'
    BY <1>11 DEF WriteLabel, OpenedWal
  <2>2. PublishOrder'
    BY <1>11 DEF WriteLabel, OpenedWal, PublishOrder, NotNewer
  <2>3. InstallOrder'
    BY <1>11 DEF WriteLabel, OpenedWal, PublishOrder, InstallOrder, NotNewer, Newest
  <2>4. WalOrder'
    BY <1>11 DEF WriteLabel, OpenedWal, WalOrder, InstallOrder, NotNewer
  <2>5. LabelNotAhead'
    BY <1>11 DEF WriteLabel, OpenedWal, LabelNotAhead, InstallOrder, NotNewer
  <2>6. QED
    BY <2>1, <2>2, <2>3, <2>4, <2>5
<1>12. CASE FileError
  <2>1. TypeOK'
    BY <1>12 DEF FileError, GiveUp, Fallback, OpenedWal, Failure
  <2>2. PublishOrder'
    BY <1>12 DEF FileError, GiveUp, Fallback, OpenedWal, Failure, PublishOrder, NotNewer
  <2>3. InstallOrder'
    BY <1>12 DEF FileError, GiveUp, Fallback, OpenedWal, Failure, PublishOrder, InstallOrder, NotNewer, Newest
  <2>4. WalOrder'
    BY <1>12 DEF FileError, GiveUp, Fallback, OpenedWal, Failure, WalOrder, InstallOrder
  <2>5. LabelNotAhead'
    BY <1>12 DEF FileError, GiveUp, Fallback, OpenedWal, Failure, LabelNotAhead, InstallOrder, NotNewer
  <2>6. QED
    BY <2>1, <2>2, <2>3, <2>4, <2>5
<1>13. QED
  BY <1>1, <1>2, <1>3, <1>4, <1>5, <1>6, <1>7, <1>8, <1>9, <1>10, <1>11, <1>12 DEF Script

LEMMA IInvStep ==
  ASSUME NoDoublyWeakStore, IInv, [Next]_vars
  PROVE  IInv'
<1>1. CASE Next
  BY <1>1, JobStep, MachineStep, ScriptStep DEF Next
<1>2. CASE UNCHANGED vars
  BY <1>2 DEF vars, bucket, volume, locals, counts, IInv, TypeOK, PublishOrder,
     InstallOrder, WalOrder, LabelNotAhead, NotNewer, Newest
<1>3. QED
  BY <1>1, <1>2

\* The inductive invariant holds of every behaviour.
THEOREM Inductive ==
  ASSUME NoDoublyWeakStore
  PROVE  Spec => []IInv
<1>1. IInv /\ [Next]_vars => IInv'
  BY IInvStep
<1>2. QED
  BY IInvInit, <1>1, PTL DEF Spec

\* The label written after an install never names a newer build than the database
\* does, so a boot that skips its download has nothing to miss (fetch-db.ts:75).
THEOREM LabelIsHonest ==
  ASSUME NoDoublyWeakStore
  PROVE  Spec => []LabelNotAhead
<1>1. IInv => LabelNotAhead
  BY DEF IInv
<1>2. QED
  BY Inductive, <1>1, PTL

\* The server never runs without a database or next to another file's -wal
\* (fetch-db.ts:125-129, start.sh:6).
THEOREM OwnFilesServed ==
  ASSUME NoDoublyWeakStore
  PROVE  Spec => []ServesOwnFiles
<1>1. IInv => ServesOwnFiles
  BY DEF IInv, WalOrder, ServesOwnFiles
<1>2. QED
  BY Inductive, <1>1, PTL

\* A swap never replaces the database by an older build (fetch-db.ts:129).
THEOREM DatabaseMovesForward ==
  ASSUME NoDoublyWeakStore
  PROVE  Spec => DbNeverOlder
<1> DEFINE Forward == db # None => db' # None /\ db' >= db
<1>1. ASSUME IInv, [Next]_vars
      PROVE  Forward
  <2>1. CASE Rename
    BY <1>1, <2>1 DEF Rename, IInv, InstallOrder, NotNewer
  <2>2. CASE UNCHANGED db
    BY <1>1, <2>2, FetchDbAssumption DEF IInv, TypeOK, Build
  <2>3. QED
    BY <1>1, <2>1, <2>2 DEF Next, Job, Script, vars, volume, StartBuild, PublishGz, PublishSha,
       PublishVersion, Roll, AbortBuild, Boot, Stop, Crash, ReadVersion, VersionUnreadable,
       ReadSha, ShaUnreadable, Download, DownloadFails, Verified, Mismatch, RemoveSidecars,
       WriteLabel, FileError
<1>2. QED
  BY Inductive, <1>1, PTL DEF Spec, DbNeverOlder
=============================================================================
