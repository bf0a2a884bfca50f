--------------------------- MODULE MicroDBProofs ---------------------------
(***************************************************************************)
(* Proofs about MicroDB, for every set of keys and values, both sync modes *)
(* and all faults: what is served is what a kill gives back; how much a    *)
(* power loss may take, that a snapshot replaces a synced log only, and    *)
(* that records keep their files; that the store implements DurableMap.    *)
(***************************************************************************)
EXTENDS MicroDB, WalRecordsProofs, SequenceTheorems

\* A log as the store may find it on disk: the records that survive a power
\* loss and the partial record lie inside it.
WellFormed(l) ==
  /\ HasLast(l.wal)
  /\ l.synced <= Len(l.wal)
  /\ l.tear # NoTear => l.tear <= Len(l.wal)

LogsOK == \A l \in undo \cup {CurrentLog} : WellFormed(l)

\* What the local variables of a running call hold.
CallOK ==
  /\ pc \in RecordPCs => cur \in Rec
  /\ pc = "blob" => cur.val \in BlobVal
  /\ pc = "replay" => pos <= Reach
  /\ pc \in {"dirsync", "truncate", "walsync"} /\ promise # "holed" => base = index
  /\ pc = "walsync" => wal = <<>> /\ tear = NoTear
  /\ pc = "replay" => promise # "holed"

\* The inductive invariant: IndexIsLog needs to know that logs replay
\* (LogsOK), which record is in flight and that the snapshot equals the table
\* when the log is about to go, unless it has holes (CallOK).
IInv == TypeOK /\ LogsOK /\ CallOK /\ IndexIsLog

-----------------------------------------------------------------------------
\* The records of a log, seen from its fields.
LEMMA CurrentWellFormed ==
  ASSUME TypeOK, LogsOK
  PROVE  /\ wal \in Seq(Rec) /\ HasLast(wal) /\ Len(wal) \in Nat
         /\ synced \in 0..Len(wal)
         /\ tear # NoTear => tear \in 0..Len(wal)
         /\ Reach \in 0..Len(wal)
         /\ CurrentLog \in Log
<1>1. WellFormed(CurrentLog)
  BY DEF LogsOK
<1>2. HasLast(wal) /\ synced <= Len(wal) /\ (tear # NoTear => tear <= Len(wal))
  BY <1>1 DEF WellFormed, CurrentLog
<1>3. wal \in Seq(Rec) /\ tear \in Nat \cup {NoTear} /\ piled \in BOOLEAN /\ synced \in Nat
  BY DEF TypeOK
<1>4. Len(wal) \in Nat
  BY <1>3
<1>5. CurrentLog \in Log
  BY <1>3 DEF CurrentLog, Log
<1>. QED BY <1>2, <1>3, <1>4, <1>5 DEF Reach

\* What is left of a well-formed log after a power loss is well formed.
LEMMA SurvivorsWellFormed ==
  ASSUME NEW l \in Log, WellFormed(l), Survives(l)
  PROVE  CurrentLog' \in Log /\ WellFormed(CurrentLog')
<1>1. PICK n \in l.synced..Len(l.wal) :
        /\ wal' = FirstRecs(l.wal, n) /\ synced' = n /\ tear' \in TearsOf(l, n)
        /\ \E t \in TearsOf(l, n) : piled' \in PilesOf(l, n, t)
  BY DEF Survives
<1>2. l.wal \in Seq(Rec) /\ n \in 0..Len(l.wal) /\ n \in Nat
  BY DEF Log
<1>3. /\ FirstRecs(l.wal, n) \in Seq(Rec) /\ Len(FirstRecs(l.wal, n)) = n
      /\ HasLast(FirstRecs(l.wal, n))
  BY <1>2, PrefixHasLast DEF WellFormed
<1>4. tear' \in Nat \cup {NoTear} /\ (tear' # NoTear => tear' <= n)
  BY <1>1, <1>2 DEF Log, TearsOf
<1>5. piled' \in BOOLEAN
  BY <1>1 DEF PilesOf
<1>. QED BY <1>1, <1>2, <1>3, <1>4, <1>5 DEF Log, WellFormed, CurrentLog

\* The store starts empty and consistent.
LEMMA Initial == Init => IInv
<1> SUFFICES ASSUME Init PROVE IInv
  OBVIOUS
<1>1. EmptyMap \in Map
  BY DEF EmptyMap, Map
<1>2. TypeOK
  <2>1. syncEach \in BOOLEAN /\ failed \in BOOLEAN /\ piled \in BOOLEAN
    BY Zenon DEF Init
  <2>. QED BY <1>1, <2>1 DEF Init, TypeOK, PCs, OpenPCs
<1>3. LogsOK
  BY EmptyHasLast DEF Init, LogsOK, CurrentLog, WellFormed, NoTear
<1>4. CallOK /\ IndexIsLog
  BY DEF Init, CallOK, IndexIsLog, RecordPCs
<1>. QED BY <1>2, <1>3, <1>4 DEF IInv

-----------------------------------------------------------------------------
\* Each step keeps the types.
LEMMA TypeStep == IInv /\ [Next]_vars => TypeOK'
<1> SUFFICES ASSUME IInv, [Next]_vars PROVE TypeOK'
  OBVIOUS
<1>0. TypeOK /\ CallOK
  BY DEF IInv
<1>1. EmptyMap \in Map
  BY DEF EmptyMap, Map
<1>2. /\ wal \in Seq(Rec) /\ Len(wal) \in Nat /\ Reach \in 0..Len(wal)
      /\ CurrentLog \in Log
  BY CurrentWellFormed DEF IInv
<1>3. ASSUME NEW m \in Map, NEW r \in Rec PROVE Applied(m, r) \in Map
  BY DEF Applied, Map, Rec
<1>4. CASE UNCHANGED vars
  BY <1>0, <1>4 DEF TypeOK, vars, disk, logVars, session, call
<1>5. CASE DbOpen
  BY <1>0, <1>2, <1>5, ConstantsAssumption DEF DbOpen, TypeOK, PCs, OpenPCs, disk, logVars
<1>6. CASE WalReplayRecord
  <2>1. pos + 1 \in 1..Len(wal)
    BY <1>0, <1>2, <1>6 DEF WalReplayRecord, TypeOK
  <2>2. wal[pos + 1] \in Rec
    BY <1>2, <2>1
  <2>3. index' \in Map
    BY <1>0, <1>3, <1>6, <2>2 DEF WalReplayRecord, TypeOK
  <2>. QED BY <1>0, <1>6, <2>3 DEF WalReplayRecord, TypeOK, disk, logVars, call
<1>7. CASE WalReplayEnds
  BY <1>0, <1>7 DEF WalReplayEnds, Return, TypeOK, PCs, OpenPCs, disk, logVars, session
<1>8. CASE WalReplayRejects
  BY <1>0, <1>1, <1>8 DEF WalReplayRejects, Forget, TypeOK, PCs, OpenPCs, disk, logVars
<1>9. CASE DbClose
  BY <1>0, <1>1, <1>2, <1>9
  DEF DbClose, SyncWal, Forget, TypeOK, PCs, OpenPCs, logVars
<1>10. CASE \E w \in Writes : DbWrite(w[1], w[2])
  <2>1. PICK k \in Key, v \in Val : DbWrite(k, v)
    BY <1>10, ConstantsAssumption
  <2>. QED BY <1>0, <2>1
           DEF DbWrite, TypeOK, Rec, PCs, RecordPCs, disk, logVars, session
<1>11. CASE WriteBlobFile
  <2>1. cur \in Rec /\ cur.val \in BlobVal /\ pc = "blob"
    BY <1>0, <1>11 DEF WriteBlobFile, CallOK, RecordPCs
  <2>2. <<cur.key, cur.val>> \in BlobId
    BY <2>1 DEF BlobId, Rec
  <2>3. blobs' \subseteq BlobId
    BY <1>0, <1>11, <2>2 DEF WriteBlobFile, Fail, TypeOK
  <2>. QED BY <1>0, <1>11, <2>3
           DEF WriteBlobFile, Fail, FilesAfter, Return, TypeOK, PCs, OpenPCs, RecordPCs,
               logVars, session
<1>12. CASE WalAppended
  <2>1. cur \in Rec
    BY <1>0, <1>12 DEF WalAppended, CallOK, RecordPCs
  <2>2. wal' \in Seq(Rec)
    BY <1>2, <1>12, <2>1 DEF WalAppended
  <2>. QED BY <1>0, <1>12, <2>2 DEF WalAppended, TypeOK, PCs, RecordPCs, session
<1>13. CASE WalAppendFails
  <2>1. tear' \in Nat \cup {NoTear} /\ piled' \in BOOLEAN
    BY <1>0, <1>2, <1>13 DEF WalAppendFails, Tears, TypeOK
  <2>. QED BY <1>0, <1>13, <2>1
           DEF WalAppendFails, Fail, FilesAfter, Return, TypeOK, PCs, OpenPCs, session
<1>14. CASE ApplyToIndex
  <2>1. cur \in Rec /\ cur.key \in Key
    BY <1>0, <1>14 DEF ApplyToIndex, CallOK, RecordPCs, Rec
  <2>2. index' \in Map /\ old' \in Val \cup {None}
    BY <1>0, <1>3, <1>14, <2>1 DEF ApplyToIndex, TypeOK, Map
  <2>. QED BY <1>0, <1>14, <2>2 DEF ApplyToIndex, TypeOK, PCs, RecordPCs, disk, logVars
<1>15. CASE DbSyncIfNeeded
  <2>1. failed' \in BOOLEAN
    BY <1>0, <1>15, Zenon DEF DbSyncIfNeeded, TypeOK
  <2>. QED BY <1>0, <1>2, <1>15, <2>1
  DEF DbSyncIfNeeded, GoOn, SyncWal, Fail, FilesAfter, Return, TypeOK, PCs, OpenPCs,
      RecordPCs, logVars
<1>16. CASE DeleteBlobFile
  <2>1. blobs' \subseteq BlobId
    BY <1>0, <1>16 DEF DeleteBlobFile, TypeOK
  <2>. QED BY <1>0, <1>16, <2>1
           DEF DeleteBlobFile, FilesAfter, Return, TypeOK, PCs, OpenPCs, logVars, session
<1>17. CASE \E S \in SUBSET Key : DbDeleteWhere(S)
  BY <1>0, <1>17 DEF DbDeleteWhere, TypeOK, PCs, disk, logVars, session
<1>18. CASE \E k \in Key : DeleteSkips(k)
  BY <1>0, <1>18 DEF DeleteSkips, TypeOK, disk, logVars, session
<1>19. CASE \E k \in Key : DeleteStarts(k)
  BY <1>0, <1>19 DEF DeleteStarts, TypeOK, Rec, PCs, RecordPCs, disk, logVars, session
<1>20. CASE \E k \in Key : DeleteFails(k)
  BY <1>0, <1>20 DEF DeleteFails, Return, TypeOK, PCs, OpenPCs, disk, logVars, session
<1>21. CASE DeleteDone
  BY <1>0, <1>21 DEF DeleteDone, Return, TypeOK, PCs, OpenPCs, disk, logVars, session
<1>22. CASE DbCompact
  BY <1>0, <1>2, <1>22 DEF DbCompact, SyncWal, TypeOK, PCs, CompactPCs, logVars
<1>23. CASE DbCompactFails
  BY <1>0, <1>23 DEF DbCompactFails, Return, TypeOK, PCs, OpenPCs, disk, logVars, session
<1>24. CASE SnapshotWritten
  BY <1>0, <1>24 DEF SnapshotWritten, TypeOK, PCs, CompactPCs, disk, logVars, session
<1>25. CASE BaseRenamed
  <2>1. base' \in Map
    BY <1>0, <1>25 DEF BaseRenamed, Snapshots, TypeOK, Map
  <2>. QED BY <1>0, <1>25, <2>1 DEF BaseRenamed, TypeOK, PCs, CompactPCs, logVars, session
<1>26. CASE DirSynced
  BY <1>0, <1>26 DEF DirSynced, TypeOK, PCs, CompactPCs, logVars, session
<1>27. CASE WalTruncated
  <2>1. <<>> \in Seq(Rec)
    OBVIOUS
  <2>. QED BY <1>0, <1>2, <1>27, <2>1 DEF WalTruncated, TypeOK, PCs, CompactPCs
<1>28. CASE WalSynced
  BY <1>0, <1>2, <1>28
  DEF WalSynced, SyncWal, Return, TypeOK, PCs, OpenPCs, session
<1>29. CASE Kill
  <2>1. tear' \in Nat \cup {NoTear} /\ piled' \in BOOLEAN
    BY <1>0, <1>2, <1>29 DEF Kill, Tears, TypeOK
  <2>. QED BY <1>0, <1>1, <1>29, <2>1 DEF Kill, Forget, TypeOK, PCs, OpenPCs
<1>30. CASE PowerLoss
  <2>1. PICK l \in undo \cup {CurrentLog} : Survives(l)
    BY <1>30 DEF PowerLoss
  <2>2. l \in Log /\ WellFormed(l)
    BY <1>0, <1>2 DEF TypeOK, IInv, LogsOK
  <2>3. CurrentLog' \in Log
    BY <2>1, <2>2, SurvivorsWellFormed
  <2>5. /\ wal' \in Seq(Rec) /\ tear' \in Nat \cup {NoTear} /\ piled' \in BOOLEAN
        /\ synced' \in Nat
    BY <2>3 DEF Log, CurrentLog
  <2>. QED BY <1>0, <1>1, <1>30, <2>5 DEF PowerLoss, Forget, TypeOK, PCs, OpenPCs
<1>. QED
  BY <1>4, <1>5, <1>6, <1>7, <1>8, <1>9, <1>10, <1>11, <1>12, <1>13, <1>14, <1>15,
     <1>16, <1>17, <1>18, <1>19, <1>20, <1>21, <1>22, <1>23, <1>24, <1>25, <1>26,
     <1>27, <1>28, <1>29, <1>30 DEF Next

-----------------------------------------------------------------------------
\* Syncing the log keeps it well formed.
LEMMA SyncKeepsLogs == IInv /\ SyncWal => LogsOK'
<1> SUFFICES ASSUME IInv, SyncWal PROVE LogsOK'
  OBVIOUS
<1>1. wal \in Seq(Rec) /\ HasLast(wal) /\ Len(wal) \in Nat /\ (tear # NoTear => tear <= Len(wal))
  BY CurrentWellFormed DEF IInv
<1>2. WellFormed([wal |-> wal, tear |-> tear, piled |-> piled, synced |-> Len(wal)])
  BY <1>1 DEF WellFormed
<1>3. undo' = {} /\ CurrentLog' = [wal |-> wal, tear |-> tear, piled |-> piled, synced |-> Len(wal)]
  BY DEF SyncWal, CurrentLog
<1>. QED BY <1>2, <1>3 DEF LogsOK

\* So does leaving it alone.
LEMMA StillLogs == IInv /\ UNCHANGED logVars => LogsOK'
BY DEF IInv, logVars, LogsOK, CurrentLog

\* So does an append cut short.
LEMMA TornKeepsLogs ==
  IInv /\ Tears /\ UNCHANGED <<wal, synced, undo>> => LogsOK'
<1> SUFFICES ASSUME IInv, Tears, UNCHANGED <<wal, synced, undo>> PROVE LogsOK'
  OBVIOUS
<1>1. /\ wal \in Seq(Rec) /\ HasLast(wal) /\ Len(wal) \in Nat
      /\ (tear # NoTear => tear \in 0..Len(wal)) /\ synced <= Len(wal)
  BY CurrentWellFormed DEF IInv
<1>2. tear' # NoTear => tear' <= Len(wal)
  BY <1>1 DEF Tears
<1>3. WellFormed([wal |-> wal, tear |-> tear', piled |-> piled', synced |-> synced])
  BY <1>1, <1>2 DEF WellFormed
<1>. QED BY <1>3 DEF LogsOK, IInv, CurrentLog

\* Each step keeps the logs well formed, the ones a power loss may give back
\* included.
LEMMA LogsStep == IInv /\ [Next]_vars => LogsOK'
<1> SUFFICES ASSUME IInv, [Next]_vars PROVE LogsOK'
  OBVIOUS
<1>0. /\ wal \in Seq(Rec) /\ HasLast(wal) /\ Len(wal) \in Nat
      /\ synced \in 0..Len(wal) /\ (tear # NoTear => tear \in 0..Len(wal))
      /\ CurrentLog \in Log
  BY CurrentWellFormed DEF IInv
<1>1. CASE UNCHANGED logVars
  BY <1>1, StillLogs
<1>2. CASE SyncWal
  BY <1>2, SyncKeepsLogs
<1>3. CASE WalAppended
  <2>1. cur \in Rec
    BY <1>3 DEF IInv, CallOK, WalAppended, RecordPCs
  <2>2. HasLast(Append(wal, cur)) /\ Len(Append(wal, cur)) = Len(wal) + 1
    BY <1>0, <2>1, AppendHasLast
  <2>3. WellFormed([wal |-> Append(wal, cur), tear |-> tear, piled |-> FALSE, synced |-> synced])
    BY <1>0, <2>2 DEF WellFormed
  <2>. QED BY <1>3, <2>3 DEF WalAppended, IInv, LogsOK, CurrentLog
<1>4. CASE WalAppendFails
  BY <1>4, TornKeepsLogs DEF WalAppendFails
<1>5. CASE WalTruncated
  <2>1. WellFormed([wal |-> <<>>, tear |-> NoTear, piled |-> FALSE, synced |-> 0])
    BY EmptyHasLast DEF WellFormed
  <2>. QED BY <1>5, <2>1 DEF WalTruncated, IInv, LogsOK, CurrentLog
<1>6. CASE Kill
  BY <1>6, StillLogs, TornKeepsLogs DEF Kill, logVars
<1>7. CASE PowerLoss
  <2>1. PICK l \in undo \cup {CurrentLog} : Survives(l)
    BY <1>7 DEF PowerLoss
  <2>2. l \in Log /\ WellFormed(l)
    BY <1>0 DEF IInv, TypeOK, LogsOK
  <2>3. WellFormed(CurrentLog')
    BY <2>1, <2>2, SurvivorsWellFormed
  <2>. QED BY <1>7, <2>3 DEF PowerLoss, LogsOK
<1>8. [Next]_vars =>
        \/ UNCHANGED logVars \/ SyncWal \/ WalAppended \/ WalAppendFails
        \/ WalTruncated \/ Kill \/ PowerLoss
  BY DEF Next, vars, disk, DbOpen, WalReplayRecord, WalReplayEnds, WalReplayRejects,
         DbClose, DbWrite, WriteBlobFile, ApplyToIndex, DbSyncIfNeeded, GoOn, DeleteBlobFile,
         DbDeleteWhere, DeleteSkips, DeleteStarts, DeleteFails, DeleteDone, DbCompact,
         DbCompactFails, SnapshotWritten, BaseRenamed, DirSynced, WalSynced
<1>. QED BY <1>1, <1>2, <1>3, <1>4, <1>5, <1>6, <1>7, <1>8

-----------------------------------------------------------------------------
\* Each step leaves the call it is part of with what its next steps need.
LEMMA CallStep == IInv /\ [Next]_vars => CallOK'
<1> SUFFICES ASSUME IInv, [Next]_vars PROVE CallOK'
  OBVIOUS
<1>0. TypeOK /\ CallOK
  BY DEF IInv
<1>1. Reach \in 0..Len(wal) /\ Len(wal) \in Nat /\ pos \in Nat
  BY CurrentWellFormed DEF IInv, TypeOK
<1>2. CASE UNCHANGED vars
  BY <1>0, <1>2 DEF CallOK, vars, disk, logVars, session, call, Reach
<1>3. CASE DbOpen
  <2>1. Reach' = Reach
    BY <1>3 DEF DbOpen, disk, logVars, Reach
  <2>. QED BY <1>1, <1>3, <2>1 DEF DbOpen, CallOK, RecordPCs
<1>4. CASE WalReplayRecord
  <2>1. Reach' = Reach
    BY <1>4 DEF WalReplayRecord, disk, logVars, Reach
  <2>. QED BY <1>0, <1>1, <1>4, <2>1 DEF WalReplayRecord, CallOK, RecordPCs, call
<1>5. CASE pc' \in {"ready", "closed", "pick", "snapshot", "rename"}
  BY <1>5 DEF CallOK, RecordPCs
<1>6. CASE \E w \in Writes : DbWrite(w[1], w[2])
  BY <1>6, ConstantsAssumption DEF DbWrite, CallOK, RecordPCs, Rec
<1>7. CASE WriteBlobFile
  BY <1>0, <1>7 DEF WriteBlobFile, Fail, Return, CallOK, RecordPCs
<1>8. CASE WalAppended
  BY <1>0, <1>8 DEF WalAppended, CallOK, RecordPCs
<1>9. CASE ApplyToIndex
  BY <1>0, <1>9 DEF ApplyToIndex, CallOK, RecordPCs
<1>10. CASE DbSyncIfNeeded
  BY <1>0, <1>10 DEF DbSyncIfNeeded, GoOn, Fail, Return, CallOK, RecordPCs
<1>11. CASE \E k \in Key : DeleteStarts(k)
  BY <1>11 DEF DeleteStarts, CallOK, RecordPCs, Rec
<1>12. CASE \E k \in Key : DeleteSkips(k)
  BY <1>0, <1>12 DEF DeleteSkips, CallOK, RecordPCs
<1>13. CASE BaseRenamed
  BY <1>0, <1>13 DEF BaseRenamed, CallOK, RecordPCs, session
<1>14. CASE DirSynced
  BY <1>0, <1>14 DEF DirSynced, CallOK, RecordPCs, session
<1>15. CASE WalTruncated
  BY <1>0, <1>15 DEF WalTruncated, CallOK, RecordPCs
<1>16. [Next]_vars =>
        \/ UNCHANGED vars \/ DbOpen \/ WalReplayRecord
        \/ pc' \in {"ready", "closed", "pick", "snapshot", "rename"}
        \/ \E w \in Writes : DbWrite(w[1], w[2])
        \/ WriteBlobFile \/ WalAppended \/ ApplyToIndex \/ DbSyncIfNeeded
        \/ \E k \in Key : DeleteStarts(k)
        \/ \E k \in Key : DeleteSkips(k)
        \/ BaseRenamed \/ DirSynced \/ WalTruncated
  BY DEF Next, WalReplayEnds, WalReplayRejects, DbClose, WalAppendFails, Fail, Return,
         Forget, DeleteBlobFile, DbDeleteWhere, DeleteFails, DeleteDone, DbCompact,
         DbCompactFails, SnapshotWritten, WalSynced, Kill, PowerLoss
<1>. QED
  BY <1>2, <1>3, <1>4, <1>5, <1>6, <1>7, <1>8, <1>9, <1>10, <1>11, <1>12, <1>13,
     <1>14, <1>15, <1>16

-----------------------------------------------------------------------------
\* A step that leaves log, snapshot and table alone keeps a table that was
\* the log's.
LEMMA StillIndexIsLog ==
  IInv /\ UNCHANGED <<wal, tear, base, index, pos>>
    /\ (pc' = pc \/ (pc \notin {"closed", "replay", "apply"} /\ pc' \notin {"replay", "apply"}))
    /\ (pc' = "apply" => cur' = cur) /\ (promise' # "holed" => promise # "holed")
  => IndexIsLog'
BY DEF IInv, IndexIsLog, Buried

\* Each step leaves the table equal to its log.
LEMMA IndexStep == IInv /\ [Next]_vars => IndexIsLog'
<1> SUFFICES ASSUME IInv, [Next]_vars PROVE IndexIsLog'
  OBVIOUS
<1>0. /\ TypeOK /\ CallOK /\ IndexIsLog
      /\ wal \in Seq(Rec) /\ HasLast(wal) /\ Len(wal) \in Nat /\ Reach \in 0..Len(wal)
      /\ tear # NoTear => tear \in 0..Len(wal)
  BY CurrentWellFormed DEF IInv
<1>1. CASE pc' = "closed"
  BY <1>1 DEF IndexIsLog
<1>2. CASE UNCHANGED vars
  BY <1>2, StillIndexIsLog DEF vars, disk, logVars, session, call
<1>3. CASE DbOpen
  <2>1. FirstRecs(wal', pos') = <<>> /\ index' = base /\ base' = base
    BY <1>0, <1>3, WholePrefix DEF DbOpen, disk, logVars
  <2>2. Replayed(base, <<>>) = base
    BY <1>0, ReplayedEmpty DEF TypeOK
  <2>. QED BY <1>3, <2>1, <2>2 DEF DbOpen, IndexIsLog
<1>4. CASE WalReplayRecord
  <2>1. pos \in 0..(Len(wal) - 1) /\ pos \in 0..Len(wal) /\ wal[pos + 1] \in Rec
    BY <1>0, <1>4 DEF WalReplayRecord, TypeOK
  <2>2. /\ FirstRecs(wal, pos) \in Seq(Rec) /\ HasLast(FirstRecs(wal, pos))
        /\ FirstRecs(wal, pos + 1) = Append(FirstRecs(wal, pos), wal[pos + 1])
    BY <1>0, <2>1, PrefixHasLast, PrefixStep
  <2>3. Replayed(base, FirstRecs(wal, pos + 1))
          = Applied(Replayed(base, FirstRecs(wal, pos)), wal[pos + 1])
    BY <1>0, <2>1, <2>2, ReplayedAppend DEF TypeOK
  <2>. QED BY <1>0, <1>4, <2>3 DEF WalReplayRecord, IndexIsLog, disk, logVars, call
<1>5. CASE WalReplayEnds
  <2>1. index = Replayed(base, FirstRecs(wal, Reach))
    BY <1>0, <1>5 DEF WalReplayEnds, IndexIsLog
  <2>2. ~Buried => Reach = Len(wal)
    BY <1>0 DEF Buried, Reach
  <2>3. FirstRecs(wal, Len(wal)) = wal
    BY <1>0, WholePrefix
  <2>. QED BY <1>5, <2>1, <2>2, <2>3
           DEF WalReplayEnds, Return, IndexIsLog, Buried, disk, logVars, session
<1>6. CASE WalAppended
  <2>1. cur \in Rec /\ pc = "append"
    BY <1>0, <1>6 DEF WalAppended, CallOK, RecordPCs
  <2>2. Len(wal') = Len(wal) + 1 /\ tear' = tear
    BY <1>0, <1>6, <2>1 DEF WalAppended
  <2>3. ~Buried' => ~Buried
    BY <1>0, <2>2 DEF Buried
  <2>4. ~Buried /\ promise # "holed" => index = Replayed(base, wal)
    BY <1>0, <2>1 DEF IndexIsLog
  <2>5. Replayed(base, wal') = Applied(Replayed(base, wal), cur)
    BY <1>0, <1>6, <2>1, ReplayedAppend DEF WalAppended, TypeOK
  <2>. QED BY <1>6, <2>3, <2>4, <2>5 DEF WalAppended, IndexIsLog, session
<1>7. CASE WalAppendFails \/ (pc' = "ready" /\ DbSyncIfNeeded)
  <2>1. ~Buried' => ~Buried
    BY <1>0, <1>7 DEF WalAppendFails, Tears, DbSyncIfNeeded, GoOn, SyncWal, Buried, logVars
  <2>2. UNCHANGED <<wal, base, index, promise>> /\ pc \in {"append", "sync"} /\ pc' = "ready"
    BY <1>7 DEF WalAppendFails, DbSyncIfNeeded, GoOn, Fail, Return, SyncWal, logVars, session
  <2>. QED BY <1>0, <2>1, <2>2 DEF IndexIsLog
<1>8. CASE ApplyToIndex
  BY <1>0, <1>8 DEF ApplyToIndex, IndexIsLog, Buried, disk, logVars
<1>9. CASE BaseRenamed
  <2>1. ~Buried /\ promise # "holed" => Replayed(index, wal) = index
    BY <1>0, <1>9, ReplayedIdempotent DEF BaseRenamed, IndexIsLog
  <2>2. promise' # "holed" => promise # "holed" /\ base' = index
    BY <1>9 DEF BaseRenamed
  <2>. QED BY <2>2, <1>9, <2>1 DEF BaseRenamed, IndexIsLog, Buried, logVars, session
<1>10. CASE WalTruncated
  <2>1. (promise # "holed" => base = index) /\ Replayed(base, <<>>) = base
    BY <1>0, <1>10, ReplayedEmpty DEF WalTruncated, CallOK, TypeOK
  <2>. QED BY <1>10, <2>1 DEF WalTruncated, IndexIsLog
<1>11. CASE DbSyncIfNeeded /\ pc' # "ready"
  BY <1>11, StillIndexIsLog DEF DbSyncIfNeeded, GoOn, SyncWal, Fail, Return, logVars
<1>12. CASE \E w \in Writes : DbWrite(w[1], w[2])
  BY <1>12, StillIndexIsLog DEF DbWrite, disk, logVars, session
<1>13. CASE DbCompact \/ WalSynced
  <2>1. CASE promise' # "holed" /\ promise = "holed"
    <3>1. wal' = <<>> /\ base' = base /\ index' = base /\ pc' = "ready"
      BY <1>0, <1>13, <2>1 DEF DbCompact, WalSynced, CallOK, SyncWal, Return, session
    <3>2. Replayed(base, <<>>) = base
      BY <1>0, ReplayedEmpty DEF TypeOK
    <3>. QED BY <3>1, <3>2 DEF IndexIsLog
  <2>2. CASE promise' # "holed" => promise # "holed"
    BY <1>13, <2>2, StillIndexIsLog
    DEF DbCompact, WalSynced, Return, SyncWal, logVars, session
  <2>. QED BY <2>1, <2>2
<1>14. CASE \/ WriteBlobFile \/ DeleteBlobFile \/ DeleteDone \/ DbCompactFails
            \/ SnapshotWritten \/ DirSynced
  BY <1>14, StillIndexIsLog
  DEF WriteBlobFile, DeleteBlobFile, Fail, Return, DeleteDone, DbCompactFails, CompactPCs,
      SnapshotWritten, DirSynced, disk, logVars, session
<1>15. CASE \/ \E S \in SUBSET Key : DbDeleteWhere(S)
            \/ \E k \in Key : DeleteSkips(k) \/ DeleteStarts(k) \/ DeleteFails(k)
  BY <1>15, StillIndexIsLog
  DEF DbDeleteWhere, DeleteSkips, DeleteStarts, DeleteFails, Return, disk, logVars, session
<1>16. [Next]_vars =>
        \/ pc' = "closed" \/ UNCHANGED vars \/ DbOpen \/ WalReplayRecord \/ WalReplayEnds
        \/ WalAppended \/ WalAppendFails \/ DbSyncIfNeeded \/ ApplyToIndex
        \/ BaseRenamed \/ WalTruncated
        \/ (\E w \in Writes : DbWrite(w[1], w[2])) \/ DbCompact \/ WalSynced
        \/ WriteBlobFile \/ DeleteBlobFile \/ DeleteDone \/ DbCompactFails
        \/ SnapshotWritten \/ DirSynced
        \/ (\E S \in SUBSET Key : DbDeleteWhere(S))
        \/ (\E k \in Key : DeleteSkips(k) \/ DeleteStarts(k) \/ DeleteFails(k))
  BY DEF Next, WalReplayRejects, DbClose, Forget, Kill, PowerLoss
<1>. QED
  BY <1>1, <1>2, <1>3, <1>4, <1>5, <1>6, <1>7, <1>8, <1>9, <1>10, <1>11, <1>12, <1>13,
     <1>14, <1>15, <1>16

-----------------------------------------------------------------------------
\* The inductive invariant holds of every state of the store.
THEOREM Inductive == Spec => []IInv
<1>1. Init => IInv
  BY Initial
<1>2. IInv /\ [Next]_vars => IInv'
  BY TypeStep, LogsStep, CallStep, IndexStep DEF IInv
<1>. QED BY <1>1, <1>2, PTL DEF Spec

\* Every variable of the store keeps its type.
THEOREM TypeCorrect == Spec => []TypeOK
<1>1. IInv => TypeOK
  BY DEF IInv
<1>. QED BY <1>1, Inductive, PTL

\* Whatever steps, faults and crashes come in whatever order, a session
\* serves the map its snapshot and log replay to, and so does the session a
\* killed process is followed by, unless a record lies behind a partial one
\* or the session installed a snapshot that a failing write left incomplete.
THEOREM ServesItsLog == Spec => []IndexIsLog
<1>1. IInv => IndexIsLog
  BY DEF IInv
<1>. QED BY <1>1, Inductive, PTL

-----------------------------------------------------------------------------
\* Why no file goes early where every session syncs each write: by the time a
\* file may go, the record that replaced its own is on disk.
SyncsEach == SyncModes = {TRUE} /\ ~IoFails
FilesIInv ==
  SyncsEach =>
    /\ files = "safe"
    /\ pc # "closed" => syncEach
    /\ pc = "cleanup" => synced = Len(wal)

\* Each step keeps the file bookkeeping.
LEMMA FilesStep == IInv /\ FilesIInv /\ [Next]_vars => FilesIInv'
<1> SUFFICES ASSUME IInv, FilesIInv, [Next]_vars, SyncsEach' PROVE FilesIInv'
  BY DEF FilesIInv
<1>1. SyncsEach /\ SyncModes = {TRUE} /\ ~IoFails
  BY DEF SyncsEach, IoFails
<1>2. /\ files = "safe" /\ (pc # "closed" => syncEach)
      /\ (pc = "cleanup" => synced = Len(wal))
  BY <1>1 DEF FilesIInv
<1>3. synced \in Nat /\ Len(wal) \in Nat
  BY CurrentWellFormed DEF IInv
<1> SUFFICES /\ files' = "safe"
             /\ pc' # "closed" => syncEach'
             /\ pc' = "cleanup" => synced' = Len(wal')
  BY DEF FilesIInv
<1>4. CASE UNCHANGED vars
  BY <1>2, <1>4 DEF vars, disk, logVars, session, call
<1>5. CASE DbOpen
  BY <1>1, <1>2, <1>5 DEF DbOpen, disk
<1>6. CASE WalReplayRecord \/ WalReplayEnds
  BY <1>2, <1>6 DEF WalReplayRecord, WalReplayEnds, Return, disk, session, call
<1>7. CASE WalReplayRejects \/ DbClose \/ Kill \/ PowerLoss
  BY <1>1, <1>2, <1>7 DEF WalReplayRejects, DbClose, Kill, PowerLoss, Forget, SyncWal, disk
<1>8. CASE \E w \in Writes : DbWrite(w[1], w[2])
  BY <1>2, <1>8 DEF DbWrite, disk, session
<1>9. CASE WriteBlobFile \/ WalAppended \/ WalAppendFails \/ ApplyToIndex
  BY <1>1, <1>2, <1>9
  DEF WriteBlobFile, WalAppended, WalAppendFails, ApplyToIndex, disk, session
<1>10. CASE DbSyncIfNeeded
  BY <1>1, <1>2, <1>10 DEF DbSyncIfNeeded, SyncWal, GoOn
<1>11. CASE DeleteBlobFile
  <2>1. ~(synced < Len(wal))
    BY <1>2, <1>3, <1>11 DEF DeleteBlobFile
  <2>2. files' = "safe"
    BY <1>2, <1>11, <2>1 DEF DeleteBlobFile, FilesAfter
  <2>. QED BY <1>2, <1>11, <2>2 DEF DeleteBlobFile, Return, session
<1>12. CASE \/ \E S \in SUBSET Key : DbDeleteWhere(S)
            \/ \E k \in Key : DeleteSkips(k) \/ DeleteStarts(k) \/ DeleteFails(k)
            \/ DeleteDone
  BY <1>2, <1>12
  DEF DbDeleteWhere, DeleteSkips, DeleteStarts, DeleteFails, DeleteDone, Return, disk, session
<1>13. CASE DbCompact \/ DbCompactFails \/ SnapshotWritten \/ BaseRenamed
  BY <1>1, <1>2, <1>13
  DEF DbCompact, DbCompactFails, SnapshotWritten, BaseRenamed, SyncWal, disk, session
<1>14. CASE DirSynced \/ WalTruncated \/ WalSynced
  BY <1>2, <1>14 DEF DirSynced, WalTruncated, WalSynced, SyncWal, Return, session
<1>. QED
  BY <1>4, <1>5, <1>6, <1>7, <1>8, <1>9, <1>10, <1>11, <1>12, <1>13, <1>14 DEF Next

\* Whatever is written, deleted and compacted, and whenever processes are
\* killed or power is lost: with sessions that sync each write, db_write and
\* db_delete_where remove a payload's file only when no log that may survive
\* still names it.
THEOREM FilesGoLast == Spec => []SyncedFilesSafe
<1>1. Init => FilesIInv
  BY DEF Init, FilesIInv
<1>2. IInv /\ FilesIInv /\ [Next]_vars => FilesIInv'
  BY FilesStep
<1>3. FilesIInv => SyncedFilesSafe
  BY DEF FilesIInv, SyncedFilesSafe, SyncsEach
<1>. QED BY <1>1, <1>2, <1>3, Inductive, PTL DEF Spec

-----------------------------------------------------------------------------
(* What a power loss may take from a session *)

\* The records this session wrote that are not known to be on disk.
AtRisk == Len(wal) - Larger(synced, inherited)

\* The inductive invariant behind LossWindow: ops_since_sync covers them at
\* every point of every call, one more being under way between the append
\* and the count.
WindowIInv ==
  /\ pc \in CompactPCs => ops = 0
  /\ pc # "closed" =>
       /\ syncEach => ops = 0
       /\ ~syncEach \/ ~failed => AtRisk <= (IF pc \in {"apply", "sync"} THEN ops + 1 ELSE ops)
       /\ ~failed => ops < SyncEvery

\* A step that changes nothing the window depends on, or moves within it.
LEMMA StillWindow ==
  /\ IInv /\ WindowIInv /\ UNCHANGED <<wal, synced, inherited, ops, syncEach, failed>>
  /\ pc # "closed" /\ pc' \notin CompactPCs
  /\ pc \in {"apply", "sync"} => pc' \in {"apply", "sync"}
  => WindowIInv'
<1>1. IInv => AtRisk \in Int /\ ops \in Nat
  BY CurrentWellFormed DEF AtRisk, Larger, IInv, TypeOK
<1>. QED BY <1>1 DEF WindowIInv, AtRisk, IoFails

\* Each step keeps the window.
LEMMA WindowStep == IInv /\ WindowIInv /\ [Next]_vars => WindowIInv'
<1> SUFFICES ASSUME IInv, WindowIInv, [Next]_vars PROVE WindowIInv'
  OBVIOUS
<1>1. /\ Len(wal) \in Nat /\ synced \in 0..Len(wal) /\ inherited \in Nat /\ ops \in Nat
      /\ wal \in Seq(Rec) /\ SyncEvery \in Nat /\ 0 < SyncEvery /\ CallOK
  BY CurrentWellFormed, ConstantsAssumption DEF IInv, TypeOK
<1> USE DEF AtRisk, Larger
<1>2. CASE UNCHANGED vars
  BY <1>2 DEF vars, disk, logVars, session, call, WindowIInv, IoFails
<1>3. CASE pc' = "closed"
  BY <1>3 DEF WindowIInv, CompactPCs
<1>4. CASE DbOpen
  BY <1>1, <1>4 DEF DbOpen, disk, logVars, WindowIInv, CompactPCs
<1>5. CASE WalReplayRecord \/ WalReplayEnds
  BY <1>5, StillWindow
  DEF WalReplayRecord, WalReplayEnds, Return, disk, logVars, session, call, CompactPCs
<1>6. CASE \E w \in Writes : DbWrite(w[1], w[2])
  BY <1>6, StillWindow DEF DbWrite, disk, logVars, session, CompactPCs
<1>7. CASE WriteBlobFile \/ WalAppendFails
  BY <1>7, StillWindow
  DEF WriteBlobFile, WalAppendFails, Fail, Return, disk, logVars, session, CompactPCs
<1>8. CASE WalAppended
  <2>1. cur \in Rec
    BY <1>1, <1>8 DEF WalAppended, CallOK, RecordPCs
  <2>2. Len(wal') = Len(wal) + 1
    BY <1>1, <1>8, <2>1 DEF WalAppended
  <2>. QED BY <1>1, <1>8, <2>2 DEF WalAppended, WindowIInv, session, CompactPCs, IoFails
<1>9. CASE ApplyToIndex
  BY <1>9, StillWindow DEF ApplyToIndex, disk, logVars, CompactPCs
<1>10. CASE DbSyncIfNeeded
  <2>1. /\ pc = "sync" /\ UNCHANGED <<wal, inherited, syncEach>> /\ pc' \in {"ready", "cleanup"}
        /\ \/ synced' = Len(wal) /\ ops' = 0
           \/ /\ ~syncEach /\ synced' = synced /\ ops' = ops + 1
              /\ failed' \/ (failed' = failed /\ ops + 1 < SyncEvery)
           \/ syncEach /\ failed' /\ ops' = ops
    BY <1>1, <1>10 DEF DbSyncIfNeeded, SyncWal, GoOn, Fail, Return, logVars
  <2>. QED BY <1>1, <2>1 DEF WindowIInv, CompactPCs, IoFails
<1>11. CASE DeleteBlobFile \/ DeleteDone
  BY <1>11, StillWindow
  DEF DeleteBlobFile, DeleteDone, Return, disk, logVars, session, CompactPCs
<1>12. CASE \/ \E S \in SUBSET Key : DbDeleteWhere(S)
            \/ \E k \in Key : DeleteSkips(k) \/ DeleteStarts(k) \/ DeleteFails(k)
  BY <1>12, StillWindow
  DEF DbDeleteWhere, DeleteSkips, DeleteStarts, DeleteFails, Return, disk, logVars, session,
      CompactPCs
<1>13. CASE DbCompact
  <2>1. /\ pc = "ready" /\ UNCHANGED <<wal, inherited, syncEach>> /\ pc' = "snapshot" /\ ops' = 0
        /\ synced' = Len(wal) \/ (ops = 0 /\ synced' = synced /\ failed' = failed)
    BY <1>13 DEF DbCompact, SyncWal, logVars
  <2>. QED BY <1>1, <2>1 DEF WindowIInv, CompactPCs, IoFails
<1>14. CASE DbCompactFails
  BY <1>14, StillWindow DEF DbCompactFails, Return, disk, logVars, session, CompactPCs
<1>15. CASE SnapshotWritten \/ BaseRenamed \/ DirSynced
  BY <1>1, <1>15
  DEF SnapshotWritten, BaseRenamed, DirSynced, disk, logVars, session, CompactPCs, WindowIInv,
      IoFails
<1>16. CASE WalTruncated
  BY <1>1, <1>16 DEF WalTruncated, CompactPCs, WindowIInv, IoFails
<1>17. CASE WalSynced
  BY <1>1, <1>17 DEF WalSynced, SyncWal, Return, session, CompactPCs, WindowIInv, IoFails
<1>. QED
  BY <1>2, <1>3, <1>4, <1>5, <1>6, <1>7, <1>8, <1>9, <1>10, <1>11, <1>12, <1>13,
     <1>14, <1>15, <1>16, <1>17
  DEF Next, WalReplayRejects, DbClose, Forget, Kill, PowerLoss

\* The window holds of every state.
LEMMA WindowAlways == Spec => []WindowIInv
<1>1. Init => WindowIInv
  BY DEF Init, WindowIInv, CompactPCs
<1>2. IInv /\ WindowIInv /\ [Next]_vars => WindowIInv'
  BY WindowStep
<1>. QED BY <1>1, <1>2, Inductive, PTL DEF Spec

\* For every sync_every_n: between calls, a power loss takes no more of the
\* session's operations than ops_since_sync counts, fewer than sync_every_n
\* unless the last fsync failed, and none where each write is synced and the
\* last fsync did not fail.
THEOREM LossIsBounded == Spec => []LossWindow
<1>1. WindowIInv => LossWindow
  BY DEF WindowIInv, LossWindow, AtRisk
<1>. QED BY <1>1, WindowAlways, PTL

\* db_compact renames its snapshot into place only when every record behind
\* it is on disk, if the session found its log on disk and counts.
THEOREM SnapshotsAreOfSyncedLogs == Spec => []SnapshotOverSyncedLog
<1>1. IInv /\ WindowIInv => SnapshotOverSyncedLog
  <2> SUFFICES ASSUME IInv, WindowIInv, pc = "rename", inherited <= synced, ~syncEach
               PROVE  synced = Len(wal)
    BY DEF SnapshotOverSyncedLog
  <2>1. Len(wal) \in Nat /\ synced \in 0..Len(wal) /\ inherited \in Nat
    BY CurrentWellFormed DEF IInv, TypeOK
  <2>2. Len(wal) - Larger(synced, inherited) <= 0
    BY DEF WindowIInv, AtRisk, CompactPCs
  <2>. QED BY <2>1, <2>2 DEF Larger
<1>. QED BY <1>1, WindowAlways, Inductive, PTL
-----------------------------------------------------------------------------
(* Why recovery finds what it must *)

\* An unsynced truncation pends on an empty or unsynced log, and a truncation
\* follows the directory's sync.
TruncateIInv ==
  /\ undo # {} => synced = 0
  /\ pc \in {"truncate", "walsync"} => diskBase = base

\* The snapshot on disk and the one in the page cache give the same map with
\* any part of the log that a power loss may leave.
SameBases ==
  \A n \in synced..Len(wal) :
    Replayed(diskBase, FirstRecs(wal, n)) = Replayed(base, FirstRecs(wal, n))

\* While the promise has not lapsed: no record lies behind a partial one, a
\* compaction past its rename has its log on disk, either snapshot will do,
\* and a log that an unsynced truncation gives back is on disk and in base.
SoundIInv ==
  Promised =>
    /\ \A l \in undo \cup {CurrentLog} : l.tear # NoTear => l.tear = Len(l.wal)
    /\ pc \in {"dirsync", "truncate"} => synced = Len(wal)
    /\ SameBases
    /\ \A l \in undo : l.synced = Len(l.wal) /\ Replayed(base, l.wal) = base /\ diskBase = base

\* What the steps do to the log, the snapshots and the promise.
LEMMA DiskSteps ==
  ASSUME [Next]_vars
  PROVE  \/ /\ UNCHANGED <<logVars, base, diskBase>>
            /\ promise' = promise \/ ~(Promised \/ Promised')
            /\ pc' = pc \/ pc' \notin {"dirsync", "truncate", "walsync"}
         \/ /\ SyncWal /\ UNCHANGED <<base, diskBase, promise>>
            /\ pc' \notin {"dirsync", "truncate", "walsync"}
         \/ WalAppended \/ WalAppendFails \/ BaseRenamed \/ DirSynced \/ WalTruncated
         \/ WalSynced \/ Kill \/ PowerLoss
BY DEF Next, vars, disk, call, DbOpen, WalReplayRecord, WalReplayEnds, WalReplayRejects,
       DbClose, Forget, Return, DbWrite, WriteBlobFile, Fail, ApplyToIndex, DbSyncIfNeeded, GoOn,
       DeleteBlobFile, DbDeleteWhere, DeleteSkips, DeleteStarts, DeleteFails, DeleteDone,
       DbCompact, DbCompactFails, SnapshotWritten, Promised

\* Each step keeps the order of truncation and syncs.
LEMMA TruncateStep == IInv /\ TruncateIInv /\ [Next]_vars => TruncateIInv'
BY DiskSteps
DEF TruncateIInv, logVars, SyncWal, WalAppended, WalAppendFails, Fail, Return, BaseRenamed,
    DirSynced, WalTruncated, WalSynced, Kill, Forget, PowerLoss, session

\* The log is replayed to its end, and the table is what it replays to.
LEMMA Sound ==
  ASSUME IInv, SoundIInv, Promised
  PROVE  /\ ~Buried /\ SameBases /\ (tear # NoTear => tear = Len(wal))
         /\ FirstRecs(wal, Len(wal)) = wal /\ FirstRecs(wal, 0) = <<>>
         /\ pc \notin {"closed", "replay", "apply"} => index = Replayed(base, wal)
<1>1. /\ wal \in Seq(Rec) /\ Len(wal) \in Nat /\ synced \in 0..Len(wal)
      /\ tear # NoTear => tear = Len(wal)
  BY CurrentWellFormed DEF IInv, SoundIInv, CurrentLog
<1>2. ~Buried
  BY <1>1 DEF Buried
<1>. QED BY <1>1, <1>2, WholePrefix DEF SoundIInv, IInv, IndexIsLog, Promised

\* Each step keeps the log recoverable.
LEMMA SoundStep == IInv /\ TruncateIInv /\ SoundIInv /\ [Next]_vars => SoundIInv'
<1> SUFFICES ASSUME IInv, TruncateIInv, SoundIInv, [Next]_vars, Promised'
             PROVE  SoundIInv'
  BY DEF SoundIInv
<1>1. /\ wal \in Seq(Rec) /\ HasLast(wal) /\ Len(wal) \in Nat
      /\ synced \in 0..Len(wal) /\ base \in Map /\ diskBase \in Map /\ index \in Map
  BY CurrentWellFormed DEF IInv, TypeOK
<1>2. CASE UNCHANGED <<logVars, base, diskBase>> /\ Promised
           /\ (pc' = pc \/ pc' \notin {"dirsync", "truncate", "walsync"})
  BY <1>2 DEF SoundIInv, SameBases, CurrentLog, logVars
<1>3. CASE /\ SyncWal /\ UNCHANGED <<base, diskBase, promise>>
           /\ pc' \notin {"dirsync", "truncate", "walsync"}
  <2>1. Promised /\ UNCHANGED <<wal, tear>> /\ synced' = Len(wal) /\ undo' = {}
    BY <1>3 DEF SyncWal, Promised
  <2>2. SameBases'
    BY <1>1, <1>3, <2>1 DEF SoundIInv, SameBases
  <2>3. tear' # NoTear => tear' = Len(wal')
    BY <2>1, Sound
  <2>. QED BY <1>3, <2>1, <2>2, <2>3 DEF SoundIInv, CurrentLog
<1>4. CASE WalAppended
  <2>1. Promised /\ tear = NoTear /\ cur \in Rec
    BY <1>4 DEF WalAppended, IInv, CallOK, RecordPCs, Promised
  <2>2. wal' \in Seq(Rec) /\ Len(wal') = Len(wal) + 1 /\ wal' = Append(wal, cur)
    BY <1>1, <1>4, <2>1 DEF WalAppended
  <2>3. ASSUME NEW n \in synced..Len(wal')
        PROVE  Replayed(diskBase, FirstRecs(wal', n)) = Replayed(base, FirstRecs(wal', n))
    <3>1. CASE n <= Len(wal)
      <4>1. n \in synced..Len(wal) /\ n \in 0..Len(wal)
        BY <1>1, <2>2, <3>1
      <4>2. FirstRecs(wal', n) = FirstRecs(wal, n)
        BY <1>1, <2>1, <2>2, <4>1, PrefixOfAppend
      <4>. QED BY <2>1, <4>1, <4>2 DEF SoundIInv, SameBases
    <3>2. CASE n = Len(wal')
      <4>1. FirstRecs(wal', n) = Append(wal, cur)
        BY <2>2, <3>2, WholePrefix
      <4>2. Replayed(diskBase, wal) = Replayed(base, wal)
        BY <1>1, <2>1, Sound DEF SameBases
      <4>. QED BY <1>1, <2>1, <4>1, <4>2, ReplayedAppend
    <3>. QED BY <1>1, <2>2, <3>1, <3>2
  <2>. QED BY <1>4, <2>1, <2>3 DEF WalAppended, SoundIInv, SameBases, CurrentLog
<1>5. CASE WalAppendFails \/ Kill
  <2>1. /\ Promised /\ UNCHANGED <<wal, synced, undo, base, diskBase>>
        /\ Tears \/ tear' = tear
        /\ pc' \in {"ready", "closed"}
    BY <1>5 DEF WalAppendFails, Fail, Return, Kill, Forget, Promised
  <2>2. tear' # NoTear => tear' = Len(wal)
    BY <2>1, Sound DEF Tears
  <2>. QED BY <2>1, <2>2 DEF SoundIInv, SameBases, CurrentLog
<1>6. CASE BaseRenamed
  <2>1. /\ Promised /\ synced = Len(wal) /\ pc = "rename" /\ UNCHANGED <<logVars, diskBase>>
        /\ base' = index /\ pc' = "dirsync"
    BY <1>6 DEF BaseRenamed, Promised
  <2>2. /\ index = Replayed(base, wal) /\ FirstRecs(wal, Len(wal)) = wal
        /\ Replayed(diskBase, wal) = Replayed(base, wal)
    BY <1>1, <2>1, Sound DEF SameBases
  <2>3. Replayed(index, wal) = index
    BY <2>2, ReplayedIdempotent
  <2>4. undo # {} => base' = base
    <3>1. undo # {} => wal = <<>>
      BY <1>1, <2>1 DEF TruncateIInv
    <3>. QED BY <1>1, <2>1, <2>2, <3>1, ReplayedEmpty
  <2>5. SameBases'
    BY <1>1, <2>1, <2>2, <2>3 DEF SameBases, logVars
  <2>. QED BY <2>1, <2>4, <2>5 DEF SoundIInv, CurrentLog, logVars
<1>7. CASE DirSynced
  BY <1>7 DEF DirSynced, SoundIInv, SameBases, CurrentLog, logVars, Promised
<1>8. CASE WalTruncated
  <2>1. /\ Promised /\ pc = "truncate" /\ synced = Len(wal) /\ diskBase = base
        /\ base = index
    BY <1>8 DEF WalTruncated, SoundIInv, TruncateIInv, IInv, CallOK, Promised
  <2>2. Replayed(base, wal) = base
    BY <2>1, Sound
  <2>3. CurrentLog.synced = Len(CurrentLog.wal) /\ Replayed(base, CurrentLog.wal) = base
    BY <2>1, <2>2 DEF CurrentLog
  <2>. QED BY <1>8, <2>1, <2>3 DEF WalTruncated, SoundIInv, SameBases, CurrentLog, NoTear
<1>9. CASE WalSynced
  BY <1>9 DEF WalSynced, SyncWal, Return, SoundIInv, SameBases, CurrentLog, TruncateIInv, IInv,
              CallOK
<1>10. CASE PowerLoss
  <2>1. PICK was \in undo \cup {CurrentLog} : Survives(was)
    BY <1>10 DEF PowerLoss
  <2>4. PICK n \in was.synced..Len(was.wal) :
          wal' = FirstRecs(was.wal, n) /\ tear' \in TearsOf(was, n) /\ synced' = n
    BY <2>1 DEF Survives
  <2>5. was \in Log /\ HasLast(was.wal) /\ was.wal \in Seq(Rec)
    BY CurrentWellFormed DEF IInv, TypeOK, LogsOK, WellFormed, Log
  <2>6. n \in 0..Len(was.wal) /\ Len(FirstRecs(was.wal, n)) = n
    BY <2>5, PrefixHasLast DEF Log
  <2>7. Promised
    BY <1>10 DEF PowerLoss, Promised
  <2>8. tear' # NoTear => tear' = n
    BY <2>1, <2>4, <2>6, <2>7 DEF SoundIInv, TearsOf
  <2>9. undo' = {} /\ base' = diskBase' /\ pc' = "closed"
    BY <1>10 DEF PowerLoss, Forget
  <2>. QED BY <2>4, <2>6, <2>8, <2>9 DEF SoundIInv, SameBases, CurrentLog
<1>. QED BY <1>2, <1>3, <1>4, <1>5, <1>6, <1>7, <1>8, <1>9, <1>10, DiskSteps DEF Promised

\* What recovery relies on holds of every state.
LEMMA SoundAlways == Spec => [](TruncateIInv /\ SoundIInv)
<1>1. Init => TruncateIInv /\ SoundIInv
  BY DEF Init, TruncateIInv, SoundIInv, SameBases, CurrentLog
<1>2. IInv /\ (TruncateIInv /\ SoundIInv) /\ [Next]_vars => (TruncateIInv /\ SoundIInv)'
  BY TruncateStep, SoundStep
<1>. QED BY <1>1, <1>2, Inductive, PTL DEF Spec
-----------------------------------------------------------------------------
(* The store implements DurableMap *)

\* DurableMap's operators are those of the log.
LEMMA SameOperators ==
  /\ \A m, w : Durable!Replayed(m, w) = Replayed(m, w)
  /\ \A w, n : Durable!FirstRecs(w, n) = FirstRecs(w, n)
  /\ Durable!Map = Map /\ Durable!Rec = Rec /\ Durable!EmptyMap = EmptyMap
BY DEF Durable!Replayed, Replayed, Durable!WritesOf, WritesOf, Durable!LastOf, LastOf,
       Durable!FirstRecs, FirstRecs, Durable!Map, Map, Durable!Rec, Rec, Durable!EmptyMap, EmptyMap

\* What DurableMap's variables stand for.
Stable == Replayed(base, FirstRecs(wal, synced))
Pending == SubSeq(wal, synced + 1, Len(wal))
AbstractTypeOK == Stable \in Map /\ Pending \in Seq(Rec)

\* The abstract variables have DurableMap's types.
LEMMA AbstractType ==
  ASSUME IInv
  PROVE  AbstractTypeOK /\ Len(Pending) = Len(wal) - synced
<1>1. /\ wal \in Seq(Rec) /\ HasLast(wal) /\ Len(wal) \in Nat
      /\ synced \in 0..Len(wal) /\ base \in Map
  BY CurrentWellFormed DEF IInv, TypeOK
<1>2. FirstRecs(wal, synced) \in Seq(Rec) /\ HasLast(FirstRecs(wal, synced))
  BY <1>1, PrefixHasLast
<1>. QED BY <1>1, <1>2, ReplayedType DEF AbstractTypeOK, Stable, Pending

\* A log with nothing at risk.
LEMMA NothingPending ==
  ASSUME NEW w \in Seq(Rec)
  PROVE  SubSeq(w, Len(w) + 1, Len(w)) = <<>>
OBVIOUS

\* An append puts the record at risk.
LEMMA AppendedPending ==
  ASSUME NEW w \in Seq(Rec), NEW r \in Rec, NEW s \in 0..Len(w)
  PROVE  SubSeq(Append(w, r), s + 1, Len(w) + 1) = Append(SubSeq(w, s + 1, Len(w)), r)
<1>1. /\ SubSeq(Append(w, r), s + 1, Len(w) + 1) \in Seq(Rec)
      /\ Len(SubSeq(Append(w, r), s + 1, Len(w) + 1)) = Len(w) + 1 - s
      /\ \A i \in 1..(Len(w) + 1 - s) :
           SubSeq(Append(w, r), s + 1, Len(w) + 1)[i] = Append(w, r)[s + i]
  OBVIOUS
<1>2. PICK v \in Seq(Rec) : /\ v = SubSeq(Append(w, r), s + 1, Len(w) + 1)
                            /\ Len(v) = Len(w) + 1 - s
                            /\ \A i \in 1..(Len(w) + 1 - s) : v[i] = Append(w, r)[s + i]
  BY <1>1
<1>3. PICK x \in Seq(Rec) : /\ x = SubSeq(w, s + 1, Len(w)) /\ Len(x) = Len(w) - s
                            /\ \A i \in 1..(Len(w) - s) : x[i] = w[s + i]
  <2>1. /\ SubSeq(w, s + 1, Len(w)) \in Seq(Rec) /\ Len(SubSeq(w, s + 1, Len(w))) = Len(w) - s
        /\ \A i \in 1..(Len(w) - s) : SubSeq(w, s + 1, Len(w))[i] = w[s + i]
    OBVIOUS
  <2>. QED BY <2>1
<1>4. Append(x, r) \in Seq(Rec) /\ Len(Append(x, r)) = Len(x) + 1
  OBVIOUS
<1>5. Len(v) = Len(x) + 1 /\ Len(x) \in Nat
  BY <1>2, <1>3
<1>6. ASSUME NEW i \in 1..Len(v) PROVE v[i] = Append(x, r)[i]
  <2>1. CASE i = Len(x) + 1
    BY <1>2, <1>3, <1>5, <2>1
  <2>2. CASE i \in 1..Len(x)
    BY <1>2, <1>3, <1>5, <2>2
  <2>. QED BY <1>5, <2>1, <2>2
<1>7. v = Append(x, r)
  BY <1>4, <1>5, <1>6, SeqEqual
<1>. QED BY <1>2, <1>3, <1>7

\* Some of what is at risk, replayed over what is not, is a prefix of the log
\* replayed over the snapshot.
LEMMA PendingPrefix ==
  ASSUME IInv, NEW n \in synced..Len(wal)
  PROVE  /\ n - synced \in 0..Len(Pending)
         /\ Replayed(Stable, FirstRecs(Pending, n - synced)) = Replayed(base, FirstRecs(wal, n))
<1>1. /\ wal \in Seq(Rec) /\ HasLast(wal) /\ Len(wal) \in Nat
      /\ synced \in 0..Len(wal) /\ base \in Map
  BY CurrentWellFormed DEF IInv, TypeOK
<1>2. FirstRecs(Pending, n - synced) = SubSeq(wal, synced + 1, n)
  BY <1>1 DEF FirstRecs, Pending
<1>3. Replayed(Stable, SubSeq(wal, synced + 1, n)) = Replayed(base, FirstRecs(wal, n))
  BY <1>1, ReplayedSplit DEF Stable
<1>4. Len(Pending) = Len(wal) - synced
  BY AbstractType
<1>5. n - synced \in 0..(Len(wal) - synced)
  BY <1>1
<1>. QED BY <1>2, <1>3, <1>4, <1>5

\* A sync of the log is a Flush.
LEMMA SyncIsFlush ==
  ASSUME IInv, SyncWal, UNCHANGED base, Promised, Promised'
  PROVE  Durable!Flush
<1>1. wal \in Seq(Rec) /\ synced \in 0..Len(wal) /\ Len(wal) \in Nat
  BY CurrentWellFormed DEF IInv
<1>2. Len(wal) \in synced..Len(wal) /\ Len(Pending) = Len(wal) - synced /\ Pending \in Seq(Rec)
  BY <1>1, AbstractType DEF AbstractTypeOK
<1>3. FirstRecs(Pending, Len(wal) - synced) = Pending
  BY <1>2, WholePrefix
<1>4. Replayed(base, FirstRecs(wal, Len(wal))) = Replayed(Stable, Pending)
  BY <1>2, <1>3, PendingPrefix
<1>5. Stable' = Replayed(Stable, Pending) /\ Pending' = <<>>
  BY <1>1, <1>4, NothingPending DEF SyncWal, Stable, Pending
<1>. QED BY <1>5, SameOperators DEF Durable!Flush, Stable, Pending, Promised

\* A power loss is a Crash.
LEMMA PowerLossIsCrash ==
  ASSUME IInv, TruncateIInv, SoundIInv, PowerLoss, Promised
  PROVE  Durable!Crash
<1>1. /\ wal \in Seq(Rec) /\ Len(wal) \in Nat /\ synced \in 0..Len(wal)
      /\ base \in Map /\ undo \subseteq Log
  BY CurrentWellFormed DEF IInv, TypeOK
<1>2. PICK was \in undo \cup {CurrentLog} : Survives(was)
  BY DEF PowerLoss
<1>3. PICK n \in was.synced..Len(was.wal) : wal' = FirstRecs(was.wal, n) /\ synced' = n
  BY <1>2 DEF Survives
<1>4. was \in Log /\ HasLast(was.wal) /\ was.wal \in Seq(Rec) /\ was.synced \in Nat
  BY CurrentWellFormed, <1>2 DEF IInv, TypeOK, LogsOK, WellFormed, Log
<1>5. n \in 0..Len(was.wal) /\ n \in Nat
  BY <1>3, <1>4
<1>6. wal' \in Seq(Rec) /\ Len(wal') = n /\ FirstRecs(wal', n) = wal'
  BY <1>3, <1>4, <1>5, PrefixHasLast, WholePrefix
<1>7. Pending' = <<>> /\ Stable' = Replayed(base', FirstRecs(was.wal, n))
  BY <1>3, <1>6, NothingPending DEF Pending, Stable
<1>8. base' \in {base, diskBase} /\ promise' = promise
  BY DEF PowerLoss
<1>9. \E i \in 0..Len(Pending) : Stable' = Replayed(Stable, FirstRecs(Pending, i))
  <2>1. CASE was = CurrentLog
    <3>1. n \in synced..Len(wal) /\ was.wal = wal
      BY <1>3, <2>1 DEF CurrentLog
    <3>2. Stable' = Replayed(base, FirstRecs(wal, n))
      BY <1>7, <1>8, <3>1, Sound DEF SameBases
    <3>. QED BY <3>1, <3>2, PendingPrefix
  <2>2. CASE was \in undo
    <3>1. /\ was.synced = Len(was.wal) /\ Replayed(base, was.wal) = base /\ diskBase = base
          /\ synced = 0
      BY <2>2 DEF SoundIInv, TruncateIInv
    <3>2. n = Len(was.wal) /\ FirstRecs(was.wal, n) = was.wal
      BY <1>3, <1>4, <3>1, WholePrefix
    <3>3. Stable' = base /\ 0 \in synced..Len(wal)
      BY <1>1, <1>7, <1>8, <3>1, <3>2
    <3>4. Replayed(Stable, FirstRecs(Pending, 0 - synced)) = Replayed(base, FirstRecs(wal, 0))
          /\ 0 - synced \in 0..Len(Pending)
      BY <3>3, PendingPrefix
    <3>5. Replayed(base, FirstRecs(wal, 0)) = base
      BY <1>1, WholePrefix, ReplayedEmpty
    <3>. QED BY <3>3, <3>4, <3>5
  <2>. QED BY <1>2, <2>1, <2>2
<1>. QED BY <1>7, <1>8, <1>9, SameOperators DEF Durable!Crash, Stable, Pending, Promised

\* Each step is a step of DurableMap or changes none of its variables.
LEMMA DurableStep ==
  IInv /\ TruncateIInv /\ SoundIInv /\ [Next]_vars /\ AbstractTypeOK' => [Durable!Next]_Durable!vars
<1> SUFFICES ASSUME IInv, TruncateIInv, SoundIInv, [Next]_vars,
                    AbstractTypeOK'
             PROVE  [Durable!Next]_Durable!vars
  OBVIOUS
<1>1. /\ wal \in Seq(Rec) /\ HasLast(wal) /\ Len(wal) \in Nat /\ synced \in 0..Len(wal)
      /\ base \in Map /\ index \in Map
  BY CurrentWellFormed DEF IInv, TypeOK
<1>2. CASE UNCHANGED <<Stable, Pending>> /\ (Promised <=> Promised')
  BY <1>2 DEF Durable!vars, Stable, Pending
<1>3. CASE ~Promised \/ ~Promised'
  <2>1. Promised' \in BOOLEAN
    BY DEF Promised
  <2>2. (Promised => ~Promised') /\ Stable' \in Durable!Map /\ Pending' \in Seq(Durable!Rec)
    BY <1>3, SameOperators DEF AbstractTypeOK
  <2>3. Durable!Lapse
    BY <2>1, <2>2 DEF Durable!Lapse, Stable, Pending
  <2>. QED BY <2>3 DEF Durable!Next
<1>4. CASE Promised /\ Promised'
  <2>1. CASE UNCHANGED <<logVars, base, diskBase>>
    BY <1>2, <1>4, <2>1 DEF logVars, Stable, Pending
  <2>2. CASE SyncWal /\ UNCHANGED base
    BY <1>4, <2>2, SyncIsFlush DEF Durable!Next
  <2>3. CASE WalAppended
    <3>1. /\ cur \in Rec /\ wal' = Append(wal, cur)
          /\ UNCHANGED <<synced, base>>
      BY <2>3 DEF WalAppended, IInv, CallOK, RecordPCs
    <3>2. Stable' = Stable
      BY <1>1, <3>1, PrefixOfAppend DEF Stable
    <3>3. Pending' = Append(Pending, cur)
      <4>1. Len(wal') = Len(wal) + 1
        BY <1>1, <3>1
      <4>. QED BY <1>1, <3>1, <4>1, AppendedPending DEF Pending
    <3>. QED BY <1>4, <3>1, <3>2, <3>3, SameOperators
             DEF Durable!Next, Durable!Operate, Stable, Pending
  <2>4. CASE WalAppendFails \/ DirSynced \/ Kill
    BY <1>2, <1>4, <2>4 DEF WalAppendFails, DirSynced, Kill, logVars, Stable, Pending
  <2>5. CASE BaseRenamed
    <3>1. synced = Len(wal) /\ pc = "rename" /\ UNCHANGED logVars /\ base' = index
      BY <1>4, <2>5 DEF BaseRenamed, Promised
    <3>2. index = Replayed(base, wal) /\ FirstRecs(wal, Len(wal)) = wal
      BY <1>4, <3>1, Sound
    <3>3. Replayed(index, wal) = index
      BY <3>2, ReplayedIdempotent
    <3>. QED BY <1>2, <1>4, <3>1, <3>2, <3>3 DEF logVars, Stable, Pending
  <2>6. CASE WalTruncated
    <3>1. /\ synced = Len(wal) /\ pc = "truncate" /\ base = index
          /\ wal' = <<>> /\ synced' = 0 /\ base' = base
      BY <1>4, <2>6 DEF WalTruncated, SoundIInv, IInv, CallOK, Promised
    <3>2. Stable = base
      BY <1>4, <3>1, Sound DEF Stable
    <3>3. FirstRecs(wal', synced') = <<>>
      BY <3>1, WholePrefix, Len(<<>>) = 0, <<>> \in Seq(Rec)
    <3>4. Stable' = base
      BY <1>1, <3>1, <3>3, ReplayedEmpty DEF Stable
    <3>5. Pending = <<>> /\ Pending' = <<>>
      BY <1>1, <3>1, NothingPending DEF Pending
    <3>. QED BY <1>2, <1>4, <3>2, <3>4, <3>5
  <2>7. CASE WalSynced
    <3>. QED BY <1>4, <2>7, SyncIsFlush DEF WalSynced, Durable!Next
  <2>8. CASE PowerLoss
    BY <1>4, <2>8, PowerLossIsCrash DEF Durable!Next
  <2>. QED BY <2>1, <2>2, <2>3, <2>4, <2>5, <2>6, <2>7, <2>8, DiskSteps
<1>. QED BY <1>3, <1>4

\* The store of db.c implements DurableMap: whatever calls, crashes and
\* failing system calls come in whatever order, recovery yields the synced
\* operations and a prefix of the others, in order, as long as nothing was
\* appended behind a partial record and no compaction installed a snapshot
\* over records that were not on disk, or one that a failing write had left
\* incomplete.
THEOREM ImplementsDurableMap == Spec => Recovers
<1>1. Init => Durable!Init
  <2> SUFFICES ASSUME Init PROVE Durable!Init
    OBVIOUS
  <2>1. wal = <<>> /\ synced = 0 /\ base = EmptyMap /\ promise = "kept"
    BY DEF Init
  <2>2. EmptyMap \in Map
    BY DEF EmptyMap, Map
  <2>3. <<>> \in Seq(Rec) /\ FirstRecs(<<>>, 0) = <<>> /\ SubSeq(<<>>, 0 + 1, Len(<<>>)) = <<>>
    BY WholePrefix DEF FirstRecs
  <2>. QED BY <2>1, <2>2, <2>3, ReplayedEmpty, SameOperators DEF Durable!Init, Promised
<1>2. IInv => AbstractTypeOK
  BY AbstractType
<1>3. IInv /\ (TruncateIInv /\ SoundIInv) /\ [Next]_vars /\ AbstractTypeOK'
      => [Durable!Next]_Durable!vars
  BY DurableStep
<1>. QED BY <1>1, <1>2, <1>3, Inductive, SoundAlways, PTL DEF Spec, Recovers, Durable!Spec
-----------------------------------------------------------------------------
(* Why records keep their files *)

\* Every file that map m needs is among B.
HasFiles(m, B) == \A k \in Key : m[k] \in BlobVal => <<k, m[k]>> \in B

\* The map the log replays to has its files unless one is lost, and so has
\* every map a power loss may leave as long as none went ahead of the log.
BlobLogs ==
  promise = "kept" =>
    /\ files = "safe" => \A n \in synced..Len(wal) : HasFiles(Replayed(base, FirstRecs(wal, n)), blobs)
    /\ files # "lost" => HasFiles(Replayed(base, wal), blobs)

\* The file of a record is there before the record is, and the record is in
\* the table before a file goes.
BlobCall ==
  /\ pc = "append" /\ cur.val \in BlobVal => <<cur.key, cur.val>> \in blobs
  /\ pc = "apply" /\ promise = "kept" /\ files # "lost" => HasFiles(index, blobs)
  /\ pc \in {"sync", "cleanup"} => index[cur.key] = cur.val

\* A map keeps its files when one goes that it does not name.
LEMMA FewerFiles ==
  ASSUME NEW m, NEW B, HasFiles(m, B), NEW k, NEW v, m[k] # v
  PROVE  HasFiles(m, B \ {<<k, v>>})
BY DEF HasFiles

\* A record with its file brings none that is missing.
LEMMA AppliedFiles ==
  ASSUME NEW m \in Map, NEW B, HasFiles(m, B), NEW r \in Rec,
         r.val \in BlobVal => <<r.key, r.val>> \in B
  PROVE  HasFiles(Applied(m, r), B)
BY DEF HasFiles, Applied, Map, Rec

\* A file that the table does not name goes, and `files' says whether early.
LEMMA FileGoes ==
  ASSUME IInv, SoundIInv, BlobLogs, NEW k, NEW v, index[k] # v,
         blobs' \in {blobs, blobs \ {<<k, v>>}}, files' = FilesAfter(blobs'),
         pc \notin {"closed", "replay", "apply"}, UNCHANGED <<wal, synced, base, promise>>
  PROVE  BlobLogs'
<1> SUFFICES ASSUME promise = "kept", files # "lost"
             PROVE  BlobLogs'
  BY DEF BlobLogs, FilesAfter
<1>1. Len(wal) \in Nat /\ synced \in 0..Len(wal)
  BY CurrentWellFormed DEF IInv
<1>2. index = Replayed(base, wal) /\ FirstRecs(wal, Len(wal)) = wal
  BY Sound DEF Promised
<1>3. HasFiles(index, blobs)
  BY <1>2 DEF BlobLogs
<1>4. HasFiles(index, blobs')
  BY <1>3, FewerFiles
<1>5. CASE blobs' = blobs
  BY <1>5 DEF BlobLogs, FilesAfter
<1>6. CASE blobs' # blobs
  <2>1. files' = "safe" => synced = Len(wal)
    BY <1>1, <1>6 DEF FilesAfter
  <2>. QED BY <1>1, <1>2, <1>4, <2>1 DEF BlobLogs
<1>. QED BY <1>5, <1>6

\* So it is with the file of the record of a call that fails.
LEMMA FailedFileGoes ==
  ASSUME IInv, SoundIInv, BlobLogs, Fail, pc \in {"blob", "append", "sync"},
         UNCHANGED <<wal, synced, base, promise>>
  PROVE  BlobLogs'
<1>1. cur \in Rec /\ blobs \subseteq BlobId
  BY DEF IInv, TypeOK, CallOK, RecordPCs
<1>2. CASE cur.val \in BlobVal /\ index[cur.key] = cur.val
  BY <1>2 DEF Fail, BlobLogs
<1>3. CASE index[cur.key] # cur.val
  BY <1>3, FileGoes DEF Fail
<1>4. CASE cur.val \notin BlobVal
  <2>1. <<cur.key, cur.val>> \notin blobs
    BY <1>1, <1>4 DEF BlobId
  <2>2. blobs' = blobs /\ files' = files
    BY <1>4, <2>1 DEF Fail, FilesAfter
  <2>. QED BY <2>2 DEF BlobLogs
<1>. QED BY <1>2, <1>3, <1>4

\* Each step leaves the running call with what BlobLogs needs of it.
LEMMA BlobCallStep == IInv /\ SoundIInv /\ BlobLogs /\ BlobCall /\ [Next]_vars => BlobCall'
<1> SUFFICES ASSUME IInv, SoundIInv, BlobLogs, BlobCall, [Next]_vars PROVE BlobCall'
  OBVIOUS
<1>1. TypeOK /\ CallOK
  BY DEF IInv
<1>2. CASE UNCHANGED vars
  BY <1>2 DEF vars, disk, session, call, BlobCall
<1>3. CASE pc' \notin {"append", "apply", "sync", "cleanup"}
  BY <1>3 DEF BlobCall
<1>4. CASE \E w \in Writes : DbWrite(w[1], w[2])
  BY <1>4 DEF DbWrite, BlobCall
<1>5. CASE WriteBlobFile
  BY <1>5 DEF WriteBlobFile, Fail, Return, BlobCall
<1>6. CASE WalAppended
  <2>1. promise' = "kept" => promise = "kept"
    BY <1>6 DEF WalAppended
  <2>2. promise = "kept" => index = Replayed(base, wal)
    BY <1>6, Sound DEF WalAppended, Promised
  <2>. QED BY <1>6, <2>1, <2>2 DEF WalAppended, session, BlobCall, BlobLogs
<1>7. CASE ApplyToIndex
  <2>1. cur \in Rec /\ index \in Map
    BY <1>1, <1>7 DEF ApplyToIndex, CallOK, TypeOK, RecordPCs
  <2>2. index'[cur.key] = cur.val
    BY <1>7, <2>1 DEF ApplyToIndex, Applied, Map, Rec
  <2>. QED BY <1>7, <2>2 DEF ApplyToIndex, BlobCall
<1>8. CASE DbSyncIfNeeded
  BY <1>8 DEF DbSyncIfNeeded, GoOn, Fail, Return, BlobCall
<1>9. CASE \E k \in Key : DeleteStarts(k)
  BY <1>9, NoneAssumption, ConstantsAssumption DEF DeleteStarts, BlobCall
<1>10. CASE \E k \in Key : DeleteSkips(k)
  BY <1>10 DEF DeleteSkips, BlobCall
<1>11. [Next]_vars =>
         \/ UNCHANGED vars \/ pc' \notin {"append", "apply", "sync", "cleanup"}
         \/ (\E w \in Writes : DbWrite(w[1], w[2])) \/ WriteBlobFile \/ WalAppended
         \/ ApplyToIndex \/ DbSyncIfNeeded
         \/ (\E k \in Key : DeleteStarts(k)) \/ \E k \in Key : DeleteSkips(k)
  BY DEF Next, DbOpen, WalReplayRecord, WalReplayEnds, WalReplayRejects, DbClose, Forget,
         call, WalAppendFails, Fail, Return, DeleteBlobFile, DbDeleteWhere, DeleteFails,
         DeleteDone, DbCompact, DbCompactFails, SnapshotWritten, BaseRenamed, DirSynced,
         WalTruncated, WalSynced, Kill, PowerLoss
<1>. QED BY <1>2, <1>3, <1>4, <1>5, <1>6, <1>7, <1>8, <1>9, <1>10, <1>11

\* Each step leaves the maps that the log may replay to with their files.
LEMMA BlobLogsStep ==
  IInv /\ TruncateIInv /\ SoundIInv /\ BlobLogs /\ BlobCall /\ [Next]_vars => BlobLogs'
<1> SUFFICES ASSUME IInv, TruncateIInv, SoundIInv, BlobLogs, BlobCall, [Next]_vars,
                    promise' = "kept"
             PROVE  BlobLogs'
  BY DEF BlobLogs
<1>1. /\ wal \in Seq(Rec) /\ HasLast(wal) /\ Len(wal) \in Nat /\ synced \in 0..Len(wal)
      /\ base \in Map /\ FirstRecs(wal, Len(wal)) = wal /\ FirstRecs(wal, 0) = <<>>
  BY CurrentWellFormed, WholePrefix DEF IInv, TypeOK
<1>2. CASE UNCHANGED <<wal, synced, base, blobs, files, promise>>
  BY <1>2 DEF BlobLogs
<1>3. CASE SyncWal /\ UNCHANGED <<base, blobs>> /\ promise = "kept"
  BY <1>1, <1>3 DEF SyncWal, BlobLogs
<1>4. CASE WriteBlobFile
  <2>1. CASE Fail
    BY <1>4, <2>1, FailedFileGoes DEF WriteBlobFile, logVars
  <2>2. CASE ~Fail
    BY <1>4, <2>2 DEF WriteBlobFile, logVars, BlobLogs, HasFiles
  <2>. QED BY <2>1, <2>2
<1>5. CASE WalAppendFails
  BY <1>5, FailedFileGoes DEF WalAppendFails
<1>6. CASE DbSyncIfNeeded
  <2>1. \/ SyncWal /\ UNCHANGED <<base, blobs, promise>>
        \/ UNCHANGED <<wal, synced, base, blobs, files, promise>>
        \/ UNCHANGED <<wal, synced, base, promise>> /\ pc = "sync" /\ Fail
    BY <1>6 DEF DbSyncIfNeeded, GoOn, logVars
  <2>. QED BY <1>2, <1>3, <2>1, FailedFileGoes
<1>7. CASE DeleteBlobFile
  <2>1. CASE blobs' = blobs
    <3>1. files' = files
      BY <1>7, <2>1 DEF DeleteBlobFile, FilesAfter
    <3>. QED BY <1>2, <1>7, <2>1, <3>1 DEF DeleteBlobFile, logVars
  <2>2. CASE blobs' # blobs
    <3>1. /\ index[cur.key] # old /\ blobs' = blobs \ {<<cur.key, old>>}
          /\ files' = FilesAfter(blobs') /\ pc = "cleanup"
          /\ UNCHANGED <<wal, synced, base, promise>>
      BY <1>7, <2>2 DEF DeleteBlobFile, BlobCall, logVars
    <3>. QED BY <3>1, FileGoes
  <2>. QED BY <2>1, <2>2
<1>8. CASE WalAppended
  <2>1. /\ promise = "kept" /\ cur \in Rec /\ wal' = Append(wal, cur)
        /\ UNCHANGED <<synced, base, blobs, files>>
    BY <1>8 DEF WalAppended, IInv, CallOK, RecordPCs
  <2>2. wal' \in Seq(Rec) /\ Len(wal') = Len(wal) + 1
    BY <1>1, <2>1
  <2>3. FirstRecs(wal', Len(wal')) = wal'
    BY <2>2, WholePrefix
  <2>4. files # "lost" => HasFiles(Replayed(base, wal'), blobs)
    <3>1. Replayed(base, wal') = Applied(Replayed(base, wal), cur) /\ Replayed(base, wal) \in Map
      BY <1>1, <2>1, ReplayedAppend, ReplayedType
    <3>2. cur.val \in BlobVal => <<cur.key, cur.val>> \in blobs
      BY <1>8 DEF WalAppended, BlobCall
    <3>. QED BY <2>1, <3>1, <3>2, AppliedFiles DEF BlobLogs
  <2>5. ASSUME files = "safe", NEW n \in synced..Len(wal')
        PROVE  HasFiles(Replayed(base, FirstRecs(wal', n)), blobs)
    <3>1. CASE n <= Len(wal)
      <4>1. n \in synced..Len(wal) /\ n \in 0..Len(wal)
        BY <1>1, <2>2, <3>1
      <4>2. FirstRecs(wal', n) = FirstRecs(wal, n)
        BY <1>1, <2>1, <4>1, PrefixOfAppend
      <4>. QED BY <2>1, <2>5, <4>1, <4>2 DEF BlobLogs
    <3>2. CASE n = Len(wal')
      BY <2>3, <2>4, <2>5, <3>2
    <3>. QED BY <1>1, <2>2, <3>1, <3>2
  <2>. QED BY <2>1, <2>4, <2>5 DEF BlobLogs
<1>9. CASE BaseRenamed
  <2>1. /\ promise = "kept" /\ synced = Len(wal) /\ pc = "rename" /\ base' = index
        /\ UNCHANGED <<wal, synced, blobs, files>>
    BY <1>9 DEF BaseRenamed, logVars
  <2>2. index = Replayed(base, wal)
    BY <2>1, Sound DEF Promised
  <2>3. Replayed(index, wal) = index
    BY <2>2, ReplayedIdempotent
  <2>. QED BY <1>1, <2>1, <2>2, <2>3 DEF BlobLogs
<1>10. CASE WalTruncated
  <2>1. /\ promise = "kept" /\ pc = "truncate" /\ base = index /\ wal' = <<>> /\ synced' = 0
        /\ UNCHANGED <<base, blobs, files>>
    BY <1>10 DEF WalTruncated, IInv, CallOK
  <2>2. Replayed(base, wal) = base /\ Replayed(base, <<>>) = base
    BY <1>1, <2>1, Sound, ReplayedEmpty DEF Promised
  <2>3. \A n \in 0..Len(<<>>) : FirstRecs(<<>>, n) = <<>>
    BY DEF FirstRecs
  <2>. QED BY <2>1, <2>2, <2>3 DEF BlobLogs
<1>11. CASE PowerLoss
  <2> SUFFICES ASSUME files' # "lost" PROVE BlobLogs'
    BY DEF BlobLogs
  <2>1. promise = "kept" /\ files = "safe" /\ blobs' = blobs /\ base' \in {base, diskBase}
    BY <1>11 DEF PowerLoss, IInv, TypeOK
  <2>2. PICK was \in undo \cup {CurrentLog} : Survives(was)
    BY <1>11 DEF PowerLoss
  <2>3. PICK n \in was.synced..Len(was.wal) : wal' = FirstRecs(was.wal, n) /\ synced' = n
    BY <2>2 DEF Survives
  <2>4. was \in Log /\ HasLast(was.wal) /\ was.wal \in Seq(Rec) /\ was.synced \in Nat
    BY CurrentWellFormed, <2>2 DEF IInv, TypeOK, LogsOK, WellFormed, Log
  <2>5. n \in 0..Len(was.wal) /\ n \in Nat
    BY <2>3, <2>4
  <2>6. wal' \in Seq(Rec) /\ Len(wal') = n /\ FirstRecs(wal', n) = wal'
    BY <2>3, <2>4, <2>5, PrefixHasLast, WholePrefix
  <2>7. HasFiles(Replayed(base', FirstRecs(was.wal, n)), blobs)
    <3>1. CASE was = CurrentLog
      <4>1. n \in synced..Len(wal) /\ was.wal = wal
        BY <2>3, <3>1 DEF CurrentLog
      <4>2. Replayed(base', FirstRecs(wal, n)) = Replayed(base, FirstRecs(wal, n))
        BY <2>1, <4>1, Sound DEF SameBases, Promised
      <4>. QED BY <2>1, <4>1, <4>2 DEF BlobLogs
    <3>2. CASE was \in undo
      <4>1. /\ was.synced = Len(was.wal) /\ Replayed(base, was.wal) = base /\ diskBase = base
            /\ synced = 0
        BY <2>1, <3>2 DEF SoundIInv, TruncateIInv, Promised
      <4>2. n = Len(was.wal) /\ FirstRecs(was.wal, n) = was.wal
        BY <2>3, <2>4, <4>1, WholePrefix
      <4>3. 0 \in synced..Len(wal) /\ Replayed(base, FirstRecs(wal, 0)) = base
        BY <1>1, <4>1, ReplayedEmpty
      <4>. QED BY <2>1, <4>1, <4>2, <4>3 DEF BlobLogs
    <3>. QED BY <2>2, <3>1, <3>2
  <2>. QED BY <2>1, <2>3, <2>6, <2>7 DEF BlobLogs
<1>12. [Next]_vars =>
         \/ UNCHANGED <<wal, synced, base, blobs, files, promise>>
         \/ SyncWal /\ UNCHANGED <<base, blobs>> /\ promise = "kept"
         \/ WriteBlobFile \/ WalAppendFails \/ DbSyncIfNeeded \/ DeleteBlobFile
         \/ WalAppended \/ BaseRenamed \/ WalTruncated \/ PowerLoss
  BY DEF Next, vars, disk, logVars, DbOpen, WalReplayRecord, WalReplayEnds, WalReplayRejects,
         DbClose, DbWrite, ApplyToIndex, DbDeleteWhere, DeleteSkips, DeleteStarts, DeleteFails,
         DeleteDone, DbCompact, DbCompactFails, SnapshotWritten, DirSynced, WalSynced, Kill
<1>. QED BY <1>2, <1>3, <1>4, <1>5, <1>6, <1>7, <1>8, <1>9, <1>10, <1>11, <1>12

\* Both hold of every state.
LEMMA BlobsAlways == Spec => [](BlobLogs /\ BlobCall)
<1>1. Init => BlobLogs /\ BlobCall
  <2> SUFFICES ASSUME Init PROVE BlobLogs /\ BlobCall
    OBVIOUS
  <2>1. wal = <<>> /\ synced = 0 /\ base = EmptyMap /\ pc = "closed"
    BY DEF Init
  <2>2. \A n \in 0..Len(<<>>) : FirstRecs(<<>>, n) = <<>>
    BY DEF FirstRecs
  <2>3. Replayed(EmptyMap, <<>>) = EmptyMap /\ HasFiles(EmptyMap, blobs)
    BY ReplayedEmpty, NoneAssumption, ConstantsAssumption DEF EmptyMap, Map, HasFiles
  <2>. QED BY <2>1, <2>2, <2>3 DEF BlobLogs, BlobCall
<1>2. IInv /\ (TruncateIInv /\ SoundIInv) /\ (BlobLogs /\ BlobCall) /\ [Next]_vars
      => (BlobLogs /\ BlobCall)'
  BY BlobLogsStep, BlobCallStep
<1>. QED BY <1>1, <1>2, Inductive, SoundAlways, PTL DEF Spec

\* Every record that a session serves has its payload's file, until a write
\* fails whose record is served or power is lost after a file went early.
THEOREM ServedRecordsHaveFiles == Spec => []LiveBlobs
<1>1. IInv /\ (TruncateIInv /\ SoundIInv) /\ (BlobLogs /\ BlobCall) => LiveBlobs
  <2> SUFFICES ASSUME IInv, SoundIInv, BlobLogs, BlobCall, promise = "kept", files # "lost",
                      pc \notin {"closed", "replay"}
               PROVE  NoDangling(index)
    BY DEF LiveBlobs
  <2>1. pc # "apply" => index = Replayed(base, wal)
    BY Sound DEF Promised
  <2>. QED BY <2>1 DEF BlobLogs, BlobCall, HasFiles, NoDangling
<1>. QED BY <1>1, Inductive, SoundAlways, BlobsAlways, PTL

\* Every map that a power loss may leave has its files, from either snapshot
\* and with any part of the log behind the synced records, as long as no file
\* went ahead of the log.
THEOREM RecoveredRecordsHaveFiles == Spec => []RecoverableBlobs
<1>1. IInv /\ (TruncateIInv /\ SoundIInv) /\ (BlobLogs /\ BlobCall) => RecoverableBlobs
  BY DEF SoundIInv, SameBases, BlobLogs, HasFiles, NoDangling, RecoverableBlobs, Promised
<1>. QED BY <1>1, Inductive, SoundAlways, BlobsAlways, PTL
=============================================================================
