------------------------------ MODULE MicroDB ------------------------------
(***************************************************************************)
(* The storage engine of microdb (db.c with wal.c, mmap.c and the page     *)
(* file behind db_write_snapshot): a session opens the store, replays the  *)
(* write-ahead log over the base snapshot, writes, deletes and compacts,   *)
(* and closes; a system call may fail, the process may be killed and the   *)
(* machine may lose power between any two steps.                           *)
(*                                                                         *)
(* One action is the code between two points at which the disk changes or  *)
(* a call can fail.  Keys and values are opaque; a value in BlobVal is one *)
(* that record_encode stores outside the record.  The secondary indexes    *)
(* are rebuilt from `index' at every open and are the subject of           *)
(* SecondaryIndex; the open-addressed table behind `index' is the subject  *)
(* of HashTable.                                                           *)
(***************************************************************************)
EXTENDS WalRecords, FiniteSets

CONSTANTS
  BlobVal,    \* the payloads kept in a file of their own
  Writes,     \* the records clients write, as <<key, payload>>
  SyncModes,  \* the sync_each_write arguments sessions open with
  SyncEvery,  \* sync_every_n of a session without it (5 in db_open)
  MaxLog,     \* bound on the records of one log
  MaxUndo,    \* bound on the truncations pending when a compaction starts
  Faults      \* which faults happen: "kill", "power", "io"

ASSUME ConstantsAssumption ==
  /\ BlobVal \subseteq Val
  /\ Writes \subseteq Key \X Val
  /\ SyncModes \subseteq BOOLEAN
  /\ SyncEvery \in Nat \ {0}
  /\ MaxLog \in Nat /\ MaxUndo \in Nat \ {0}
  /\ Faults \subseteq {"kill", "power", "io"}

BlobId == Key \X BlobVal   \* db_hex_id is a function of key, metadata and payload
NoTear == -1
Log == [wal : Seq(Rec), tear : Nat \cup {NoTear}, piled : BOOLEAN, synced : Nat]

\* Where a call stands: between calls, and in open, write or delete, compact.
OpenPCs == {"closed", "replay", "ready"}
RecordPCs == {"blob", "append", "apply", "sync", "cleanup"}
CompactPCs == {"snapshot", "rename", "dirsync", "truncate", "walsync"}
PCs == OpenPCs \cup RecordPCs \cup {"pick"} \cup CompactPCs

VARIABLES
  wal,       \* complete records of data.wal, as any process reads them
  tear,      \* complete records before the first partial one, or NoTear
  piled,     \* the partial record at the end of the log is more than one
  synced,    \* records of wal known to survive a power loss
  undo,      \* the logs an unsynced truncation may give back
  base,      \* the snapshot in base.db, as any process reads it
  diskBase,  \* the snapshot the directory entry survives a power loss with
  blobs,     \* ids of the files in blobs/
  files,     \* "safe", or how files went that records still need: see FilesAfter
  index,     \* the primary hash table of the session
  syncEach,  \* sync_each_write of the session
  ops,       \* ops_since_sync
  failed,    \* the last fsync of the session failed
  pos,       \* records replayed so far
  inherited, \* records of wal that earlier sessions wrote
  pc,        \* where the running call stands
  cur,       \* the record being written, or None
  old,       \* what index held for cur.key before cur was applied
  todo,      \* keys db_delete_where has still to visit
  promise    \* "kept"; "lapsed" by WalAppended or BaseRenamed; "holed": the session
             \* serves entries base lacks; "renewed" by WalSynced

logVars == <<wal, tear, piled, synced, undo>>
disk == <<logVars, base, diskBase, blobs, files>>
session == <<index, syncEach, ops, failed, pos, inherited>>
call == <<pc, cur, old, todo>>
vars == <<disk, session, call, promise>>

-----------------------------------------------------------------------------
\* How many records wal_replay reaches before it meets a partial one.
Reach == IF tear = NoTear THEN Len(wal) ELSE tear

\* A complete record lies behind a partial one: db_open seeks to the end of
\* the file, not to the end of what it replayed.
Buried == tear # NoTear /\ tear < Len(wal)

CurrentLog == [wal |-> wal, tear |-> tear, piled |-> piled, synced |-> synced]

IoFails == "io" \in Faults

\* Every record written so far reaches the disk (fsync, fdatasync).
SyncWal ==
  /\ synced' = Len(wal) /\ undo' = {} /\ UNCHANGED <<wal, tear, piled>>
  /\ files' = IF files = "exposed" THEN "safe" ELSE files

\* A file that goes while the log is not on disk may be one that a power loss
\* brings a record back for.
FilesAfter(left) ==
  IF files = "safe" /\ left # blobs /\ synced < Len(wal) THEN "exposed" ELSE files

\* The running call returns to its caller.
Return == pc' = "ready" /\ cur' = None /\ old' = None /\ todo' = {}

\* The session is over and its memory with it.
Forget ==
  /\ index' = EmptyMap /\ syncEach' = FALSE /\ ops' = 0 /\ failed' = FALSE
  /\ pos' = 0 /\ inherited' = 0
  /\ pc' = "closed" /\ cur' = None /\ old' = None /\ todo' = {}

Init ==
  /\ wal = <<>> /\ tear = NoTear /\ piled = FALSE /\ synced = 0 /\ undo = {}
  /\ base = EmptyMap /\ diskBase = EmptyMap /\ blobs = {} /\ files = "safe"
  /\ index = EmptyMap /\ syncEach = FALSE /\ ops = 0 /\ failed = FALSE
  /\ pos = 0 /\ inherited = 0
  /\ pc = "closed" /\ cur = None /\ old = None /\ todo = {}
  /\ promise = "kept"

-----------------------------------------------------------------------------
(* db_open and db_close *)

\* Mutant of DbOpen: the snapshot is not loaded.
DbOpenWithoutBase ==
  /\ pc = "closed"
  /\ index' = EmptyMap /\ ops' = 0 /\ failed' = FALSE /\ pos' = 0 /\ inherited' = Len(wal)
  /\ syncEach' \in SyncModes
  /\ promise' = IF promise = "holed" THEN "lapsed" ELSE promise
  /\ pc' = "replay"
  /\ UNCHANGED <<disk, cur, old, todo>>

\* What base has lost is gone from here on: the session no longer serves it.
DbOpen ==
  /\ pc = "closed"
  /\ index' = base /\ ops' = 0 /\ failed' = FALSE /\ pos' = 0 /\ inherited' = Len(wal)
  /\ syncEach' \in SyncModes
  /\ promise' = IF promise = "holed" THEN "lapsed" ELSE promise
  /\ pc' = "replay"
  /\ UNCHANGED <<disk, cur, old, todo>>

WalReplayRecord ==
  /\ pc = "replay" /\ pos < Reach
  /\ index' = Applied(index, wal[pos + 1])
  /\ pos' = pos + 1
  /\ UNCHANGED <<disk, syncEach, ops, failed, inherited, call, promise>>

\* The end of the file, or the bytes of a partial record with too little
\* behind them: wal_replay returns 0 and db_open seeks to the end.
WalReplayEnds ==
  /\ pc = "replay" /\ pos = Reach
  /\ Return
  /\ UNCHANGED <<disk, session, promise>>

\* A partial record and the bytes behind it, those of a whole record or of
\* another partial one, parse as one record with a bad magic, operation or
\* checksum: db_open returns -8.
WalReplayRejects ==
  /\ pc = "replay" /\ pos = Reach /\ (Buried \/ piled)
  /\ Forget
  /\ UNCHANGED <<disk, promise>>

DbClose ==
  /\ pc = "ready"
  /\ \/ ops > 0 /\ SyncWal
     \/ (ops > 0 => IoFails) /\ UNCHANGED <<logVars, files>>
  /\ Forget
  /\ UNCHANGED <<base, diskBase, blobs, promise>>

-----------------------------------------------------------------------------
(* The steps db_write and db_delete_where share for one record *)

\* rc < 0: db_write drops the file of the record it was writing, whatever
\* already refers to it; db_delete_where leaves the files alone.  The file is
\* "lost" to a record the session serves.
Fail ==
  /\ Return
  /\ blobs' = blobs \ {<<cur.key, cur.val>>}
  /\ files' = IF cur.val \in BlobVal /\ index[cur.key] = cur.val
              THEN "lost" ELSE FilesAfter(blobs')

\* Mutant of DbWrite: a file is written whatever the size of the payload.
DbWriteAllBlobs(k, v) ==
  /\ pc = "ready" /\ Len(wal) < MaxLog
  /\ cur' = [key |-> k, val |-> v] /\ pc' = "blob"
  /\ UNCHANGED <<disk, session, old, todo, promise>>

\* Mutant of DbWrite: the record goes to the log without its file.
DbWriteNoBlob(k, v) ==
  /\ pc = "ready" /\ Len(wal) < MaxLog
  /\ cur' = [key |-> k, val |-> v] /\ pc' = "append"
  /\ UNCHANGED <<disk, session, old, todo, promise>>

DbWrite(k, v) ==
  /\ pc = "ready" /\ Len(wal) < MaxLog
  /\ cur' = [key |-> k, val |-> v]
  /\ pc' = IF v \in BlobVal THEN "blob" ELSE "append"
  /\ UNCHANGED <<disk, session, old, todo, promise>>

\* The file is on disk under its name before the record that names it.
WriteBlobFile ==
  /\ pc = "blob"
  /\ \/ /\ blobs' = blobs \cup {<<cur.key, cur.val>>}
        /\ pc' = "append" /\ UNCHANGED <<files, cur, old, todo>>
     \/ IoFails /\ Fail
  /\ UNCHANGED <<logVars, base, diskBase, session, promise>>

WalAppended ==
  /\ pc = "append"
  /\ wal' = Append(wal, cur)
  /\ promise' = IF tear = NoTear \/ promise = "holed" THEN promise ELSE "lapsed"
  /\ pc' = "apply"
  /\ piled' = FALSE
  /\ UNCHANGED <<tear, synced, undo, base, diskBase, blobs, files, session, cur, old, todo>>

\* An append that does not finish leaves nothing, a partial record behind the
\* log, or one behind the partial record that is there.
Tears ==
  \/ UNCHANGED <<tear, piled>>
  \/ tear = NoTear /\ tear' = Len(wal) /\ UNCHANGED piled
  \/ tear = Len(wal) /\ piled' = TRUE /\ UNCHANGED tear

WalAppendFails ==
  /\ pc = "append" /\ IoFails
  /\ Tears
  /\ Fail
  /\ UNCHANGED <<wal, synced, undo, base, diskBase, session, promise>>

\* Mutant of ApplyToIndex: the replaced file goes before the log is synced.
ApplyToIndexNoSync ==
  /\ pc = "apply"
  /\ old' = index[cur.key]
  /\ index' = Applied(index, cur)
  /\ pc' = "cleanup"
  /\ UNCHANGED <<disk, syncEach, ops, failed, pos, inherited, cur, todo, promise>>

ApplyToIndex ==
  /\ pc = "apply"
  /\ old' = index[cur.key]
  /\ index' = Applied(index, cur)
  /\ pc' = "sync"
  /\ UNCHANGED <<disk, syncEach, ops, failed, pos, inherited, cur, todo, promise>>

\* The record is in the log and in the table: the replaced file can go.
GoOn == pc' = "cleanup" /\ UNCHANGED <<cur, old, todo, blobs>>

\* Mutant of DbSyncIfNeeded: ops_since_sync starts again without a sync.
DbSyncIfNeededForgets ==
  /\ pc = "sync"
  /\ LET n == IF syncEach THEN ops ELSE ops + 1
         due == syncEach \/ n >= SyncEvery
     IN \/ due /\ SyncWal /\ ops' = 0 /\ failed' = FALSE /\ GoOn
        \/ ~due /\ UNCHANGED <<logVars, files, failed>> /\ ops' = n /\ GoOn
        \/ due /\ IoFails /\ UNCHANGED logVars /\ ops' = 0 /\ failed' = TRUE /\ Fail
  /\ UNCHANGED <<base, diskBase, index, syncEach, pos, inherited, promise>>

DbSyncIfNeeded ==
  /\ pc = "sync"
  /\ LET n == IF syncEach THEN ops ELSE ops + 1
         due == syncEach \/ n >= SyncEvery
     IN \/ due /\ SyncWal /\ ops' = 0 /\ failed' = FALSE /\ GoOn
        \/ ~due /\ UNCHANGED <<logVars, files, failed>> /\ ops' = n /\ GoOn
        \/ due /\ IoFails /\ UNCHANGED logVars /\ ops' = n /\ failed' = TRUE /\ Fail
  /\ UNCHANGED <<base, diskBase, index, syncEach, pos, inherited, promise>>

\* Mutant of DeleteBlobFile: the file goes although the new record has its id.
DeleteBlobFileShared ==
  /\ pc = "cleanup"
  /\ blobs' = blobs \ {<<cur.key, old>>}
  /\ files' = FilesAfter(blobs')
  /\ IF cur.val = None
     THEN pc' = "pick" /\ cur' = None /\ old' = None /\ UNCHANGED todo
     ELSE Return
  /\ UNCHANGED <<logVars, base, diskBase, session, promise>>

\* The id of the replaced file is read through a pointer into the value the
\* hash table has already freed: it is the old id, or bytes naming no file.
DeleteBlobFile ==
  /\ pc = "cleanup"
  /\ blobs' \in IF old = cur.val THEN {blobs} ELSE {blobs \ {<<cur.key, old>>}, blobs}
  /\ files' = FilesAfter(blobs')
  /\ IF cur.val = None
     THEN pc' = "pick" /\ cur' = None /\ old' = None /\ UNCHANGED todo
     ELSE Return
  /\ UNCHANGED <<logVars, base, diskBase, session, promise>>

-----------------------------------------------------------------------------
(* db_delete_where: keys are collected first, then visited one by one *)

DbDeleteWhere(S) ==
  /\ pc = "ready"
  /\ todo' = S /\ pc' = "pick"
  /\ UNCHANGED <<disk, session, cur, old, promise>>

DeleteSkips(k) ==
  /\ pc = "pick" /\ k \in todo /\ index[k] = None
  /\ todo' = todo \ {k}
  /\ UNCHANGED <<disk, session, pc, cur, old, promise>>

DeleteStarts(k) ==
  /\ pc = "pick" /\ k \in todo /\ index[k] # None /\ Len(wal) < MaxLog
  /\ cur' = [key |-> k, val |-> None] /\ todo' = todo \ {k} /\ pc' = "append"
  /\ UNCHANGED <<disk, session, old, promise>>

\* The callback wants the payload and its file is gone.
DeleteFails(k) ==
  /\ pc = "pick" /\ k \in todo
  /\ index[k] \in BlobVal /\ <<k, index[k]>> \notin blobs
  /\ Return
  /\ UNCHANGED <<disk, session, promise>>

DeleteDone ==
  /\ pc = "pick" /\ todo = {}
  /\ Return
  /\ UNCHANGED <<disk, session, promise>>

-----------------------------------------------------------------------------
(* db_compact *)

\* Mutant of DbCompact: the log is not synced before the snapshot.
DbCompactNoSync ==
  /\ pc = "ready" /\ Cardinality(undo) < MaxUndo
  /\ ops' = 0 /\ pc' = "snapshot"
  /\ UNCHANGED <<disk, index, syncEach, failed, pos, inherited, cur, old, todo, promise>>

DbCompact ==
  /\ pc = "ready"
  /\ \/ ops > 0 /\ SyncWal /\ failed' = FALSE
     \/ ops = 0 /\ Cardinality(undo) < MaxUndo /\ UNCHANGED <<logVars, files, failed>>
  /\ ops' = 0 /\ pc' = "snapshot"
  /\ UNCHANGED <<base, diskBase, blobs, index, syncEach, pos, inherited,
                 cur, old, todo, promise>>

\* The system call the step would make fails: db_compact returns -1, keeps
\* what the steps before did and removes the temporary file nothing reads.
DbCompactFails ==
  /\ pc \in CompactPCs /\ IoFails
  /\ Return
  /\ UNCHANGED <<disk, session, promise>>

\* Mutant of SnapshotWritten: the log goes without the rename.
SnapshotNotRenamed ==
  /\ pc = "snapshot"
  /\ pc' = "truncate"
  /\ UNCHANGED <<disk, session, cur, old, todo, promise>>

\* db_write_snapshot writes and syncs the table under another name.  What the
\* file holds when this succeeds is the choice of BaseRenamed, which is the
\* first to read it.
SnapshotWritten ==
  /\ pc = "snapshot"
  /\ pc' = "rename"
  /\ UNCHANGED <<disk, session, cur, old, todo, promise>>

\* The maps a snapshot that was written without an error may load as: the
\* table, or what is left of it without the pages behind the last superblock
\* that reached the file, for pf_alloc_page does not look at write_sb's result.
Snapshots ==
  IF ~IoFails THEN {index}
  ELSE {[k \in Key |-> IF k \in S THEN index[k] ELSE None] : S \in SUBSET Key}

BaseRenamed ==
  /\ pc = "rename"
  /\ base' \in Snapshots
  /\ promise' = IF base' # index THEN "holed"
                ELSE IF synced = Len(wal) \/ promise = "holed" THEN promise ELSE "lapsed"
  /\ pc' = "dirsync"
  /\ UNCHANGED <<logVars, diskBase, blobs, files, session, cur, old, todo>>

\* Mutant of DirSynced: the directory is not synced.
DirNotSynced ==
  /\ pc = "dirsync"
  /\ pc' = "truncate"
  /\ UNCHANGED <<disk, session, cur, old, todo, promise>>

DirSynced ==
  /\ pc = "dirsync"
  /\ diskBase' = base
  /\ pc' = "truncate"
  /\ UNCHANGED <<logVars, base, blobs, files, session, cur, old, todo, promise>>

WalTruncated ==
  /\ pc = "truncate"
  /\ wal' = <<>> /\ tear' = NoTear /\ piled' = FALSE /\ synced' = 0
  /\ undo' = undo \cup {CurrentLog}
  /\ inherited' = 0
  /\ pc' = "walsync"
  /\ UNCHANGED <<base, diskBase, blobs, files, index, syncEach, ops, failed, pos,
                 cur, old, todo, promise>>

\* The snapshot is on disk and the log empty: the store starts anew, unless the
\* snapshot lacks entries.
WalSynced ==
  /\ pc = "walsync"
  /\ SyncWal
  /\ promise' = IF promise # "kept" /\ base = index THEN "renewed" ELSE promise
  /\ Return
  /\ UNCHANGED <<base, diskBase, blobs, session>>

-----------------------------------------------------------------------------
(* Faults *)

\* The process dies; what it wrote is in the page cache.
Kill ==
  /\ "kill" \in Faults /\ pc # "closed"
  /\ IF pc = "append" THEN Tears ELSE UNCHANGED <<tear, piled>>
  /\ Forget
  /\ UNCHANGED <<wal, synced, undo, base, diskBase, blobs, files, promise>>

\* What is left of log l: any prefix that holds its synced records, with or
\* without part of the record behind it; where l is torn, that part lies behind
\* a partial record.
TearsOf(l, n) == IF l.tear # NoTear /\ l.tear < n THEN {l.tear} ELSE {NoTear, n}
PilesOf(l, n, t) == {FALSE, l.tear = n /\ t = n /\ (l.piled \/ n < Len(l.wal))}
Survives(l) ==
  \E n \in l.synced..Len(l.wal) : \E t \in TearsOf(l, n) :
    /\ wal' = FirstRecs(l.wal, n) /\ synced' = n
    /\ tear' = t /\ piled' \in PilesOf(l, n, t)

PowerLoss ==
  /\ "power" \in Faults
  /\ \E l \in undo \cup {CurrentLog} : Survives(l)
  /\ undo' = {}
  /\ files' = IF files = "exposed" THEN "lost" ELSE files
  /\ base' \in {base, diskBase} /\ diskBase' = base'
  /\ Forget
  /\ UNCHANGED <<blobs, promise>>

-----------------------------------------------------------------------------
Next ==
  \/ DbOpen \/ WalReplayRecord \/ WalReplayEnds \/ WalReplayRejects \/ DbClose
  \/ \E w \in Writes : DbWrite(w[1], w[2])
  \/ WriteBlobFile \/ WalAppended \/ WalAppendFails \/ ApplyToIndex
  \/ DbSyncIfNeeded \/ DeleteBlobFile
  \/ \E S \in SUBSET Key : DbDeleteWhere(S)
  \/ \E k \in Key : DeleteSkips(k) \/ DeleteStarts(k) \/ DeleteFails(k)
  \/ DeleteDone
  \/ DbCompact \/ DbCompactFails \/ SnapshotWritten \/ BaseRenamed
  \/ DirSynced \/ WalTruncated \/ WalSynced
  \/ Kill \/ PowerLoss

Spec == Init /\ [][Next]_vars

-----------------------------------------------------------------------------
TypeOK ==
  /\ wal \in Seq(Rec) /\ tear \in Nat \cup {NoTear} /\ piled \in BOOLEAN
  /\ synced \in Nat /\ undo \subseteq Log
  /\ base \in Map /\ diskBase \in Map
  /\ blobs \subseteq BlobId /\ files \in {"safe", "exposed", "lost"}
  /\ index \in Map /\ syncEach \in BOOLEAN /\ ops \in Nat /\ failed \in BOOLEAN
  /\ pos \in Nat /\ inherited \in Nat
  /\ pc \in PCs /\ cur \in Rec \cup {None} /\ old \in Val \cup {None}
  /\ todo \subseteq Key
  /\ promise \in {"kept", "lapsed", "holed", "renewed"}

Larger(a, b) == IF a > b THEN a ELSE b

\* The session serves exactly what its log says: the table is the snapshot
\* with every complete record applied, less the record an append has just
\* put in the log.  So a process killed at any point of any call, the steps
\* of a compaction included, reopens to the map it was serving, with the
\* record in flight or without it.  Only a buried record breaks this, and a
\* snapshot with entries missing that the session went on to install.
IndexIsLog ==
  /\ pc = "replay" => index = Replayed(base, FirstRecs(wal, pos))
  /\ ~Buried /\ promise # "holed" =>
       /\ pc = "apply" => Applied(index, cur) = Replayed(base, wal)
       /\ pc \notin {"closed", "replay", "apply"} => index = Replayed(base, wal)

\* The operations of this session that a power loss may take back are those
\* ops_since_sync counts, fewer than sync_every_n unless the last fsync
\* failed; where each write is synced there are none unless it failed.
LossWindow ==
  pc = "ready" =>
    LET atRisk == Len(wal) - Larger(synced, inherited)
    IN /\ ~syncEach => atRisk <= ops
       /\ syncEach /\ ~failed => atRisk <= 0
       /\ ~failed => ops < SyncEvery

\* A compaction replaces the snapshot only once the log behind it is on disk,
\* even after an fsync of this session failed, if the session found its log
\* on disk and counts its operations.
SnapshotOverSyncedLog ==
  pc = "rename" /\ inherited <= synced /\ ~syncEach => synced = Len(wal)

\* When every session syncs each write and calls do not fail, a file goes only
\* once no log that survives can name it, killed sessions in between or not.
SyncedFilesSafe == SyncModes = {TRUE} /\ ~IoFails => files = "safe"

NoDangling(m) == \A k \in Key : m[k] \in BlobVal => <<k, m[k]>> \in blobs

\* Every record a session serves has its file.  Two things alone break this: a
\* db_write that fails although its record, or an equal older one, is served,
\* and a power loss after a file was removed ahead of the log.
LiveBlobs ==
  promise = "kept" /\ files # "lost" /\ pc \notin {"closed", "replay"} => NoDangling(index)

\* The same holds of every map a power loss may leave, as long as no file
\* was removed ahead of the log: a session that syncs each write, and finds
\* its log on disk, never does.
RecoverableBlobs ==
  promise = "kept" /\ files = "safe" =>
    \A m \in {base, diskBase}, n \in synced..Len(wal) :
      NoDangling(Replayed(m, FirstRecs(wal, n)))

\* wal.h: replay calls back for every valid record of the log.
EveryValidRecordReplayed ==
  pc = "ready" /\ inherited = Len(wal) => pos = Len(wal)

Promised == promise \in {"kept", "renewed"}

Durable == INSTANCE DurableMap WITH
  stable <- Replayed(base, FirstRecs(wal, synced)),
  pending <- SubSeq(wal, synced + 1, Len(wal)),
  sound <- Promised

\* Whatever crash comes when, recovery yields the synced operations and a
\* prefix of the rest, in order, as long as the promise has not lapsed: by an
\* append behind a partial record, by a snapshot over records not on disk or
\* by one with entries missing.
Recovers == Durable!Spec
=============================================================================
