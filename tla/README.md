# sys-http and microdb in TLA+

`sys-http` is a freestanding HTTP server for Linux x86_64 (C and assembly, no
libc) with its own storage engine, `microdb` (C, libc). This directory holds TLA+
models of both, the TLC runs that check them on small instances, and TLAPS
proofs for every value of the constants. `PROJECT.json` maps each definition to
the lines of code it stands for.

```
tlc -workers 2 -config synced_writes.cfg MCMicroDB    # one run of the table below
tlapm MicroDBProofs.tla                               # proofs; the same for
                                                      # the other *Proofs modules
```

## 1. Inventory

| Component | Code | State it keeps | Operations |
|---|---|---|---|
| Store | `microdb/src/db.c`, `wal.c` | `data.wal`, `base.db`, `blobs/`, the primary table of the session, `ops_since_sync` | `db_open` (load snapshot, replay), `db_write`, `db_read`, `db_delete_where`, `db_compact`, `db_close` |
| Secondary indexes | `db.c` 445-700 | a bucket of keys per namespace and per content type | add, remove, iterate, rebuild at open; listings and deletions by selector |
| Hash table | `hash.c` | slots: empty, live, tombstone; `len` | `ht_set`, `ht_get`, `ht_del`, `ht_iterate`, growth |
| Snapshot file | `page.c`, `paged_file.c`, `mmap.c`, `db_write_snapshot` | superblock, slotted pages of 4096 bytes | write all entries, load them again |
| REPL | `microdb/src/main.c` | one open store | SET, WRITE, DEL, DELETE, COMPACT, READ, COUNT... as calls of `db.h` |
| Request reader | `io.c` 112-181, `requests.c` 40-276 | a 1024-byte buffer with two positions, the header map, a 1024-byte string pool, the body | `readline_stream`, `read_incoming`, `parse_header_line`, `read_body` |
| Event loop | `epoll_loop.c`, `client.c`, `server.c` | the listening socket, one `client` per accepted connection | accept, read, answer, close |
| Responses | `requests.c` 103-174, 299-609, `io.c` 60-110 | none beyond the socket and a file offset | `write_response`, `handle_get`, `chunk`, `handle_post` |
| Database API | `database.c` | none: it opens and closes the store in each request | `database_set`, `database_add_note`, `database_route`, `database_list` |
| Text and containers | `str.c`, `hashmap.c`, `json.c`, `query.c` | string pools, a 64-entry hash map, JSON builders | append, format, put, get, serialize, decode |
| System layer | `syscalls.c`, `memory.c`, `asm/*.s` | none | thin wrappers |

How they interact. The event loop accepts a connection and, in the same
iteration, has the reader read its request to the end and the response code
answer it; then it closes it. A handler under `/database` opens the store, makes
one or two calls and closes it, so a session of the store is as long as a
request (or as a REPL). The store keeps its records in the hash table, derives the
secondary indexes from it at every open, appends each operation to the log
before applying it, and rewrites the snapshot through the page file when the REPL
says COMPACT. The server opens the store with `sync_each_write = 0`
(`database.c:15`), that is a sync every five operations or at close.

What is hard about it, and what makes each part correct:

* **Store.** A crash between any two system calls of open, write, delete and
  compact; a record of which only a part was appended; an fsync that fails; the
  interplay of snapshot and log. Correct: what is served is what snapshot and log
  replay to; a crash keeps the synced operations and a prefix of the others; no
  record names a blob file that is gone.
* **Indexes.** The old record is unindexed through memory that `ht_set` or
  `ht_del` has freed, and its name is read there twice. Correct: every live key is in
  its own buckets, listings equal scans, deletions leave nothing that matches.
* **Hash table.** Tombstones, wrap-around, growth in the middle of a history.
  Correct: it is a map, and every call returns.
* **Snapshot file.** Page boundaries and failing calls, one of which nobody
  notices: `pf_alloc_page` ignores `write_sb`. Correct: what loads is what was in the
  table, or the call reported failure; with that one call failing, a part of the table.
* **Reader.** Segments cut anywhere, a buffer that is compacted under the feet of
  its callers and read into past its end, a string pool that fills, `EAGAIN`,
  half-closed peers. Correct: the stream is consumed once and in order, and a request
  that is there and fits is understood.
* **Event loop.** One thread and non-blocking sockets that it treats as blocking.
  Correct: every peer that has sent its request is answered.
* **Responses.** Sockets that take less than they are given, files that give less
  than `stat` promised. Correct: what arrives is a prefix of the answer, complete
  unless the socket was full or the file gave out.
* **Database API.** Each request is a short session on files a REPL may have open
  too, without a lock: what one has read is old when it writes. Notes are
  numbered by counting. Correct: what was acknowledged survives and is found
  again; a note never takes the place of another record.

`PROJECT.json` lists the hazards one by one, at their lines, with the properties
that watch them.

## 2. Modules

| Module | Models | Notes |
|---|---|---|
| `WalRecords` | the meaning of a log | `Replayed(m, w)`: last record of each key wins. No recursion, so that it can be proved about |
| `DurableMap` | abstract specification of the store | a stable map, a sequence of operations at risk, a crash keeps a prefix of them |
| `MicroDB` | `db.c` and `wal.c` | one action per stretch of code between two points where the disk changes or a call can fail |
| `Database` | `database.c`, `handle_post`, the commands of the REPL | two processes on one log; a call of the store is one step here |
| `SecondaryIndex` | buckets, selectors, listings, deletion by selector | table and buckets; each of the two readings of a freed name gives any name or none |
| `KeyMap` | abstract specification of `hash.h` | a map, each call at once |
| `HashTable` | `hash.c` | slots and probes; growth is one action per moved entry |
| `PagedSnapshot` | `db_write_snapshot`, pages, `mmap_load_into_ht` | the slots of each page with the byte positions of the payloads, as the code computes them |
| `RequestReader` | line reader, headers, body | a cell of the stream stands for a line, for the name or the number of a `Content-Length` line, or for a piece of a long line or of the body |
| `EventLoop` | extends `RequestReader` with accept, answer, close, and the ends of the process | |
| `Responses` | the writing of one answer | a cell stands for a header line or a block of content |
| `MC*` | instances for TLC | values of constants and symmetry only |
| `*Proofs` | theorems | extend the module they are about |

How they fit. `MicroDB` has its table as a map and refers to `HashTable` for why
this is right (`HashTable` implements `KeyMap`) and to `PagedSnapshot` for what a
snapshot that was written without an error loads as: the table, or, where calls
may fail, a part of it. `pf_alloc_page` does not look at the result of `write_sb`
(`paged_file.c:80`), so pages behind the last superblock that reached the file are
lost. `SnapshotComplete` shows that nothing else is; `BaseRenamed` chooses `base'`
from `Snapshots` accordingly. `SecondaryIndex` starts from the same table.
`MicroDB` implements `DurableMap` through the mapping

    stable  <- Replayed(base, the synced records of wal)
    pending <- the records behind them
    sound   <- promise \in {"kept", "renewed"}

`promise` is a history variable. It is "kept" until the code does one of three
things that end its promise: it appends behind a partial record (`db.c:851`); it
renames a new snapshot into place while records of the log, left behind by an
earlier process, are not on disk (`db.c:821`, `1051`, `1058`); or the snapshot
it renames lacks entries because a superblock was not written (`paged_file.c:80`,
then `db.c:1065` empties the log). In the last case the session still serves what the
snapshot lacks ("holed") and the next one no longer does ("lapsed"). Syncing the
truncated log, the last step of a compaction, makes it "renewed" if the snapshot is
the table. This makes the limits of the promise explicit instead of hiding
them in a weaker property: everything outside these three situations is checked.

`Database` uses the same records and the same `Replayed`, with what `MicroDB`
shows about one call taken for granted: there the inside of a call is open to
crashes, here the gaps between calls are open to another process.

State and code. `pc` names the statement a call has reached. In `MicroDB` these
are `blob`, `append`, `apply`, `sync`, `cleanup` for `db_write` and for each key of
`db_delete_where`, `snapshot` to `walsync` for `db_compact`, `replay` for
`db_open`. `wal` holds complete records, `tear` says before which of them a partial one lies
and `piled` that it is more than one, which replay may reject instead of stopping,
`synced` how many a power loss cannot take, `undo` the longer logs that an
unsynced truncation may give back; `base` and `diskBase` are the snapshot as
seen and as it survives a power loss; `files` says whether a payload file went
that a record on disk may still name. In `Database` each process has its table
(`view`) and its file offset (`at` records, of which `footing` says whether the log
is still what it was when the process last looked); `owed` and `disorder` are
history variables: what undisturbed clients were told is stored, and whether a note
key or the namespace of the notes was used otherwise or records overwritten. In
`SecondaryIndex`, `nsAstray` and `ctAstray` are the buckets that were written over
with another's keys since the last rebuild. In `RequestReader`, `rpos`, `wpos` and
`pos` are the code's `read_pos`, `write_pos` and the caller's `pos`; `pc` is the
place in `readline_stream` or `read_body`, "dead" when the process has ended and
"astray" when a read has gone past the buffer, over `read_pos`, `write_pos` and the
rest of the frame (`io.c:150`, `io.h:30`): what happens then is undefined, and
nothing is claimed of it but what led there. `names` and `entries` are what the header map
holds, `used` what the header lines took of the string pool. In `Responses`, `full`
and `failed` remember that a call found no room or that the file gave out. In
`HashTable` a slot is `Empty`, `Tomb` or an entry.

### Order of the work

Done, in this order: `WalRecords`, `DurableMap`, `MicroDB` and its proofs; then
`SecondaryIndex` and its proofs; `KeyMap` and `HashTable`; `PagedSnapshot`;
`RequestReader` and `EventLoop`; `Responses`; sessions of both sync modes over
one store, and the fate of blob files, in `MicroDB`; `Database`; the limits of the
header map, the string pool and the buffer in `RequestReader`; the superblock that is
not written, the second reading of a freed name, WRITE of the REPL into the
namespace of the notes, JSON fields without room, and the files that give out.

The proofs came last, in the same order: `MicroDB` with its refinement of
`DurableMap`, `SecondaryIndex`, `HashTable` with its refinement of `KeyMap`,
`PagedSnapshot`, `Database`, `EventLoop` with `RequestReader`, `Responses`. Every
invariant and every action property that a passing run checks, and both refinements,
are now theorems; what stays with TLC is in section 5.

## 3. Runs

| Run | Question | Instance |
|---|---|---|
| `synced_writes` | is the table what snapshot and log replay to, do payload files go last, and is recovery a `DurableMap`, when each write is synced? | 2 keys, one of them written inline and one in a file, logs of 2 records, kills and power losses anywhere |
| `sessions` | the same with sessions of both sync modes and failing system calls, noticed or not; what may a power loss take? is the log on disk before a snapshot replaces it? which records lose their file? | 1 key, 1 payload in the record and 1 in a file, logs of 2, kills, power losses and failing calls |
| `torn_tail` | is every valid record replayed? **No** | 2 keys, kills |
| `listings` | do buckets cover the table, are listings scans, are deletions complete? | 2 keys, 2 namespaces, 2 types, freed bytes spelling anything, at each reading |
| `stale_listing` | can a listing always be made? **No** | the same |
| `hash_table` | does every entry stay on its probe, and is the table a map? | 4 keys, colliding before and after growth, 2 values, first array of 4 |
| `tombstones` | does every call return? **No** | the same |
| `snapshot` | does what was written load? when does writing fail? | every table over six records with lengths about a page's capacity, every order, failing calls |
| `event_loop` | is a request understood, is every peer answered, what ends the server? | 2 connections, a buffer of 8 cells, a header map of 3 entries, a pool of 7 cells, eight pairs of requests, all segmentations, peers that shut or leave |
| `database` | does what a POST acknowledged survive, is it served, are notes numbered without gap or reuse, with a REPL on the same files? | 2 note keys and one other, 2 texts of which one fits an answer, logs of 2 records, a listing with room for one, kills and power losses |
| `silent_peer` | is a peer answered while another one is silent? **No** | 2 connections sending GET |
| `responses` | does what arrives form a prefix, complete unless the socket was full or the file gave out, and does every answer end? | 5 blocks, chunks of 2, a socket for 5 cells |

### Bounds, and why they are enough

* `MaxLog` limits the records of a log. Two records give an old and a new one of a
  key, one of each of two keys, or a full batch (`SyncEvery = 2`). A partial
  record, records behind it, and a log inherited from a killed session all occur
  within two. Compactions empty the log, so no bound limits a history.
* `Writes` lists the records clients write, `SyncModes` the modes sessions open
  with: in `synced_writes` one key has a payload in the record and the other one in
  a file, in `sessions` one key has one of each, so that a write replaces a file,
  writes the same one again, or puts back one that was replaced.
* In `Database` two note keys are a note and the next one, and a third key is
  written by POST /database and by the REPL, by the latter into the default namespace or
  into that of the notes. `Documents`, `ReplWrites` and `ReplKeys` say who writes what;
  letting the REPL write a note key too, or logs of three records, multiplies the 3.8
  million states and brings no new situation: `disorder` is set either way.
  `ListRoom = 1` makes the second note the one a listing has no room for, and of the
  two bodies one fits the pool of an item and of an answer (`Listable`, `Routable`) and
  the other does not.
* `MaxUndo` limits how many truncations are unsynced when a compaction begins; with one,
  a compaction already follows a compaction whose truncation was lost.
* Two keys for the indexes: the properties quantify over one key and its buckets,
  the second provides a selector with something to keep. Two namespaces and two
  types are needed for a key to move.
* Four keys and a first array of four slots: growth happens at the third live
  entry (0.7), with collisions on both sides of it and a wrapped probe.
  Nothing bounds the number of calls; the table is finite because growth follows live
  entries.
* Record lengths 13, 2000, 2064, 2065, 4072, 4073 around 4072, the room of an empty
  page for one record: two records that fill a page to the byte, two that
  miss by one, one that exactly fills it, one that can never be written.
* One connection sends the shortest GET, which is what the other one can make wait; the
  other one sends one of eight requests (`MCLoads`), each made to meet a limit. `Post`
  just fits the map of three entries (`Content-Length`, `REQUEST`, `BODY`), `Crowded`
  has a header more; `BigPost` has a body too long for the pool, and for the
  first read; `Named` has headers called as the server's own entries. `BigHead` fits
  the buffer and not the pool. `Across` is longer than the buffer with a line across its
  end, so that a compaction leaves `pos` stale; in `LongLine` that line leaves the next
  read less room than it asks for, and in `Endless` no room at all. With a peer that
  sends all at once, or any part, these are all the ways a buffer of eight can be
  filled. 627714 states.
* A socket for five cells holds every header (four cells) and one block: each call
  may find no room, some room or enough, sendfile may take less than there is, and
  a read or sendfile may fail at each chunk.

Deadlock checking is off in these runs because the systems may really stop: a
store nobody calls, a server that has ended or whose peers all have their
answer, a history at its bound.

### Fairness

* The store and its parts are called by others and promise no progress: `Spec`
  has no fairness, and their properties are safety.
* `LoopSpec` is weak fairness of the server's own steps: the kernel schedules a
  running thread, and nothing else is asked. `silent_peer` uses it, since the
  point is that no peer owes the server anything.
* `FairSpec` adds that each peer goes on sending until its request is sent. Under
  it `SentIsAnswered` holds while the server is up: a peer that sends slowly delays the
  others, and only delays them. The property excludes runs in which
  the server ends; `DeathCauses` says what ends it.
* `Responses` has weak fairness of the server alone; the peer may never read.

## 4. What the runs show to differ

* **`torn_tail`**: `wal.h` says that replay calls back for every valid record and stops
  without error at a truncated end. After such a stop `db_open` seeks to the end of the
  file, so the next record lands behind the partial one. It is served until the
  store is closed and never replayed again.
* **`stale_listing`**: `HTTP.md` says that a listing returns all the records of the
  namespace. `db_write` and `db_delete_where` compute the bucket to leave from a
  freed value. A key that stays in a foreign bucket and is deleted later makes
  every listing of that namespace return -1, until the next open. `listings`
  shows the other half: as long as a listing succeeds it is exact, unless its bucket was
  written over with another's keys, and `ListingWorksIntact` that nothing but the
  freed memory is to blame for either.
* **`tombstones`**: the comment in `hash.c` promises a load factor of about 0.7.
  Tombstones are not counted in it and never cleared, so a table can have no empty
  slot and a probe for an absent key no end.
* **`silent_peer`**: `Architecture.md` lists multiplexing with `epoll`. The reader
  answers `EAGAIN` by trying again at once, in the only thread.

Each of these was seen in a build of the program as well: the REPL reports an error
listing a namespace after an overwrite and a deletion; it hangs after some 240
write-delete pairs of fresh namespaces; the server is silent while one
connection holds back its last line.

What the passing runs pin down about the code as it is, in other words what it does
and a reader of its documents may not expect:

* **Requests.** One whose head fits the buffer, whose lines and body fit the string
  pool, and which is complete when its connection is accepted is understood
  (`PromptUnderstood`); one that is cut behind its request line may lose a header to a
  stale `pos`. One whose headers leave the map no room for `BODY` is answered as one
  without a body, never with another's.
* **Ends of the server** (`DeathCauses`). A peer that shuts or leaves early; a body for
  which the string pool must move; header lines the pool has no room for, whose null
  pointer `parse_header_line` copies to (`requests.c:215-222`); a head longer
  than the buffer, behind a part of which the reader asks for 1024 bytes more
  (`io.c:150`). `HTTP.md:201` says that there is no formal limit on headers. Within
  those limits a peer that waits for its answer ends nothing.
* **Answers.** `GET` of a directory (`/components`) is answered 200 with
  `Content-Length: 4096` and no body, since `sendfile` fails; a file that became
  shorter is cut. `CutOnlyWhenFull` says that in these cases exactly what the file
  gave arrives. A chunked video may lose pieces from its middle at a slow reader,
  so `NoGaps` is stated for the other answers only.
* **Listings.** The results of `json_add_*` are ignored (`database.c:242-244`). A note
  of some 499 to 512 bytes is listed without its value; a document too long for the
  1024-byte pool of `GET /database/{id}` is found without one; a listing past its
  own pool contains a field whose type and pointer `json_add_object` has left
  uninitialised (`json.c:64-76`), and the answer may be anything. `HTTP.md:98-99` and
  `Testing.md:121` promise all records. `AckedServed` says what is shown in which case.
* **Payload files.** A failed `db_write` may leave its record in the table and its blob
  file removed, and without `sync_each_write` a replaced file goes before the record
  that replaces it is on disk: `files` says which of the two happened, and `LiveBlobs`
  and `RecoverableBlobs` that nothing else loses a file.
* **Compactions under failing writes.** `db_compact` may return success over a snapshot
  whose last superblock did not reach the file, and then empties the log: the session
  serves records that the next one will not find. `IndexIsLog` and `Recovers` except
  that case ("holed"), and no other failing call leads to it.
* **A server beside a REPL.** A POST that runs beside an open REPL is promised nothing:
  either may write over the other's records, and a COMPACT drops what the REPL has not
  read; `docs/MicroDB-Integration.md:170` says as much. What was acknowledged while
  no REPL was open survives all of that, since each session's offset lies behind it
  (`AckedSurvives`).
* **Numbers of notes.** One is free unless a note was deleted, its key or the namespace
  `notes` used otherwise (the REPL's WRITE takes any namespace, `main.c:126-150`), or
  records overwritten (`disorder`); then the next note may replace an existing one.

## 5. Proofs

Each `*Proofs` module extends the module it is about. A property is seldom
inductive as it stands; each section of a proof module begins with the invariant
that is, has one step per action, and ends with the theorems. The theorems hold for
all values of the constants that meet the module's `ASSUME`s; TLC evaluates these on
every run.

**Logs** (`WalRecordsProofs`). The lemmas on `Replayed`: replaying one record more is
applying it; replaying prefix by prefix gives the whole; the result depends on no
record that a later one overwrites. They rest on `HasLast`, that each key
a log writes has a last record in it; a log that only grows carries it along,
for one that is cut and overwritten it follows from the well-foundedness of the
naturals.

**Store** (`MicroDBProofs`, from `ConstantsAssumption` and `NoneAssumption`).

    THEOREM TypeCorrect             == Spec => []TypeOK
    THEOREM ServesItsLog            == Spec => []IndexIsLog
    THEOREM FilesGoLast             == Spec => []SyncedFilesSafe
    THEOREM LossIsBounded           == Spec => []LossWindow
    THEOREM SnapshotsAreOfSyncedLogs == Spec => []SnapshotOverSyncedLog
    THEOREM ImplementsDurableMap    == Spec => Recovers
    THEOREM ServedRecordsHaveFiles  == Spec => []LiveBlobs
    THEOREM RecoveredRecordsHaveFiles == Spec => []RecoverableBlobs

* `IInv` is `TypeOK`, `LogsOK`, `CallOK` and `IndexIsLog`. The latter excepts a
  buried record and a session whose snapshot has holes, from its compaction until it
  closes; replay, which begins the next one, is excepted from nothing. That it
  survives a step of replay needs the position to be within the log, that it survives
  a compaction needs the table to be unchanged since the call began, and that it
  survives a crash needs every log that may come back to be well formed.
* `LossWindow` speaks of the moments between calls. `WindowIInv` says at every point
  that `ops_since_sync` counts the session's records that are not on disk, one more
  being under way between its append and its count.
* `Recovers` maps each step to a step of `DurableMap` or a stutter. `SoundIInv`
  holds as long as the promise is "kept" or "renewed": no record lies behind a partial one; a
  compaction past its rename has its log on disk; the old and the new snapshot give
  the same map with what a power loss may leave of the log (`SameBases`); a longer
  log that comes back from an unsynced truncation changes nothing, since all
  of it is in the snapshot. Where the promise ends, in one of the three situations of
  section 2, `DurableMap` allows any recovery (`sound` is false there) until a later
  compaction renews it; the theorem says nothing of what is lost in between.
* For the files of payloads, `BlobLogs` asks that every prefix of the log that a
  power loss may leave names only files that exist, and `BlobCall` that the file is
  there before the record and the record in the table before a file goes.

**Indexes** (`SecondaryIndexProofs`): `TypeCorrect`, `IndexesComplete`
(`BucketsCover`), `ListingsExact` (`ListingIsScan`), `DeletionsComplete`
(`DeletedAll`), `OnlyFreedBytesFailListings` (`ListingWorksIntact`).
`index_bucket_remove` reads a freed name to get a bucket and, after an allocation and a
copy, again to write back what is left of it (`db.c:499-529`). The two readings are
chosen independently. If they differ, a bucket may be replaced by what is
left of another, and is "astray" until the next open rebuilds it. The theorems except
astray buckets and nothing else: a first reading that is wrong in both never loses a key.
The invariant has `BucketsCover`, that a deletion in progress has every matching
key still to visit (`CollectsAll`), and that buckets are what a rebuild would
make while freed bytes are intact (`ExactIfIntact`).

**Hash table** (`HashTableProofs`, from `TableAssumption`: any hash function, any first
capacity): `TypeCorrect`, `EntriesReachable` (`Reachable`), `LoadIsCounted`
(`LenCountsLive`), `GetsAnswer` (`GetsAreContents`), `ImplementsMap` (`IsAMap`).
`HashIInv` says that no key is in an array twice, that no empty slot lies on
the way from a key's hash to its slot (`OnPath`, in offsets along the probe, so
that wrap-around needs no case of its own), that `len` is the number of live slots,
and, half-way through a growth, what the two arrays have in common with the one
before (`Growth`). `LenCountsLive` includes `len * 10 < cap * 7`: that is the load
after a call, and keeps a slot that is not live for every insertion. A call
that never returns is the stutter of `IsAMap`; `tombstones` shows that it exists.

**Snapshot** (`PagedSnapshotProofs`, from `SnapshotAssumption`): `PagesAreReadable`
(`PagesHold`), `SnapshotsAreTables` (`SnapshotComplete`), `CutSnapshotsLoad`
(`AlwaysLoads`), `OnlyLongRecordsFail` (`FailsOnlyForLength`). `PagedIInv` has the
layout of the file (`Layout`: the page being filled is its last one), where
each record is (`Contents`: to come, in the buffer, or in a page before the last) and
the gap of the page (`Packed`: between its slots and its payloads, none of which
overlap). `SnapshotAssumption` asks that the encoding of a record is not empty
and that its length and a slot's fit in 16 bits together: payloads above 512 bytes
go to files (`db.c:389`), so a record is hardly longer than its key and its names, and
those come from a request or from a line of the REPL (at most 8191 bytes). Without that assumption
the sum in `page_try_insert` would wrap for lengths from 65528 to 65535, which
`ht_iter_cb_snapshot` lets through.

**Database API** (`DatabaseProofs`, from `DatabaseAssumption`: finitely many keys, and
distinct ones for the notes): `TypeCorrect`, `AcknowledgedSurvives`
(`AckedSurvives`), `AcknowledgedServed` (`AckedServed`), `NotesStayInOrder`
(`NotesInOrder`), `NextNumberIsFree` (`NextNoteIsFree`).

* `owed` has the POSTs of `/database` and `/database/notes` that were answered with
  success and not disturbed by an open REPL; what the REPL acknowledges is not in it,
  since it syncs in batches. `AckedSurvives` speaks of the logs a power loss may leave
  now. A process that
  writes may also cut or overwrite the log from its offset on, and a POST's record is
  owed from the moment it is written, before it is answered. `OwedIInv`
  therefore says that what is owed or about to be is found in every log of
  `Exposures`: each length from a ready process's offset on and, once
  synced, from `synced` on. It holds since each session's offset lies behind
  what was acknowledged before it opened.
* `AckedServed` adds to `OwedIInv` what an answer makes of a record: a document or a note
  is shown with its text if that has room (`Routable`, `Listable`), in a listing
  with room for its items (`ListRoom`).
* `NotesIInv` holds as long as there is no `disorder`: under the keys of notes lie
  notes and nothing else, and no other key is in their namespace; the snapshot with any prefix of the log has the first so many
  of them; the REPL's table has no note less than the snapshot and none that is not
  stored; and the server counts in a table that has all that is stored. That
  two prefixes of the notes together are the longer one of them (`SegmentJoins`)
  is why replaying the log over a newer snapshot leaves no gap.

**Reader and event loop** (`EventLoopProofs`, from `RoomAssumption`, `PoolAssumption`,
`FieldsAssumption`, `LoadsAssumption`, `BlankLines`): `TypeCorrect`, `StreamStaysIntact`
(`StreamIntact`), `PromptIsUnderstood` (`PromptUnderstood`), `DeathsHaveCauses`
(`DeathCauses`). The assumptions bound no request. That a head may be longer than
the buffer, or its lines longer than the pool, is part of the model: the first ends it
in "astray", the second in "dead". `Fits` is a condition of the two properties that
need it. `TypeCorrect` and `StreamStaysIntact` hold of all requests, up to the step that
writes past the buffer; no statement about the program can be made behind that step.

* `StreamIInv` locates every cell of a request: what is unsent is its end, what
  is in the socket comes before that, the buffer between its two positions
  holds the cells before those in the socket (`Held`), whatever `readline_stream`
  has moved to the front; and nothing of a client is left in the reader when the next
  is accepted (`Parsed`).
* `PromptIInv` follows a request that fits and is there when it is accepted through the
  stages of its reading (`Where`): `Untouched`, `InLines`, `NoLine` or `AtBody`, `InBody`,
  `Understands`. The pool has room for the lines because each costs no more than
  its length, and for the body because of `BodyKept`. In between, `Counted` ties the entries of the header map to the
  header lines passed so far. `PromptUnderstood` is about requests of the form
  `IsRequest`: a first line, header lines, a blank line, and a body only behind a
  `Content-Length`. `BlankLines` says that the blank line is a line of its own.

**Responses** (`ResponsesProofs`, from `HeadsFit`): `NoGapsLeft` (`NoGaps`),
`ClosedShortOnlyWhenFull` (`CutOnlyWhenFull`), for any length of file and chunk and any
socket that takes a header. `Meant` gives the answer cell by cell. `AnswerIInv` says,
while nothing was lost (`Whole`), that what was sent is the beginning of the answer,
and that the writes that are due are the cells behind it up to the place that
belongs to the file offset (`Target`, `Due`), for a video a whole number of chunks
(`Read`); when it is closed with no call fallen short, that it is the answer to what the
file gave, and that this is all of the file unless a read or `sendfile` gave out
(`Ended`); after a call that fell short, that an answer with a length ends there (`Short`). For a chunked video the first half
holds only as long as no call fell short, which is why `NoGaps` excludes it.

Assumed of the constants and not in the code: keys are finitely many (`Database`), which
holds of any run, and a socket takes at least a header (`HeadsFit`), which is a bound of
the model. The other assumptions give types, or say that a marker like `None` is
not a value.

Only model-checked: the two liveness properties, `SentIsAnswered` and
`Finishes`, since liveness under fairness is outside what the prover handles. The
four violations are counterexamples and need no proof.

## 6. Not modelled

* In `Database`: failing system calls and payloads in files (`MicroDB` has them);
  the inside of a call, so a rename and the sync of its directory are one step, and
  a truncation and its sync; the records behind bytes no replay gets over, which
  overwriting those bytes with a record of just their length would bring back; a
  power loss that gives back old bytes where a record was overwritten. A REPL
  opened with `--sync` (`MicroDB` has both modes). READ, FINDNS, FINDTYPE and COUNT
  change nothing.
* The text of JSON, `extract_json_key`, and number formatting: a listing has room
  or has not, a body names a key or is refused before the store is opened. The
  query string: `query_parse` fills a map no handler reads.
* What the program does after a read past the end of the reader's buffer (`io.c:149-150`):
  it lands on `read_pos`, `write_pos` and the frame behind them (`io.h:30-35`), which is
  undefined. The model ends there.
* What an answer contains whose JSON fields had no room: an item may lack its value or
  show uninitialised memory, and a text of the store carries no final zero byte, so
  what is shown of it may run on. `Database` only says when.
* The digits of `Content-Length`: `Content-Length:5`, without the space, loses its first
  digit, and a number beyond what `mmap` grants ends the request. A line either
  announces the length of its body or is another header.
* `crc32`: a bad checksum and a short record are the same to `wal_replay`, which
  stops; both are the partial record. Corruption of synced bytes is left out.
* Allocation failures in `microdb` (`xmalloc`), and records of 65528 bytes and more
  in pages; neither program can make one (`SnapshotAssumption`).
* Collisions of blob ids (`db_hex_id` is 96 bits of hashes and a CRC): in `MicroDB`
  two payloads of one key have two files.
* Header text, paths, MIME types, the REPL's parser, static pages: wording and
  layout. Header lines are reduced to the kinds the reader distinguishes.
* System call wrappers, start-up and assembly: their results are the
  nondeterministic choices of the other modules.
