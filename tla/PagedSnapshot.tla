--------------------------- MODULE PagedSnapshot ---------------------------
(***************************************************************************)
(* How db_write_snapshot lays a table out in a paged file (paged_file.c,   *)
(* page.c) and how mmap_load_into_ht reads it back.  MicroDB takes the     *)
(* whole of it as one step, SnapshotWritten, a failure that is noticed as  *)
(* DbCompactFails, and one that is not as a choice of its Snapshots.       *)
(*                                                                         *)
(* A record is its identity and the length of its encoding; the lengths    *)
(* are those of the program and its 16 bit arithmetic is kept.             *)
(***************************************************************************)
EXTENDS Naturals, Sequences, FiniteSets

CONSTANTS
  Records,   \* the entries a table may hold
  RecLen     \* the length ht_iter_cb_snapshot computes for each of them

PageSize == 4096
HeaderBytes == 16
SlotBytes == 8
Word == 65536

ASSUME SnapshotAssumption ==
  /\ RecLen \in [Records -> Nat \ {0}]
  /\ \A r \in Records : RecLen[r] < Word - SlotBytes

VARIABLES
  table,      \* the live entries when the snapshot is taken
  ioFails,    \* system calls may fail in this run
  file,       \* the data pages on disk: the slots of pages 1, 2, ...
  diskCount,  \* page_count in the superblock on disk
  count,      \* page_count in memory
  pid,        \* the page being filled, 0 for none
  page,       \* the slots in its buffer: where each record it holds begins
  freeStart, freeEnd,  \* the gap of the buffer between slots and payloads
  todo,       \* entries the iteration of the table has still to visit
  pc          \* "open", "fill", "sync"; "ok" and "failed" are results

buffer == <<page, freeStart, freeEnd>>
given == <<table, ioFails>>
vars == <<given, file, diskCount, count, pid, buffer, todo, pc>>

\* A page with no record in it (page_init).
NoSlots == [r \in {} |-> 0]

Init ==
  /\ table \in SUBSET Records /\ ioFails \in BOOLEAN
  /\ file = <<>> /\ diskCount = 0 /\ count = 0 /\ pid = 0
  /\ page = NoSlots /\ freeStart = 0 /\ freeEnd = 0
  /\ todo = table /\ pc = "open"

\* pf_open with create: a file of one superblock, on disk.
PfOpen ==
  /\ pc = "open"
  /\ count' = 1 /\ diskCount' = 1 /\ pc' = "fill"
  /\ UNCHANGED <<given, file, pid, buffer, todo>>

\* An open, a write or a sync that is checked fails; what the abandoned file
\* holds does not matter, db_compact unlinks it.
CallFails ==
  /\ pc \in {"open", "fill", "sync"} /\ ioFails
  /\ pc' = "failed"
  /\ UNCHANGED <<given, file, diskCount, count, pid, buffer, todo>>

\* Does a record of n bytes go in between?  The sum wraps at 16 bits.
Fits(n, start, end) == start + ((SlotBytes + n) % Word) <= end

\* Mutant of Insert: the slot of the record is not reserved.
InsertSlotless(r, start, end, held) ==
  /\ freeStart' = start /\ freeEnd' = (end - RecLen[r]) % Word
  /\ page' = [s \in DOMAIN held \cup {r} |-> IF s = r THEN freeEnd' ELSE held[s]]

\* page_try_insert of a record that fits: payload from the end of the gap,
\* slot from its start.
Insert(r, start, end, held) ==
  /\ freeStart' = start + SlotBytes /\ freeEnd' = (end - RecLen[r]) % Word
  /\ page' = [s \in DOMAIN held \cup {r} |-> IF s = r THEN freeEnd' ELSE held[s]]

\* The file after the buffer R became page p of it (pf_write_page).
Written(p, R) == IF p > Len(file) THEN Append(file, R) ELSE [file EXCEPT ![p] = R]

\* Mutant of Allocate: the new page is only written once it is full.
AllocateUnwritten(flushed) ==
  /\ pid' = count /\ count' = count + 1
  /\ file' = flushed
  /\ diskCount' \in IF ioFails THEN {diskCount, count + 1} ELSE {count + 1}

\* pf_alloc_page: the new page goes to disk empty, the superblock after it;
\* a superblock that cannot be written goes unnoticed.  The free list is
\* always empty here, so the page is the next one of the file.
Allocate(flushed) ==
  /\ pid' = count /\ count' = count + 1
  /\ file' = Append(flushed, NoSlots)
  /\ diskCount' \in IF ioFails THEN {diskCount, count + 1} ELSE {count + 1}

\* The first record takes the first page.
AddToFirstPage(r) ==
  /\ pc = "fill" /\ r \in todo /\ pid = 0
  /\ Fits(RecLen[r], HeaderBytes, PageSize)
  /\ Allocate(file)
  /\ Insert(r, HeaderBytes, PageSize, NoSlots)
  /\ todo' = todo \ {r} /\ UNCHANGED <<given, pc>>

AddToPage(r) ==
  /\ pc = "fill" /\ r \in todo /\ pid # 0
  /\ Fits(RecLen[r], freeStart, freeEnd)
  /\ Insert(r, freeStart, freeEnd, page)
  /\ todo' = todo \ {r}
  /\ UNCHANGED <<given, file, diskCount, count, pid, pc>>

\* Mutant of AddToNextPage: the full page is not written back.
AddToNextPageUnflushed(r) ==
  /\ pc = "fill" /\ r \in todo /\ pid # 0
  /\ ~Fits(RecLen[r], freeStart, freeEnd) /\ Fits(RecLen[r], HeaderBytes, PageSize)
  /\ Allocate(file)
  /\ Insert(r, HeaderBytes, PageSize, NoSlots)
  /\ todo' = todo \ {r} /\ UNCHANGED <<given, pc>>

\* The record does not fit: the page is flushed and the next one begun.
AddToNextPage(r) ==
  /\ pc = "fill" /\ r \in todo /\ pid # 0
  /\ ~Fits(RecLen[r], freeStart, freeEnd) /\ Fits(RecLen[r], HeaderBytes, PageSize)
  /\ Allocate(Written(pid, page))
  /\ Insert(r, HeaderBytes, PageSize, NoSlots)
  /\ todo' = todo \ {r} /\ UNCHANGED <<given, pc>>

\* Mutant of TooLong: a record that would just fit is refused.
TooLongByOne(r) ==
  /\ pc = "fill" /\ r \in todo
  /\ HeaderBytes + SlotBytes + RecLen[r] >= PageSize
  /\ pc' = "failed"
  /\ UNCHANGED <<given, file, diskCount, count, pid, buffer, todo>>

\* A record no page can hold: ht_iter_cb_snapshot fails, and with it every
\* compaction as long as the record lives.
TooLong(r) ==
  /\ pc = "fill" /\ r \in todo
  /\ ~Fits(RecLen[r], HeaderBytes, PageSize)
  /\ pc' = "failed"
  /\ UNCHANGED <<given, file, diskCount, count, pid, buffer, todo>>

\* All entries are in: snapshot_flush_page writes the last page back.
Flush ==
  /\ pc = "fill" /\ todo = {}
  /\ file' = IF pid = 0 THEN file ELSE Written(pid, page)
  /\ pc' = "sync"
  /\ UNCHANGED <<given, diskCount, count, pid, buffer, todo>>

\* pf_sync and pf_close.
Sync ==
  /\ pc = "sync"
  /\ pc' = "ok"
  /\ UNCHANGED <<given, file, diskCount, count, pid, buffer, todo>>

Next ==
  \/ PfOpen \/ CallFails \/ Flush \/ Sync
  \/ \E r \in Records :
       AddToFirstPage(r) \/ AddToPage(r) \/ AddToNextPage(r) \/ TooLong(r)

Spec == Init /\ [][Next]_vars

-----------------------------------------------------------------------------
\* decode_record accepts what the slots of a page point at: every payload lies
\* inside the page, behind the slots and apart from the other payloads.  Bytes
\* that belong to two of them spoil a checksum.
Readable(R) ==
  \A r \in DOMAIN R :
    /\ HeaderBytes + Cardinality(DOMAIN R) * SlotBytes <= R[r]
    /\ R[r] + RecLen[r] <= PageSize
    /\ \A s \in DOMAIN R \ {r} : R[r] + RecLen[r] <= R[s] \/ R[s] + RecLen[s] <= R[r]

\* mmap_load_into_ht of the file: the records of the pages the superblock
\* counts, unless it counts more than there are or one cannot be read.
LoadFails ==
  \/ diskCount > Len(file) + 1
  \/ \E p \in 1..(diskCount - 1) : ~Readable(file[p])
Loaded == UNION {DOMAIN file[p] : p \in 1..(diskCount - 1)}

\* The buffer and every page on disk can be read back, whichever records the
\* iteration brought in whichever order: no payload reaches into the slots that
\* came after it, and 16 bits never wrap.
PagesHold == \A R \in {page} \cup {file[p] : p \in DOMAIN file} : Readable(R)

\* A snapshot that reports success loads, as the table it was made of: each
\* page written back, none written twice, the superblock counting them all.
\* Where the superblock on disk is one that an ignored write left behind, it
\* loads as part of the table, which is what MicroDB's Snapshots allows for.
SnapshotComplete ==
  pc = "ok" =>
    /\ ~LoadFails /\ Loaded \subseteq table
    /\ diskCount = count => Loaded = table

\* The superblock never counts a page that has not reached the file, so the
\* file of a snapshot cut short at any point still loads.
AlwaysLoads == pc # "open" => ~LoadFails

\* Without I/O errors a snapshot fails only for a record that fits no page.
FailsOnlyForLength ==
  pc = "failed" /\ ~ioFails =>
    \E r \in table : HeaderBytes + SlotBytes + RecLen[r] > PageSize
=============================================================================
