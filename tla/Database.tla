------------------------------ MODULE Database ------------------------------
(***************************************************************************)
(* The database API of the server (database.c, called by handle_get and    *)
(* handle_post) on a store that a REPL may have open at the same time.     *)
(* Each request is a session of its own: it opens the store, makes its     *)
(* calls, closes and only then answers a POST.  The REPL keeps one session *)
(* until EXIT.  Nothing locks the log and nobody opens it with O_APPEND:   *)
(* a session goes on writing where it last stood.                          *)
(*                                                                         *)
(* MicroDB has the steps inside one call, for one process; here a call is  *)
(* one step, and what two processes can see of each other lies between the *)
(* steps: the snapshot and the log are read one after the other, and a     *)
(* compaction replaces the one before it empties the other.                *)
(***************************************************************************)
EXTENDS WalRecords, FiniteSets

CONSTANTS
  NoteKey,    \* the keys "note-1", "note-2", ... as a sequence
  Payload,    \* the text of a record
  Documents,  \* what clients send to POST /database, as <<key, body>>
  NoteTexts,  \* bodies clients send to POST /database/notes
  ReplWrites, \* what the REPL's user writes, as <<key, record>>
  ReplKeys,   \* keys the REPL's user deletes
  ListRoom,   \* how many records' JSON the meta_storage of a listing holds
  Listable,   \* texts of which two copies fit the pool of a listing's item
  Routable,   \* texts that fit the pool of an answer with one record
  SyncEvery,  \* sync_every_n (5 in db_open); a request never gets there
  MaxLog,     \* bound on the records of one log
  Faults      \* which faults happen: "kill", "power"

Namespace == {"notes", "database", "default"}

\* Keys are finitely many: wal_append_set refuses one longer than 32 bits say.
ASSUME DatabaseAssumption ==
  /\ IsFiniteSet(Key)
  /\ NoteKey \in Seq(Key)
  /\ \A i, j \in 1..Len(NoteKey) : NoteKey[i] = NoteKey[j] => i = j
  /\ Val = [ns : Namespace, text : Payload]
  /\ Documents \subseteq Key \X Payload /\ NoteTexts \subseteq Payload
  /\ ReplWrites \subseteq Key \X Val /\ ReplKeys \subseteq Key
  /\ None \notin [rec : Rec, undisturbed : BOOLEAN]
  /\ ListRoom \in Nat
  /\ Listable \subseteq Payload /\ Routable \subseteq Payload
  /\ SyncEvery \in Nat \ {0, 1}
  /\ MaxLog \in Nat
  /\ Faults \subseteq {"kill", "power"}

Proc == {"server", "repl"}

\* Where the offset of a session is: right after the at[p] records it has read
\* or written; at the end of the file, behind bytes no replay gets over; or,
\* the log having been rewritten under it, anywhere behind the first at[p].
Footing == {"sure", "behind", "adrift"}

VARIABLES
  wal,      \* the records a replay reaches
  garbled,  \* other bytes follow them
  synced,   \* records of wal known to survive a power loss
  base,     \* the snapshot
  pc,       \* where each process stands
  view,     \* the primary table of its session
  at,       \* records before its offset in the log
  footing,  \* what is certain of that offset
  ops,      \* its ops_since_sync
  stale,    \* the processes under whose open session the log was emptied
  request,  \* the record the server has written for the POST in hand, or None
  owed,     \* per key, what an undisturbed POST was told is stored
  disorder  \* a note key or the namespace of notes was used otherwise, or
            \* records overwritten

store == <<wal, garbled, synced, base>>
offsets == <<at, footing>>
sessions == <<pc, view, offsets, ops, stale>>
ghosts == <<owed, disorder>>
vars == <<store, sessions, request, ghosts>>

-----------------------------------------------------------------------------
IsNoteKey(k) == \E i \in 1..Len(NoteKey) : NoteKey[i] = k

InNamespace(m, n) == {k \in Key : m[k] # None /\ m[k].ns = n}

\* What count_record counts.
Notes(m) == InNamespace(m, "notes")

\* Mutant of NoteNumber: the selector of the count names no namespace.
NoteNumberCountsAll(m) == Cardinality({k \in Key : m[k] # None}) + 1
\* Mutant of NoteNumber: the last number instead of the one after it.
NoteNumberOfLast(m) == IF Notes(m) = {} THEN 1 ELSE Cardinality(Notes(m))

NoteNumber(m) == Cardinality(Notes(m)) + 1

\* Process p stands where the next record belongs.
AtEnd(p) == footing[p] = "sure" /\ at[p] = Len(wal) /\ ~garbled

Smaller(a, b) == IF a < b THEN a ELSE b

Init ==
  /\ wal = <<>> /\ garbled = FALSE /\ synced = 0 /\ base = EmptyMap
  /\ pc = [p \in Proc |-> "closed"]
  /\ view = [p \in Proc |-> EmptyMap]
  /\ at = [p \in Proc |-> 0]
  /\ footing = [p \in Proc |-> "sure"]
  /\ ops = [p \in Proc |-> 0]
  /\ stale = {} /\ request = None
  /\ owed = EmptyMap /\ disorder = FALSE

-----------------------------------------------------------------------------
(* db_open, in the two halves another process can get between *)

\* The memory of a session goes with it.
LeaveMemory(p) ==
  /\ pc' = [pc EXCEPT ![p] = "closed"]
  /\ view' = [view EXCEPT ![p] = EmptyMap]
  /\ ops' = [ops EXCEPT ![p] = 0]
  /\ stale' = stale \ {p}

Leave(p) ==
  /\ LeaveMemory(p)
  /\ at' = [at EXCEPT ![p] = 0]
  /\ footing' = [footing EXCEPT ![p] = "sure"]

LoadBase(p) ==
  /\ pc[p] = "closed"
  /\ pc' = [pc EXCEPT ![p] = "loaded"]
  /\ view' = [view EXCEPT ![p] = base]
  /\ UNCHANGED <<store, offsets, ops, stale, request, ghosts>>

\* Mutant of ReplayLog: the log is read only where there is no snapshot.
ReplayLogUnlessBase(p) ==
  /\ pc[p] = "loaded"
  /\ pc' = [pc EXCEPT ![p] = "ready"]
  /\ view' = [view EXCEPT ![p] = IF @ = EmptyMap THEN Replayed(@, wal) ELSE @]
  /\ at' = [at EXCEPT ![p] = Len(wal)]
  /\ footing' = [footing EXCEPT ![p] = IF garbled THEN "behind" ELSE "sure"]
  /\ UNCHANGED <<store, ops, stale, request, ghosts>>

\* Replay, then lseek to the end of the file.
ReplayLog(p) ==
  /\ pc[p] = "loaded"
  /\ pc' = [pc EXCEPT ![p] = "ready"]
  /\ view' = [view EXCEPT ![p] = Replayed(@, wal)]
  /\ at' = [at EXCEPT ![p] = Len(wal)]
  /\ footing' = [footing EXCEPT ![p] = IF garbled THEN "behind" ELSE "sure"]
  /\ UNCHANGED <<store, ops, stale, request, ghosts>>

\* The bytes behind the records are long enough for a header and are none:
\* db_open returns -8, the server answers 500, the REPL ends.
RejectLog(p) ==
  /\ pc[p] = "loaded" /\ garbled
  /\ Leave(p)
  /\ UNCHANGED <<store, request, ghosts>>

-----------------------------------------------------------------------------
(* One record appended where the session stands *)

\* The log with r written behind its first n records: over later ones, up to
\* the beginning of one of them or into one, or over all that follows.
WrittenOver(n, r) ==
  LET head == Append(FirstRecs(wal, n), r) IN
  IF n = Len(wal) /\ ~garbled THEN {[recs |-> head, rest |-> FALSE]}
  ELSE {[recs |-> head \o SubSeq(wal, j, Len(wal)), rest |-> garbled] :
          j \in n + 2..Len(wal) + 1}
       \cup {[recs |-> head, rest |-> g] : g \in BOOLEAN}

\* After how many records the next bytes of process p may land.
Landing(p) == IF footing[p] = "adrift" THEN at[p]..Len(wal) ELSE {at[p]}

\* The log after process p wrote r.
AfterAppend(p, r) ==
  IF footing[p] = "behind" THEN {[recs |-> wal, rest |-> TRUE]}
  ELSE (UNION {WrittenOver(n, r) : n \in Landing(p)}) \cup
       {[recs |-> FirstRecs(wal, n), rest |-> TRUE] :
          n \in {m \in Landing(p) : footing[p] = "adrift"}}

\* What p's bytes do to the offset of a session q that is not p.
Displaces(p, q) ==
  footing[p] # "behind" /\ (footing[q] # "sure" \/ at[q] > at[p])

Displaced(p) ==
  [q \in Proc |-> IF q # p /\ Displaces(p, q) THEN "adrift" ELSE footing[q]]
Lowered(p) ==
  [q \in Proc |-> IF q # p /\ Displaces(p, q) THEN Smaller(at[q], at[p]) ELSE at[q]]

DbWrite(p, r, sync) ==
  /\ pc[p] = "ready" /\ Len(wal) < MaxLog
  /\ \E l \in AfterAppend(p, r) :
       /\ wal' = l.recs /\ garbled' = l.rest
       /\ synced' = IF sync THEN Len(wal') ELSE Smaller(synced, at[p])
  /\ view' = [view EXCEPT ![p] = Applied(@, r)]
  /\ at' = [Lowered(p) EXCEPT ![p] = IF footing[p] = "sure" THEN @ + 1 ELSE @]
  /\ footing' = Displaced(p)
  /\ UNCHANGED <<base, stale>>

-----------------------------------------------------------------------------
(* Requests *)

\* db_write of a request, and what its answer will stand for.
Post(r) ==
  /\ DbWrite("server", r, FALSE)
  /\ pc' = [pc EXCEPT !["server"] = "written"]
  /\ ops' = [ops EXCEPT !["server"] = 1]
  /\ request' = [rec |-> r, undisturbed |-> pc["repl"] = "closed" /\ AtEnd("server")]
  /\ owed' = [owed EXCEPT ![r.key] = None]

DatabaseSet(k, t) ==
  /\ Post([key |-> k, val |-> [ns |-> "database", text |-> t]])
  /\ disorder' = (disorder \/ IsNoteKey(k) \/ ~AtEnd("server"))

DatabaseAddNote(t) ==
  LET n == NoteNumber(view["server"]) IN
  /\ n <= Len(NoteKey)
  /\ Post([key |-> NoteKey[n], val |-> [ns |-> "notes", text |-> t]])
  /\ disorder' = (disorder \/ "server" \in stale \/ ~AtEnd("server"))

\* Mutant of DbCloseAfterWrite: the file is closed, not synced.
DbCloseNoSync ==
  /\ pc["server"] = "written"
  /\ pc' = [pc EXCEPT !["server"] = "written out"]
  /\ ops' = [ops EXCEPT !["server"] = 0]
  /\ UNCHANGED <<store, view, offsets, stale, request, ghosts>>

\* fsync, since ops_since_sync > 0; its result is ignored.
DbCloseAfterWrite ==
  /\ pc["server"] = "written"
  /\ synced' = Len(wal)
  /\ pc' = [pc EXCEPT !["server"] = "written out"]
  /\ ops' = [ops EXCEPT !["server"] = 0]
  /\ UNCHANGED <<wal, garbled, base, view, offsets, stale, request, ghosts>>

\* write_json_reply(OK, key)
Reply ==
  /\ pc["server"] = "written out"
  /\ owed' = IF request.undisturbed
             THEN [owed EXCEPT ![request.rec.key] = request.rec.val] ELSE owed
  /\ request' = None
  /\ Leave("server")
  /\ UNCHANGED <<store, disorder>>

\* What the field "value" of an answer tells of record r.  json_add_object and
\* json_add_string count a field before they copy its text, and nobody looks at
\* their result: without room for the text the field holds whatever its memory
\* does, and we say None.
Value(r, roomy) == IF r.text \in roomy THEN r ELSE None

\* GET /database/{id}: the record under that key if it is one of the API's,
\* or 404.
RouteAnswer(m, id) ==
  IF id \in InNamespace(m, "database")
  THEN [found |-> TRUE, value |-> Value(m[id], Routable)]
  ELSE [found |-> FALSE, value |-> None]

\* GET /database/namespace/{n}, GET /database/notes: an item for every record
\* of n.  The text of all of them is one more field without room, past ListRoom.
ListAnswer(m, n) ==
  IF Cardinality(InNamespace(m, n)) <= ListRoom
  THEN [k \in InNamespace(m, n) |-> Value(m[k], Listable)] ELSE None

\* A GET answers from the table and closes: ops_since_sync = 0, no fsync.
DoneReading ==
  /\ pc["server"] = "ready"
  /\ Leave("server")
  /\ UNCHANGED <<store, request, ghosts>>

-----------------------------------------------------------------------------
(* The REPL *)

\* A record that takes part in the numbering of notes though no POST to
\* /database/notes made it.
MeddlesWithNotes(r) == IsNoteKey(r.key) \/ (r.val # None /\ r.val.ns = "notes")

\* Mutant of ReplWrite: the count of unsynced operations is not reset.
ReplWriteKeepsCount(r) ==
  LET due == ops["repl"] + 1 >= SyncEvery IN
  /\ DbWrite("repl", r, due)
  /\ ops' = [ops EXCEPT !["repl"] = @ + 1]
  /\ owed' = [owed EXCEPT ![r.key] = None]
  /\ request' = IF request # None /\ request.rec.key = r.key
                THEN [request EXCEPT !.undisturbed = FALSE] ELSE request
  /\ disorder' = (disorder \/ MeddlesWithNotes(r) \/ ~AtEnd("repl"))
  /\ UNCHANGED pc

\* db_write or db_delete_where of one key, and db_sync_if_needed.
ReplWrite(r) ==
  LET due == ops["repl"] + 1 >= SyncEvery IN
  /\ DbWrite("repl", r, due)
  /\ ops' = [ops EXCEPT !["repl"] = IF due THEN 0 ELSE @ + 1]
  /\ owed' = [owed EXCEPT ![r.key] = None]
  /\ request' = IF request # None /\ request.rec.key = r.key
                THEN [request EXCEPT !.undisturbed = FALSE] ELSE request
  /\ disorder' = (disorder \/ MeddlesWithNotes(r) \/ ~AtEnd("repl"))
  /\ UNCHANGED pc

\* WRITE names a namespace, SET is a write into the default one.
ReplSet(k, v) == ReplWrite([key |-> k, val |-> v])

ReplDelete(k) == view["repl"][k] # None /\ ReplWrite([key |-> k, val |-> None])

\* db_compact up to the sync of the directory.
CompactRename ==
  /\ pc["repl"] = "ready"
  /\ synced' = IF ops["repl"] > 0 THEN Len(wal) ELSE synced
  /\ ops' = [ops EXCEPT !["repl"] = 0]
  /\ base' = view["repl"]
  /\ pc' = [pc EXCEPT !["repl"] = "renamed"]
  /\ UNCHANGED <<wal, garbled, view, offsets, stale, request, ghosts>>

CompactTruncate ==
  /\ pc["repl"] = "renamed"
  /\ wal' = <<>> /\ garbled' = FALSE /\ synced' = 0
  /\ at' = [p \in Proc |-> 0]
  /\ footing' = [repl |-> "sure",
                 server |-> IF at["server"] = 0 THEN footing["server"] ELSE "adrift"]
  /\ stale' = IF pc["server"] \in {"loaded", "ready"} THEN stale \cup {"server"} ELSE stale
  /\ pc' = [pc EXCEPT !["repl"] = "ready"]
  /\ UNCHANGED <<base, view, ops, request, ghosts>>

ReplExit ==
  /\ pc["repl"] = "ready"
  /\ synced' = IF ops["repl"] > 0 THEN Len(wal) ELSE synced
  /\ Leave("repl")
  /\ UNCHANGED <<wal, garbled, base, request, ghosts>>

-----------------------------------------------------------------------------
(* Faults *)

\* Inside an append: a part of the record is there, over what was.
TornAppend(p) ==
  /\ pc[p] = "ready" /\ Len(wal) < MaxLog
  /\ \E n \in Landing(p) :
       /\ wal' = FirstRecs(wal, n) /\ synced' = Smaller(synced, n)
       /\ disorder' = (disorder \/ n # Len(wal))
  /\ garbled' = TRUE
  /\ at' = [Lowered(p) EXCEPT ![p] = 0]
  /\ footing' = [Displaced(p) EXCEPT ![p] = "sure"]

Kill(p) ==
  /\ "kill" \in Faults /\ pc[p] # "closed"
  /\ \/ TornAppend(p)
     \/ /\ at' = [at EXCEPT ![p] = 0] /\ footing' = [footing EXCEPT ![p] = "sure"]
        /\ UNCHANGED <<wal, garbled, synced, disorder>>
  /\ LeaveMemory(p)
  /\ request' = IF p = "server" THEN None ELSE request
  /\ UNCHANGED <<base, owed>>

PowerLoss ==
  /\ "power" \in Faults
  /\ \E n \in synced..Len(wal) :
       /\ wal' = FirstRecs(wal, n) /\ synced' = n
       /\ garbled' \in IF n = Len(wal) THEN {garbled, FALSE} ELSE BOOLEAN
  /\ pc' = [p \in Proc |-> "closed"]
  /\ view' = [p \in Proc |-> EmptyMap]
  /\ at' = [p \in Proc |-> 0]
  /\ footing' = [p \in Proc |-> "sure"]
  /\ ops' = [p \in Proc |-> 0]
  /\ stale' = {} /\ request' = None
  /\ UNCHANGED <<base, ghosts>>

-----------------------------------------------------------------------------
Next ==
  \/ \E p \in Proc : LoadBase(p) \/ ReplayLog(p) \/ RejectLog(p) \/ Kill(p)
  \/ \E d \in Documents : DatabaseSet(d[1], d[2])
  \/ \E t \in NoteTexts : DatabaseAddNote(t)
  \/ DbCloseAfterWrite \/ Reply \/ DoneReading
  \/ \E w \in ReplWrites : ReplSet(w[1], w[2])
  \/ \E k \in ReplKeys : ReplDelete(k)
  \/ CompactRename \/ CompactTruncate \/ ReplExit
  \/ PowerLoss

Spec == Init /\ [][Next]_vars

-----------------------------------------------------------------------------
PCs == {"closed", "loaded", "ready", "written", "written out", "renamed"}

TypeOK ==
  /\ wal \in Seq(Rec) /\ garbled \in BOOLEAN /\ synced \in 0..Len(wal) /\ base \in Map
  /\ pc \in [Proc -> PCs] /\ view \in [Proc -> Map]
  /\ at \in [Proc -> 0..Len(wal)] /\ footing \in [Proc -> Footing]
  /\ ops \in [Proc -> 0..SyncEvery]
  /\ stale \subseteq Proc
  /\ request \in [rec : Rec, undisturbed : BOOLEAN] \cup {None}
  /\ owed \in Map /\ disorder \in BOOLEAN

\* Map m has what the clients are owed.
Honours(m) == \A k \in Key : owed[k] # None => m[k] = owed[k]

\* A record the server has acknowledged is in every map a crash may leave,
\* whatever sessions come and go, overlap or are killed after it: the fsync
\* of db_close precedes the answer.  The exceptions are the ones `owed'
\* leaves out: it was appended while a REPL had the store open, or behind
\* bytes no replay gets over, or somebody has written the same key since.
AckedSurvives ==
  \A n \in synced..Len(wal) : Honours(Replayed(base, FirstRecs(wal, n)))

\* A GET on the session with table m tells it.  A document is found, with its
\* text if that has room; a note is an item, with its text if that has room,
\* of a listing that has room for its items.
Shows(m, k) ==
  IF owed[k].ns = "database"
  THEN LET answer == RouteAnswer(m, k)
       IN answer.found /\ (owed[k].text \in Routable => answer.value = owed[k])
  ELSE LET items == ListAnswer(m, "notes")
       IN items # None =>
            k \in DOMAIN items /\ (owed[k].text \in Listable => items[k] = owed[k])

\* What is owed a later GET shows, unless the log was emptied between its
\* session's reading of the snapshot and its reading of the log, and the REPL
\* prints.  HTTP.md promises "items" with all the records; of an answer whose
\* texts overflow a pool we can only say what Shows does.
AckedServed ==
  \A k \in Key : owed[k] # None =>
    /\ pc["server"] = "ready" /\ "server" \notin stale => Shows(view["server"], k)
    /\ pc["repl"] = "ready" => view["repl"][k] = owed[k]

\* The notes a crash may leave are numbered without a gap as long as nobody
\* uses their keys or their namespace otherwise: database_add_note counts, and
\* a crash takes notes from the end only.
NotesInOrder ==
  ~disorder =>
    \A n \in synced..Len(wal) :
      LET notes == Notes(Replayed(base, FirstRecs(wal, n)))
      IN notes = {NoteKey[i] : i \in 1..Cardinality(notes)}

\* So the number the next note gets is free, in the log as it is now and not
\* only in the table the server counted in.
NextNoteIsFree ==
  pc["server"] = "ready" /\ ~disorder /\ "server" \notin stale /\ AtEnd("server") =>
    LET n == NoteNumber(view["server"])
    IN n <= Len(NoteKey) => Replayed(base, wal)[NoteKey[n]] = None
=============================================================================
