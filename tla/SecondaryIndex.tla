-------------------------- MODULE SecondaryIndex --------------------------
(***************************************************************************)
(* The namespace and content type indexes of an open microdb session       *)
(* (db.c): one bucket of keys per name, kept by db_write and               *)
(* db_delete_where beside the primary table and rebuilt by db_open.        *)
(*                                                                         *)
(* Both writers unindex a record through pointers into a value that        *)
(* ht_set or ht_del has just freed.  index_bucket_remove reads the name    *)
(* once to find a bucket and, past an allocation and a copy that may reuse *)
(* those bytes, again to write the bucket back: either reading gives       *)
(* whatever the bytes spell by then.  `intact' says that this build of the *)
(* program still finds the old bytes there.                                *)
(* What a reopened store serves is the subject of MicroDB: the same table. *)
(***************************************************************************)
CONSTANTS
  Key, Namespace, ContentType,
  None   \* no record, no selector field, no key being deleted

ASSUME NoneIsOutside == None \notin Key \cup Namespace \cup ContentType

Record == [ns : Namespace, ct : ContentType]

ASSUME NoneIsNoRecord == None \notin Record

\* db_selector_t: a field that is None does not constrain.
Selector ==
  [key : Key \cup {None}, ns : Namespace \cup {None}, ct : ContentType \cup {None}]

VARIABLES
  index,    \* the primary table: the record of each key, or None
  nsIndex,  \* namespace_index: the keys of each bucket
  ctIndex,  \* content_type_index
  nsAstray, \* history: the buckets written over with another's keys since the
  ctAstray, \* last rebuild, because the second reading named them
  intact,   \* freed bytes still spell what they spelled
  sel,      \* the selector of the running db_delete_where, or None
  todo      \* the keys it has collected and not yet visited

buckets == <<nsIndex, ctIndex, nsAstray, ctAstray>>
vars == <<index, buckets, intact, sel, todo>>

Live == {k \in Key : index[k] # None}

\* record_matches_selector
Matches(k, r, s) ==
  s.key \in {None, k} /\ s.ns \in {None, r.ns} /\ s.ct \in {None, r.ct}

Matching(s) == {k \in Live : Matches(k, index[k], s)}

\* The bucket db_collect_keys walks: the namespace is preferred.
Bucket(s) == IF s.ns # None THEN nsIndex[s.ns] ELSE ctIndex[s.ct]

ByBucket(s) == s.key = None /\ (s.ns # None \/ s.ct # None)

\* That bucket holds the keys of another.
Astray(s) == IF s.ns # None THEN s.ns \in nsAstray ELSE s.ct \in ctAstray

\* db_collect_candidate_cb finds a key of the bucket missing from the table.
CollectFails(s) == ByBucket(s) /\ ~(Bucket(s) \subseteq Live)

\* Mutant of Collected: the bucket is trusted.
CollectedUnfiltered(s) ==
  IF s.key # None THEN {s.key}
  ELSE IF ByBucket(s) THEN Bucket(s) \cap Live ELSE Matching(s)

\* Mutant of Collected: a selector of neither field is taken to have a key.
CollectedByNullKey(s) ==
  IF s.ns = None /\ s.ct = None THEN {s.key}
  ELSE IF ByBucket(s) THEN Bucket(s) \cap Matching(s) ELSE Matching(s)

\* The keys db_collect_keys pushes: the key itself, whether it exists or not,
\* the matching keys of the bucket, or the matching keys of the table.
Collected(s) ==
  IF s.key # None THEN {s.key}
  ELSE IF ByBucket(s) THEN Bucket(s) \cap Matching(s) ELSE Matching(s)

-----------------------------------------------------------------------------
\* What the two readings of the freed `name' may give: each a name in use, or
\* none of them.
Readings(name, names) ==
  IF intact THEN {<<name, name>>} ELSE (names \cup {None}) \X (names \cup {None})

\* index_bucket_remove finds the key in the bucket of its first reading ...
Removes(b, read, k) == read[1] \in DOMAIN b /\ k \in b[read[1]]

\* ... and stores what is left of it as the bucket of its second.
Without(b, read, k) ==
  IF Removes(b, read, k) /\ read[2] \in DOMAIN b
  THEN [b EXCEPT ![read[2]] = b[read[1]] \ {k}]
  ELSE b

\* The bucket that is thereby lost.
Lost(b, read, k) ==
  IF Removes(b, read, k) THEN (DOMAIN b \cap {read[2]}) \ {read[1]} ELSE {}

\* index_bucket_add
With(b, name, k) == [b EXCEPT ![name] = @ \cup {k}]

\* The buckets db_unindex_record loses.
Loses(k, ns, ct) ==
  /\ nsAstray' = nsAstray \cup Lost(nsIndex, ns, k)
  /\ ctAstray' = ctAstray \cup Lost(ctIndex, ct, k)

Init ==
  /\ index = [k \in Key |-> None]
  /\ nsIndex = [n \in Namespace |-> {}] /\ ctIndex = [c \in ContentType |-> {}]
  /\ nsAstray = {} /\ ctAstray = {}
  /\ intact \in BOOLEAN
  /\ sel = None /\ todo = {}

\* Mutant of DbWrite: the new record is indexed before the old one is removed.
DbWriteIndexesFirst(k, r) ==
  /\ sel = None
  /\ index' = [index EXCEPT ![k] = r]
  /\ \/ /\ index[k] = None
        /\ nsIndex' = With(nsIndex, r.ns, k) /\ ctIndex' = With(ctIndex, r.ct, k)
        /\ UNCHANGED <<nsAstray, ctAstray>>
     \/ /\ index[k] # None
        /\ \E n \in Readings(index[k].ns, Namespace), c \in Readings(index[k].ct, ContentType) :
             /\ nsIndex' = Without(With(nsIndex, r.ns, k), n, k)
             /\ ctIndex' = Without(With(ctIndex, r.ct, k), c, k)
             /\ Loses(k, n, c)
  /\ UNCHANGED <<intact, sel, todo>>

\* db_write once the record is in the log: ht_set, db_unindex_record of what
\* it replaced, db_index_record.
DbWrite(k, r) ==
  /\ sel = None
  /\ index' = [index EXCEPT ![k] = r]
  /\ \/ /\ index[k] = None
        /\ nsIndex' = With(nsIndex, r.ns, k) /\ ctIndex' = With(ctIndex, r.ct, k)
        /\ UNCHANGED <<nsAstray, ctAstray>>
     \/ /\ index[k] # None
        /\ \E n \in Readings(index[k].ns, Namespace), c \in Readings(index[k].ct, ContentType) :
             /\ nsIndex' = With(Without(nsIndex, n, k), r.ns, k)
             /\ ctIndex' = With(Without(ctIndex, c, k), r.ct, k)
             /\ Loses(k, n, c)
  /\ UNCHANGED <<intact, sel, todo>>

\* Collecting the keys fails the whole call before it deletes anything.
DbDeleteWhere(s) ==
  /\ sel = None /\ ~CollectFails(s)
  /\ sel' = s /\ todo' = Collected(s)
  /\ UNCHANGED <<index, buckets, intact>>

DeleteSkips(k) ==
  /\ k \in todo /\ k \notin Matching(sel)
  /\ todo' = todo \ {k}
  /\ UNCHANGED <<index, buckets, intact, sel>>

\* Mutant of DeleteRecord: only the primary table and one index are kept.
DeleteRecordKeepsType(k) ==
  /\ k \in todo /\ k \in Matching(sel)
  /\ index' = [index EXCEPT ![k] = None]
  /\ \E n \in Readings(index[k].ns, Namespace) :
       /\ nsIndex' = Without(nsIndex, n, k)
       /\ nsAstray' = nsAstray \cup Lost(nsIndex, n, k)
  /\ todo' = todo \ {k}
  /\ UNCHANGED <<ctIndex, ctAstray, intact, sel>>

DeleteRecord(k) ==
  /\ k \in todo /\ k \in Matching(sel)
  /\ index' = [index EXCEPT ![k] = None]
  /\ \E n \in Readings(index[k].ns, Namespace), c \in Readings(index[k].ct, ContentType) :
       /\ nsIndex' = Without(nsIndex, n, k)
       /\ ctIndex' = Without(ctIndex, c, k)
       /\ Loses(k, n, c)
  /\ todo' = todo \ {k}
  /\ UNCHANGED <<intact, sel>>

\* The callback or the append fails and the rest stays, or the sync does
\* once a record is gone, the last one perhaps.
DeleteAborts ==
  /\ sel # None
  /\ sel' = None /\ todo' = {}
  /\ UNCHANGED <<index, buckets, intact>>

DeleteDone ==
  /\ sel # None /\ todo = {}
  /\ sel' = None
  /\ UNCHANGED <<index, buckets, intact, todo>>

\* Mutant of Reopen: only the namespaces are rebuilt.
ReopenHalf ==
  /\ nsIndex' = [n \in Namespace |-> {k \in Live : index[k].ns = n}]
  /\ ctIndex' = [c \in ContentType |-> {}]
  /\ nsAstray' = {} /\ ctAstray' = {}
  /\ sel' = None /\ todo' = {}
  /\ UNCHANGED <<index, intact>>

\* The session ends, in the middle of a call if the process is killed, and
\* db_open rebuilds both indexes from the table (db_rebuild_indexes).
Reopen ==
  /\ nsIndex' = [n \in Namespace |-> {k \in Live : index[k].ns = n}]
  /\ ctIndex' = [c \in ContentType |-> {k \in Live : index[k].ct = c}]
  /\ nsAstray' = {} /\ ctAstray' = {}
  /\ sel' = None /\ todo' = {}
  /\ UNCHANGED <<index, intact>>

Next ==
  \/ \E k \in Key, r \in Record : DbWrite(k, r)
  \/ \E s \in Selector : DbDeleteWhere(s)
  \/ \E k \in Key : DeleteSkips(k) \/ DeleteRecord(k)
  \/ DeleteAborts \/ DeleteDone \/ Reopen

Spec == Init /\ [][Next]_vars

-----------------------------------------------------------------------------
TypeOK ==
  /\ index \in [Key -> Record \cup {None}]
  /\ nsIndex \in [Namespace -> SUBSET Key] /\ ctIndex \in [ContentType -> SUBSET Key]
  /\ nsAstray \subseteq Namespace /\ ctAstray \subseteq ContentType
  /\ intact \in BOOLEAN
  /\ sel \in Selector \cup {None} /\ todo \subseteq Key

\* A key can be missing from the bucket of its own namespace or content type
\* only once that bucket was written over with another's keys: a wrong first
\* reading alone leaves keys behind and loses none, since db_write removes
\* first and adds last.
BucketsCover ==
  \A k \in Live :
    /\ index[k].ns \in nsAstray \/ k \in nsIndex[index[k].ns]
    /\ index[k].ct \in ctAstray \/ k \in ctIndex[index[k].ct]

\* A listing that does not fail, through a bucket no other was written over,
\* returns what a scan of the whole table would: all records of that
\* namespace or type and no other, although buckets may name keys that have
\* moved elsewhere.
ListingIsScan ==
  \A s \in Selector :
    ByBucket(s) /\ ~Astray(s) /\ ~CollectFails(s) => Collected(s) = Matching(s)

\* Deleting by key, by neither field, or through a bucket no other was written
\* over, leaves no matching record when the call reports success.
DeletedAll ==
  [][DeleteDone => Matching(sel) = {} \/ (ByBucket(sel) /\ Astray(sel))]_vars

\* As long as freed bytes keep their value a listing never meets a key that
\* is gone and no bucket is written over, in any sequence of writes,
\* deletions and reopenings.
ListingWorksIntact ==
  intact => \A s \in Selector : ~CollectFails(s) /\ (ByBucket(s) => ~Astray(s))

\* HTTP.md: microdb walks its namespace_index and returns all the records
\* of that namespace.
ListingNeverFails ==
  \A s \in Selector : ~CollectFails(s)
=============================================================================
