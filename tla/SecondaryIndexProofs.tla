----------------------- MODULE SecondaryIndexProofs -----------------------
(***************************************************************************)
(* Proofs about SecondaryIndex, for every set of keys and names.  The      *)
(* inductive invariant adds to BucketsCover what the properties of calls   *)
(* rest on: a running deletion still has every matching key before it,     *)
(* unless it walked a bucket another was written over, and with intact     *)
(* freed bytes the buckets are exactly the attributes.                     *)
(***************************************************************************)
EXTENDS SecondaryIndex, TLAPS

\* The keys a running db_delete_where has yet to delete are in its list.
CollectsAll ==
  sel # None => (ByBucket(sel) /\ Astray(sel)) \/ Matching(sel) \subseteq todo

\* The buckets hold what a rebuild would put there.
Exact ==
  /\ nsAstray = {} /\ ctAstray = {}
  /\ \A n \in Namespace : nsIndex[n] = {k \in Live : index[k].ns = n}
  /\ \A c \in ContentType : ctIndex[c] = {k \in Live : index[k].ct = c}

ExactIfIntact == intact => Exact

IInv == TypeOK /\ BucketsCover /\ CollectsAll /\ ExactIfIntact

\* Putting a key into one bucket.
LEMMA Put ==
  ASSUME NEW Names, NEW b \in [Names -> SUBSET Key], NEW k \in Key, NEW new \in Names
  PROVE  LET c == With(b, new, k)
         IN /\ c \in [Names -> SUBSET Key] /\ k \in c[new]
            /\ \A n \in Names : c[n] \ {k} = b[n] \ {k}
            /\ \A n \in Names \ {new} : c[n] = b[n]
BY DEF With

\* Taking a key out of one bucket, or out of none, and writing what is left
\* over the same or another.
LEMMA Take ==
  ASSUME NEW Names, NEW b \in [Names -> SUBSET Key], NEW k \in Key, NEW read
  PROVE  LET c == Without(b, read, k)
             lost == Lost(b, read, k)
         IN /\ c \in [Names -> SUBSET Key] /\ lost \subseteq Names
            /\ \A n \in Names \ lost : c[n] \ {k} = b[n] \ {k}
            /\ (\A n \in Names : k \in b[n] => read = <<n, n>>) =>
                 lost = {} /\ \A n \in Names : k \notin c[n]
<1>1. CASE Removes(b, read, k) /\ read[2] \in Names
  <2>1. /\ Without(b, read, k) = [b EXCEPT ![read[2]] = b[read[1]] \ {k}]
        /\ Lost(b, read, k) = {read[2]} \ {read[1]}
        /\ read[1] \in Names /\ k \in b[read[1]]
    BY <1>1 DEF Without, Lost, Removes
  <2>2. (\A n \in Names : k \in b[n] => read = <<n, n>>) => read[1] = read[2]
    BY <2>1
  <2>. QED BY <1>1, <2>1, <2>2
<1>2. CASE ~(Removes(b, read, k) /\ read[2] \in Names)
  <2>1. Without(b, read, k) = b /\ Lost(b, read, k) = {}
    BY <1>2 DEF Without, Lost
  <2>2. (\A n \in Names : k \in b[n] => read = <<n, n>>) => \A n \in Names : k \notin b[n]
    BY <1>2 DEF Removes
  <2>. QED BY <2>1, <2>2
<1>. QED BY <1>1, <1>2

\* Moving a key: out of one bucket and into another.
LEMMA Move ==
  ASSUME NEW Names, NEW b \in [Names -> SUBSET Key], NEW k \in Key, NEW read, NEW new \in Names
  PROVE  LET c == With(Without(b, read, k), new, k)
             lost == Lost(b, read, k)
         IN /\ c \in [Names -> SUBSET Key] /\ k \in c[new] /\ lost \subseteq Names
            /\ \A n \in Names \ lost : c[n] \ {k} = b[n] \ {k}
            /\ (\A n \in Names : k \in b[n] => read = <<n, n>>) =>
                 lost = {} /\ \A n \in Names : k \in c[n] => n = new
<1> DEFINE t == Without(b, read, k)
           lost == Lost(b, read, k)
<1>1. /\ t \in [Names -> SUBSET Key] /\ lost \subseteq Names
      /\ \A n \in Names \ lost : t[n] \ {k} = b[n] \ {k}
      /\ (\A n \in Names : k \in b[n] => read = <<n, n>>) =>
           lost = {} /\ \A n \in Names : k \notin t[n]
  BY Take
<1> HIDE DEF t, lost
<1>2. LET c == With(t, new, k)
      IN /\ c \in [Names -> SUBSET Key] /\ k \in c[new]
         /\ \A n \in Names : c[n] \ {k} = t[n] \ {k}
         /\ \A n \in Names \ {new} : c[n] = t[n]
  BY <1>1, Put
<1>. QED BY <1>1, <1>2 DEF t, lost

\* A record is not None, so writing one makes its key live.
LEMMA RecordsAreSome == ASSUME NEW r \in Record PROVE r # None
BY NoneIsNoRecord

\* The empty store.
LEMMA Initial == Init => IInv
BY DEF Init, IInv, TypeOK, BucketsCover, CollectsAll, ExactIfIntact, Exact, Live

\* What a write does to both indexes, whatever name is read for the old record.
LEMMA WriteEffect ==
  ASSUME TypeOK, NEW k \in Key, NEW r \in Record, DbWrite(k, r)
  PROVE  /\ index' = [index EXCEPT ![k] = r]
         /\ UNCHANGED <<intact, sel, todo>>
         /\ nsIndex' \in [Namespace -> SUBSET Key]
         /\ ctIndex' \in [ContentType -> SUBSET Key]
         /\ k \in nsIndex'[r.ns] /\ k \in ctIndex'[r.ct]
         /\ nsAstray \subseteq nsAstray' /\ nsAstray' \subseteq Namespace
         /\ ctAstray \subseteq ctAstray' /\ ctAstray' \subseteq ContentType
         /\ \A n \in Namespace \ nsAstray' : nsIndex'[n] \ {k} = nsIndex[n] \ {k}
         /\ \A c \in ContentType \ ctAstray' : ctIndex'[c] \ {k} = ctIndex[c] \ {k}
         /\ intact /\ Exact =>
              /\ nsAstray' = {} /\ ctAstray' = {}
              /\ \A n \in Namespace : k \in nsIndex'[n] => n = r.ns
              /\ \A c \in ContentType : k \in ctIndex'[c] => c = r.ct
<1>0. /\ r.ns \in Namespace /\ r.ct \in ContentType
      /\ nsIndex \in [Namespace -> SUBSET Key] /\ ctIndex \in [ContentType -> SUBSET Key]
      /\ nsAstray \subseteq Namespace /\ ctAstray \subseteq ContentType
  BY DEF Record, TypeOK
<1>1. CASE index[k] = None
  <2>1. /\ nsIndex' = With(nsIndex, r.ns, k) /\ ctIndex' = With(ctIndex, r.ct, k)
        /\ UNCHANGED <<nsAstray, ctAstray>>
    BY <1>1 DEF DbWrite
  <2>2. Exact => /\ nsAstray = {} /\ ctAstray = {}
                 /\ \A n \in Namespace : k \notin nsIndex[n]
                 /\ \A c \in ContentType : k \notin ctIndex[c]
    BY <1>1 DEF Exact, Live
  <2>3. /\ nsIndex' \in [Namespace -> SUBSET Key] /\ k \in nsIndex'[r.ns]
        /\ \A n \in Namespace : nsIndex'[n] \ {k} = nsIndex[n] \ {k}
        /\ \A n \in Namespace \ {r.ns} : nsIndex'[n] = nsIndex[n]
    BY <1>0, <2>1, Put
  <2>4. /\ ctIndex' \in [ContentType -> SUBSET Key] /\ k \in ctIndex'[r.ct]
        /\ \A c \in ContentType : ctIndex'[c] \ {k} = ctIndex[c] \ {k}
        /\ \A c \in ContentType \ {r.ct} : ctIndex'[c] = ctIndex[c]
    BY <1>0, <2>1, Put
  <2>. QED BY <1>0, <2>1, <2>2, <2>3, <2>4 DEF DbWrite
<1>2. CASE index[k] # None
  <2>1. PICK n \in Readings(index[k].ns, Namespace), c \in Readings(index[k].ct, ContentType) :
             /\ nsIndex' = With(Without(nsIndex, n, k), r.ns, k)
             /\ ctIndex' = With(Without(ctIndex, c, k), r.ct, k)
             /\ Loses(k, n, c)
    BY <1>2 DEF DbWrite
  <2>2. intact /\ Exact => /\ nsAstray = {} /\ ctAstray = {}
                           /\ \A m \in Namespace : k \in nsIndex[m] => n = <<m, m>>
                           /\ \A m \in ContentType : k \in ctIndex[m] => c = <<m, m>>
    BY DEF Readings, Exact
  <2>3. /\ nsIndex' \in [Namespace -> SUBSET Key] /\ k \in nsIndex'[r.ns]
        /\ Lost(nsIndex, n, k) \subseteq Namespace
        /\ \A m \in Namespace \ Lost(nsIndex, n, k) : nsIndex'[m] \ {k} = nsIndex[m] \ {k}
        /\ (\A m \in Namespace : k \in nsIndex[m] => n = <<m, m>>) =>
             Lost(nsIndex, n, k) = {} /\ \A m \in Namespace : k \in nsIndex'[m] => m = r.ns
    BY <1>0, <2>1, Move
  <2>4. /\ ctIndex' \in [ContentType -> SUBSET Key] /\ k \in ctIndex'[r.ct]
        /\ Lost(ctIndex, c, k) \subseteq ContentType
        /\ \A m \in ContentType \ Lost(ctIndex, c, k) : ctIndex'[m] \ {k} = ctIndex[m] \ {k}
        /\ (\A m \in ContentType : k \in ctIndex[m] => c = <<m, m>>) =>
             Lost(ctIndex, c, k) = {} /\ \A m \in ContentType : k \in ctIndex'[m] => m = r.ct
    BY <1>0, <2>1, Move
  <2>5. /\ nsAstray' = nsAstray \cup Lost(nsIndex, n, k)
        /\ ctAstray' = ctAstray \cup Lost(ctIndex, c, k)
    BY <2>1 DEF Loses
  <2>. QED BY <1>0, <2>2, <2>3, <2>4, <2>5 DEF DbWrite
<1>. QED BY <1>1, <1>2

\* What deleting one record does to both indexes.
LEMMA DeleteEffect ==
  ASSUME TypeOK, NEW k \in Key, DeleteRecord(k)
  PROVE  /\ k \in Live
         /\ nsIndex' \in [Namespace -> SUBSET Key]
         /\ ctIndex' \in [ContentType -> SUBSET Key]
         /\ nsAstray \subseteq nsAstray' /\ nsAstray' \subseteq Namespace
         /\ ctAstray \subseteq ctAstray' /\ ctAstray' \subseteq ContentType
         /\ \A n \in Namespace \ nsAstray' : nsIndex'[n] \ {k} = nsIndex[n] \ {k}
         /\ \A c \in ContentType \ ctAstray' : ctIndex'[c] \ {k} = ctIndex[c] \ {k}
         /\ intact /\ Exact =>
              /\ nsAstray' = {} /\ ctAstray' = {}
              /\ \A n \in Namespace : k \notin nsIndex'[n]
              /\ \A c \in ContentType : k \notin ctIndex'[c]
<1>0. /\ nsIndex \in [Namespace -> SUBSET Key] /\ ctIndex \in [ContentType -> SUBSET Key]
      /\ nsAstray \subseteq Namespace /\ ctAstray \subseteq ContentType
  BY DEF TypeOK
<1>1. PICK n \in Readings(index[k].ns, Namespace), c \in Readings(index[k].ct, ContentType) :
           /\ nsIndex' = Without(nsIndex, n, k) /\ ctIndex' = Without(ctIndex, c, k)
           /\ Loses(k, n, c)
  BY DEF DeleteRecord
<1>2. intact /\ Exact => /\ nsAstray = {} /\ ctAstray = {}
                         /\ \A m \in Namespace : k \in nsIndex[m] => n = <<m, m>>
                         /\ \A m \in ContentType : k \in ctIndex[m] => c = <<m, m>>
  BY DEF Readings, Exact
<1>3. /\ nsIndex' \in [Namespace -> SUBSET Key] /\ Lost(nsIndex, n, k) \subseteq Namespace
      /\ \A m \in Namespace \ Lost(nsIndex, n, k) : nsIndex'[m] \ {k} = nsIndex[m] \ {k}
      /\ (\A m \in Namespace : k \in nsIndex[m] => n = <<m, m>>) =>
           Lost(nsIndex, n, k) = {} /\ \A m \in Namespace : k \notin nsIndex'[m]
  BY <1>0, <1>1, Take
<1>4. /\ ctIndex' \in [ContentType -> SUBSET Key] /\ Lost(ctIndex, c, k) \subseteq ContentType
      /\ \A m \in ContentType \ Lost(ctIndex, c, k) : ctIndex'[m] \ {k} = ctIndex[m] \ {k}
      /\ (\A m \in ContentType : k \in ctIndex[m] => c = <<m, m>>) =>
           Lost(ctIndex, c, k) = {} /\ \A m \in ContentType : k \notin ctIndex'[m]
  BY <1>0, <1>1, Take
<1>5. /\ nsAstray' = nsAstray \cup Lost(nsIndex, n, k)
      /\ ctAstray' = ctAstray \cup Lost(ctIndex, c, k)
  BY <1>1 DEF Loses
<1>6. k \in Live
  BY DEF DeleteRecord, Matching
<1>. QED BY <1>0, <1>2, <1>3, <1>4, <1>5, <1>6

\* Types survive every step.
LEMMA TypeStep == TypeOK /\ [Next]_vars => TypeOK'
<1>. SUFFICES ASSUME TypeOK, [Next]_vars PROVE TypeOK'
  OBVIOUS
<1>1. ASSUME NEW k \in Key, NEW r \in Record, DbWrite(k, r) PROVE TypeOK'
  BY <1>1, WriteEffect DEF TypeOK
<1>2. ASSUME NEW s \in Selector, DbDeleteWhere(s) PROVE TypeOK'
  BY <1>2 DEF DbDeleteWhere, Collected, Matching, Live, TypeOK, Selector, buckets
<1>3. ASSUME NEW k \in Key, DeleteSkips(k) PROVE TypeOK'
  BY <1>3 DEF DeleteSkips, TypeOK, buckets
<1>4. ASSUME NEW k \in Key, DeleteRecord(k) PROVE TypeOK'
  BY <1>4, DeleteEffect DEF DeleteRecord, TypeOK
<1>5. CASE Reopen
  BY <1>5 DEF Reopen, Live, TypeOK
<1>6. CASE DeleteAborts \/ DeleteDone \/ UNCHANGED vars
  BY <1>6 DEF DeleteAborts, DeleteDone, vars, buckets, TypeOK
<1>. QED BY <1>1, <1>2, <1>3, <1>4, <1>5, <1>6 DEF Next

\* Writes remove first and add last; deletions only touch the deleted key.
LEMMA CoverStep == TypeOK /\ BucketsCover /\ [Next]_vars => BucketsCover'
<1> DEFINE Covered(j) == /\ index[j].ns \in nsAstray \/ j \in nsIndex[index[j].ns]
                         /\ index[j].ct \in ctAstray \/ j \in ctIndex[index[j].ct]
<1>. SUFFICES ASSUME TypeOK, BucketsCover, [Next]_vars, NEW j \in Key, index'[j] # None
              PROVE  Covered(j)'
  BY DEF BucketsCover, Live
<1>1. ASSUME NEW k \in Key, NEW r \in Record, DbWrite(k, r)
      PROVE  Covered(j)'
  <2>1. CASE j = k
    BY <1>1, <2>1, WriteEffect DEF TypeOK
  <2>2. CASE j # k
    <3>1. index'[j] = index[j] /\ index[j] \in Record
      BY <1>1, <2>2, WriteEffect DEF TypeOK
    <3>2. Covered(j) /\ index[j].ns \in Namespace /\ index[j].ct \in ContentType
      BY <3>1, NoneIsNoRecord DEF BucketsCover, Live, Record
    <3>. QED BY <1>1, <2>2, <3>1, <3>2, WriteEffect
  <2>. QED BY <2>1, <2>2
<1>2. ASSUME NEW k \in Key, DeleteRecord(k)
      PROVE  Covered(j)'
  <2>1. j # k /\ index'[j] = index[j] /\ index[j] \in Record
    BY <1>2 DEF DeleteRecord, TypeOK
  <2>2. Covered(j) /\ index[j].ns \in Namespace /\ index[j].ct \in ContentType
    BY <2>1, NoneIsNoRecord DEF BucketsCover, Live, Record
  <2>. QED BY <1>2, <2>1, <2>2, DeleteEffect
<1>3. CASE Reopen
  <2>1. index' = index /\ index[j] \in Record
    BY <1>3 DEF Reopen, TypeOK
  <2>. QED BY <1>3, <2>1 DEF Reopen, Live, Record
<1>4. CASE UNCHANGED <<index, buckets>>
  BY <1>4 DEF BucketsCover, Live, buckets
<1>5. [Next]_vars =>
        \/ \E k \in Key, r \in Record : DbWrite(k, r)
        \/ \E k \in Key : DeleteRecord(k)
        \/ Reopen \/ UNCHANGED <<index, buckets>>
  BY DEF Next, vars, DbDeleteWhere, DeleteSkips, DeleteAborts, DeleteDone
<1>. QED BY <1>1, <1>2, <1>3, <1>4, <1>5

\* The keys of a bucket that match are all the keys that match.
LEMMA CollectedIsMatching ==
  ASSUME TypeOK, BucketsCover, NEW s \in Selector, ~(ByBucket(s) /\ Astray(s))
  PROVE  /\ Matching(s) \subseteq Collected(s)
         /\ ByBucket(s) => Collected(s) = Matching(s)
<1>1. ASSUME NEW k \in Matching(s) PROVE s.key # None => k = s.key
  BY <1>1 DEF Matching, Matches
<1>2. ASSUME ByBucket(s) PROVE Matching(s) \subseteq Bucket(s)
  BY <1>2 DEF Matching, Matches, ByBucket, Bucket, Astray, BucketsCover, Live
<1>3. s.key # None => ~ByBucket(s)
  BY DEF ByBucket
<1>. QED BY <1>1, <1>2, <1>3 DEF Collected, Matching

\* A running deletion loses a matching key from its list only by deleting it.
LEMMA CollectsStep == TypeOK /\ BucketsCover /\ CollectsAll /\ [Next]_vars => CollectsAll'
<1>. SUFFICES ASSUME TypeOK, BucketsCover, CollectsAll, [Next]_vars PROVE CollectsAll'
  OBVIOUS
<1>1. ASSUME NEW k \in Key, NEW r \in Record, DbWrite(k, r) PROVE CollectsAll'
  BY <1>1 DEF DbWrite, CollectsAll
<1>2. ASSUME NEW s \in Selector, DbDeleteWhere(s) PROVE CollectsAll'
  <2>1. Matching(s)' = Matching(s)
    BY <1>2 DEF DbDeleteWhere, Matching, Live
  <2>2. (ByBucket(s) /\ Astray(s)) \/ Matching(s) \subseteq Collected(s)
    BY CollectedIsMatching
  <2>3. (ByBucket(s) /\ Astray(s))' <=> (ByBucket(s) /\ Astray(s))
    BY <1>2 DEF DbDeleteWhere, ByBucket, Astray, buckets
  <2>. QED BY <1>2, <2>1, <2>2, <2>3 DEF DbDeleteWhere, CollectsAll
<1>3. ASSUME NEW k \in Key, DeleteSkips(k) PROVE CollectsAll'
  <2>1. (ByBucket(sel) /\ Astray(sel))' <=> (ByBucket(sel) /\ Astray(sel))
    BY <1>3 DEF DeleteSkips, ByBucket, Astray, buckets
  <2>. QED BY <1>3, <2>1 DEF DeleteSkips, CollectsAll, Matching, Live
<1>4. ASSUME NEW k \in Key, DeleteRecord(k) PROVE CollectsAll'
  <2>1. \A j \in Key : index'[j] # None => j # k /\ index'[j] = index[j]
    BY <1>4 DEF DeleteRecord, TypeOK
  <2>2. ByBucket(sel) /\ Astray(sel) => (ByBucket(sel) /\ Astray(sel))'
    BY <1>4, DeleteEffect DEF DeleteRecord, ByBucket, Astray
  <2>3. todo' = todo \ {k} /\ sel' = sel
    BY <1>4 DEF DeleteRecord
  <2>4. Matching(sel)' \subseteq Matching(sel) \ {k}
    BY <2>1, <2>3 DEF Matching, Live
  <2>. QED BY <2>2, <2>3, <2>4 DEF CollectsAll
<1>5. CASE DeleteAborts \/ DeleteDone \/ Reopen
  BY <1>5 DEF DeleteAborts, DeleteDone, Reopen, CollectsAll
<1>6. CASE UNCHANGED vars
  BY <1>6 DEF vars, buckets, CollectsAll, ByBucket, Astray, Matching, Live
<1>. QED BY <1>1, <1>2, <1>3, <1>4, <1>5, <1>6 DEF Next

\* With intact freed bytes a write moves its key and a deletion takes it out.
LEMMA ExactStep == TypeOK /\ ExactIfIntact /\ [Next]_vars => ExactIfIntact'
<1>. SUFFICES ASSUME TypeOK, ExactIfIntact, [Next]_vars, intact' PROVE Exact'
  BY DEF ExactIfIntact
<1>1. intact /\ Exact
  BY DEF Next, DbWrite, DbDeleteWhere, DeleteSkips, DeleteRecord, DeleteAborts,
         DeleteDone, Reopen, vars, ExactIfIntact
<1>2. ASSUME NEW k \in Key, NEW r \in Record, DbWrite(k, r) PROVE Exact'
  <2>1. /\ index'[k] = r /\ r # None
        /\ \A j \in Key \ {k} : index'[j] = index[j]
    BY <1>2, RecordsAreSome DEF DbWrite, TypeOK
  <2>2. /\ nsIndex' \in [Namespace -> SUBSET Key]
        /\ ctIndex' \in [ContentType -> SUBSET Key]
        /\ k \in nsIndex'[r.ns] /\ k \in ctIndex'[r.ct]
        /\ nsAstray' = {} /\ ctAstray' = {}
        /\ \A n \in Namespace : nsIndex'[n] \ {k} = nsIndex[n] \ {k}
        /\ \A c \in ContentType : ctIndex'[c] \ {k} = ctIndex[c] \ {k}
        /\ \A n \in Namespace : k \in nsIndex'[n] => n = r.ns
        /\ \A c \in ContentType : k \in ctIndex'[c] => c = r.ct
    BY <1>1, <1>2, WriteEffect
  <2>3. ASSUME NEW n \in Namespace, NEW j \in Key
        PROVE  j \in nsIndex'[n] <=> index'[j] # None /\ index'[j].ns = n
    BY <1>1, <2>1, <2>2 DEF Exact, Live
  <2>4. ASSUME NEW c \in ContentType, NEW j \in Key
        PROVE  j \in ctIndex'[c] <=> index'[j] # None /\ index'[j].ct = c
    BY <1>1, <2>1, <2>2 DEF Exact, Live
  <2>. QED BY <2>2, <2>3, <2>4 DEF Exact, Live
<1>3. ASSUME NEW k \in Key, DeleteRecord(k) PROVE Exact'
  <2>1. /\ index'[k] = None
        /\ \A j \in Key \ {k} : index'[j] = index[j]
    BY <1>3 DEF DeleteRecord, TypeOK
  <2>2. /\ nsIndex' \in [Namespace -> SUBSET Key]
        /\ ctIndex' \in [ContentType -> SUBSET Key]
        /\ nsAstray' = {} /\ ctAstray' = {}
        /\ \A n \in Namespace : nsIndex'[n] \ {k} = nsIndex[n] \ {k}
        /\ \A c \in ContentType : ctIndex'[c] \ {k} = ctIndex[c] \ {k}
        /\ \A n \in Namespace : k \notin nsIndex'[n]
        /\ \A c \in ContentType : k \notin ctIndex'[c]
    BY <1>1, <1>3, DeleteEffect
  <2>3. ASSUME NEW n \in Namespace, NEW j \in Key
        PROVE  j \in nsIndex'[n] <=> index'[j] # None /\ index'[j].ns = n
    BY <1>1, <2>1, <2>2 DEF Exact, Live
  <2>4. ASSUME NEW c \in ContentType, NEW j \in Key
        PROVE  j \in ctIndex'[c] <=> index'[j] # None /\ index'[j].ct = c
    BY <1>1, <2>1, <2>2 DEF Exact, Live
  <2>. QED BY <2>2, <2>3, <2>4 DEF Exact, Live
<1>4. CASE Reopen
  BY <1>4 DEF Reopen, Exact, Live
<1>5. CASE UNCHANGED <<index, buckets>>
  BY <1>1, <1>5 DEF Exact, Live, buckets
<1>6. [Next]_vars =>
        \/ \E k \in Key, r \in Record : DbWrite(k, r)
        \/ \E k \in Key : DeleteRecord(k)
        \/ Reopen \/ UNCHANGED <<index, buckets>>
  BY DEF Next, vars, DbDeleteWhere, DeleteSkips, DeleteAborts, DeleteDone
<1>. QED BY <1>2, <1>3, <1>4, <1>5, <1>6

\* The inductive invariant holds at every step of a session.
THEOREM Inductive == Spec => []IInv
<1>1. IInv /\ [Next]_vars => IInv'
  BY TypeStep, CoverStep, CollectsStep, ExactStep DEF IInv
<1>. QED BY Initial, <1>1, PTL DEF Spec

\* Every variable keeps its type, for all sets of keys and names.
THEOREM TypeCorrect == Spec => []TypeOK
BY Inductive, PTL DEF IInv

\* A live key is missing from the bucket of its own namespace or content type
\* only if db_write or db_delete_where wrote another bucket over that one,
\* whatever bytes they read after they are freed.
THEOREM IndexesComplete == Spec => []BucketsCover
BY Inductive, PTL DEF IInv

\* A listing that succeeds is a scan of the table, through any bucket that was
\* not written over.
THEOREM ListingsExact == Spec => []ListingIsScan
<1>1. IInv => ListingIsScan
  BY CollectedIsMatching DEF IInv, ListingIsScan
<1>. QED BY Inductive, <1>1, PTL

\* A deletion that reports success leaves no matching record, unless it walked
\* a bucket that was written over.
THEOREM DeletionsComplete == Spec => DeletedAll
<1>1. IInv /\ [Next]_vars =>
        [DeleteDone => Matching(sel) = {} \/ (ByBucket(sel) /\ Astray(sel))]_vars
  BY DEF IInv, CollectsAll, DeleteDone
<1>. QED BY Inductive, <1>1, PTL DEF Spec, DeletedAll

\* Were the freed bytes intact, no listing would ever fail and no bucket be
\* written over.
THEOREM OnlyFreedBytesFailListings == Spec => []ListingWorksIntact
<1>1. IInv => ListingWorksIntact
  BY DEF IInv, ExactIfIntact, Exact, ListingWorksIntact, CollectFails, ByBucket, Bucket,
         Astray, Selector
<1>. QED BY Inductive, <1>1, PTL
=============================================================================
