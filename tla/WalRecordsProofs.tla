-------------------------- MODULE WalRecordsProofs --------------------------
(***************************************************************************)
(* Lemmas about replaying a log.  Replayed picks the last record of a key; *)
(* that one exists, HasLast, is what every fact about replay rests on.     *)
(* Logs that only grow carry it from record to record (AppendHasLast); of  *)
(* logs that are cut and overwritten it is shown outright, from the        *)
(* well-foundedness of the naturals (EveryLogHasLast).                     *)
(***************************************************************************)
EXTENDS WalRecords, TLAPS, WellFoundedInduction

\* Every prefix of w that writes k has a last record of k.
HasLast(w) ==
  \A n \in 0..Len(w), k \in Key :
    (\E i \in 1..n : w[i].key = k) =>
      \E i \in 1..n : w[i].key = k /\ \A j \in 1..n : w[j].key = k => j <= i

\* A set of naturals has a least member.
LEMMA LeastMember ==
  ASSUME NEW S \in SUBSET Nat, S # {}
  PROVE  \E i \in S : \A j \in S : i <= j
<1>1. PICK i \in S : \A j \in S : <<j, i>> \notin OpToRel(<, Nat)
  BY NatLessThanWellFounded, WFMin
<1>2. \A j \in S : ~(j < i)
  BY <1>1 DEF OpToRel
<1>. QED BY <1>2

\* Every log has a last record of each key it writes.
LEMMA EveryLogHasLast ==
  ASSUME NEW w \in Seq(Rec)
  PROVE  HasLast(w)
<1> SUFFICES ASSUME NEW n \in 0..Len(w), NEW k \in Key, NEW m \in 1..n, w[m].key = k
             PROVE  \E i \in 1..n : w[i].key = k /\ \A j \in 1..n : w[j].key = k => j <= i
  BY DEF HasLast
<1> DEFINE S == {d \in 0..n : n - d \in 1..n /\ w[n - d].key = k}
<1>1. n - m \in S
  <2>1. n - m \in 0..n /\ n - (n - m) = m
    OBVIOUS
  <2>. QED BY <2>1
<1>2. S \in SUBSET Nat /\ S # {}
  <2>1. \A d \in S : d \in Nat
    OBVIOUS
  <2>. QED BY <1>1, <2>1
<1> HIDE DEF S
<1>3. PICK d \in S : \A e \in S : d <= e
  BY <1>2, LeastMember
<1>4. d \in 0..n /\ n - d \in 1..n /\ w[n - d].key = k
  BY DEF S
<1>5. ASSUME NEW j \in 1..n, w[j].key = k PROVE j <= n - d
  <2>1. n - j \in 0..n /\ n - (n - j) = j
    OBVIOUS
  <2>2. n - j \in S
    BY <1>5, <2>1 DEF S
  <2>3. d <= n - j
    BY <1>3, <2>2
  <2>. QED BY <1>4, <2>3
<1>. QED BY <1>4, <1>5

\* The empty log has a last record of nothing.
LEMMA EmptyHasLast == HasLast(<<>>)
BY DEF HasLast

\* A log keeps HasLast when a record is appended.
LEMMA AppendHasLast ==
  ASSUME NEW w \in Seq(Rec), NEW r \in Rec, HasLast(w)
  PROVE  HasLast(Append(w, r))
<1> DEFINE v == Append(w, r)
<1>1. Len(v) = Len(w) + 1 /\ v[Len(w) + 1] = r /\ \A i \in 1..Len(w) : v[i] = w[i]
  OBVIOUS
<1>2. ASSUME NEW n \in 0..Len(v), NEW k \in Key, \E i \in 1..n : v[i].key = k
      PROVE  \E i \in 1..n : v[i].key = k /\ \A j \in 1..n : v[j].key = k => j <= i
  <2>1. CASE n <= Len(w)
    <3>1. n \in 0..Len(w) /\ \A i \in 1..n : v[i] = w[i]
      BY <1>1, <2>1
    <3>2. PICK i \in 1..n : w[i].key = k /\ \A j \in 1..n : w[j].key = k => j <= i
      BY <1>2, <3>1 DEF HasLast
    <3>. QED BY <3>1, <3>2
  <2>2. CASE n = Len(w) + 1 /\ r.key = k
    BY <1>1, <2>2
  <2>3. CASE n = Len(w) + 1 /\ r.key # k
    <3>1. \E i \in 1..Len(w) : w[i].key = k
      BY <1>1, <1>2, <2>3
    <3>2. Len(w) \in 0..Len(w)
      OBVIOUS
    <3>3. PICK i \in 1..Len(w) : w[i].key = k /\ \A j \in 1..Len(w) : w[j].key = k => j <= i
      BY <3>1, <3>2 DEF HasLast
    <3>. QED BY <1>1, <2>3, <3>3
  <2>. QED BY <1>1, <2>1, <2>2, <2>3
<1>. QED BY <1>2 DEF HasLast

\* So does a prefix of it.
LEMMA PrefixHasLast ==
  ASSUME NEW w \in Seq(Rec), HasLast(w), NEW n \in 0..Len(w)
  PROVE  FirstRecs(w, n) \in Seq(Rec) /\ Len(FirstRecs(w, n)) = n /\ HasLast(FirstRecs(w, n))
<1>1. /\ FirstRecs(w, n) \in Seq(Rec) /\ Len(FirstRecs(w, n)) = n
      /\ \A i \in 1..n : FirstRecs(w, n)[i] = w[i]
  BY DEF FirstRecs
<1>2. ASSUME NEW m \in 0..n, NEW k \in Key, \E i \in 1..m : FirstRecs(w, n)[i].key = k
      PROVE  \E i \in 1..m : /\ FirstRecs(w, n)[i].key = k
                             /\ \A j \in 1..m : FirstRecs(w, n)[j].key = k => j <= i
  <2>1. m \in 0..Len(w) /\ \A i \in 1..m : FirstRecs(w, n)[i] = w[i]
    BY <1>1
  <2>2. PICK i \in 1..m : w[i].key = k /\ \A j \in 1..m : w[j].key = k => j <= i
    BY <1>2, <2>1 DEF HasLast
  <2>. QED BY <2>1, <2>2
<1>. QED BY <1>1, <1>2 DEF HasLast

\* The prefix one record longer is the prefix with that record appended.
LEMMA PrefixStep ==
  ASSUME NEW w \in Seq(Rec), NEW n \in 0..(Len(w) - 1)
  PROVE  FirstRecs(w, n + 1) = Append(FirstRecs(w, n), w[n + 1])
BY DEF FirstRecs

\* The whole log is a prefix of itself.
LEMMA WholePrefix ==
  ASSUME NEW w \in Seq(Rec)
  PROVE  FirstRecs(w, Len(w)) = w /\ FirstRecs(w, 0) = <<>>
BY DEF FirstRecs

\* An append leaves the prefixes as they were.
LEMMA PrefixOfAppend ==
  ASSUME NEW w \in Seq(Rec), NEW r \in Rec, NEW n \in 0..Len(w)
  PROVE  FirstRecs(Append(w, r), n) = FirstRecs(w, n)
BY DEF FirstRecs

\* LastOf finds the last record of a key.
LEMMA LastOfWrites ==
  ASSUME NEW w \in Seq(Rec), HasLast(w), NEW k \in Key, WritesOf(w, k) # {}
  PROVE  /\ LastOf(WritesOf(w, k)) \in WritesOf(w, k)
         /\ \A j \in WritesOf(w, k) : j <= LastOf(WritesOf(w, k))
<1>1. \E i \in 1..Len(w) : w[i].key = k
  BY DEF WritesOf
<1>2. Len(w) \in 0..Len(w)
  OBVIOUS
<1>3. \E i \in 1..Len(w) : w[i].key = k /\ \A j \in 1..Len(w) : w[j].key = k => j <= i
  BY <1>1, <1>2 DEF HasLast
<1>4. \E i \in WritesOf(w, k) : \A j \in WritesOf(w, k) : j <= i
  BY <1>3 DEF WritesOf
<1>. QED BY <1>4 DEF LastOf

\* Replaying a log over a map yields a map.
LEMMA ReplayedType ==
  ASSUME NEW w \in Seq(Rec), HasLast(w), NEW m \in Map
  PROVE  Replayed(m, w) \in Map
<1>1. ASSUME NEW k \in Key, WritesOf(w, k) # {}
      PROVE  w[LastOf(WritesOf(w, k))].val \in Val \cup {None}
  <2>1. LastOf(WritesOf(w, k)) \in 1..Len(w)
    BY <1>1, LastOfWrites DEF WritesOf
  <2>2. w[LastOf(WritesOf(w, k))] \in Rec
    BY <2>1
  <2>. QED BY <2>2 DEF Rec
<1>. QED BY <1>1 DEF Replayed, Map

\* Replaying nothing changes nothing.
LEMMA ReplayedEmpty ==
  ASSUME NEW m \in Map
  PROVE  Replayed(m, <<>>) = m
BY DEF Replayed, WritesOf, Map

\* Replaying one more record applies that record.
LEMMA ReplayedAppend ==
  ASSUME NEW w \in Seq(Rec), HasLast(w), NEW r \in Rec, NEW m \in Map
  PROVE  Replayed(m, Append(w, r)) = Applied(Replayed(m, w), r)
<1> DEFINE v == Append(w, r)
<1>1. /\ v \in Seq(Rec) /\ Len(v) = Len(w) + 1 /\ v[Len(w) + 1] = r
      /\ \A i \in 1..Len(w) : v[i] = w[i]
  OBVIOUS
<1>2. HasLast(v)
  BY AppendHasLast
<1>3. Replayed(m, v)[r.key] = r.val
  <2>1. r.key \in Key /\ Len(w) + 1 \in WritesOf(v, r.key)
    BY <1>1 DEF WritesOf, Rec
  <2>2. LastOf(WritesOf(v, r.key)) = Len(w) + 1
    <3>1. LastOf(WritesOf(v, r.key)) \in 1..(Len(w) + 1)
      BY <1>1, <1>2, <2>1, LastOfWrites DEF WritesOf
    <3>2. Len(w) + 1 <= LastOf(WritesOf(v, r.key))
      BY <1>1, <1>2, <2>1, LastOfWrites
    <3>. QED BY <3>1, <3>2
  <2>. QED BY <1>1, <2>1, <2>2 DEF Replayed
<1>4. ASSUME NEW k \in Key, k # r.key
      PROVE  Replayed(m, v)[k] = Replayed(m, w)[k]
  <2>1. WritesOf(v, k) = WritesOf(w, k)
    BY <1>1, <1>4 DEF WritesOf
  <2>2. CASE WritesOf(w, k) = {}
    BY <2>1, <2>2 DEF Replayed
  <2>3. CASE WritesOf(w, k) # {}
    <3>1. LastOf(WritesOf(w, k)) \in 1..Len(w)
      BY <2>3, LastOfWrites DEF WritesOf
    <3>. QED BY <1>1, <2>1, <2>3, <3>1 DEF Replayed
  <2>. QED BY <2>2, <2>3
<1>5. Replayed(m, v) = [k \in Key |-> Replayed(m, v)[k]]
  BY DEF Replayed
<1>6. Applied(Replayed(m, w), r) = [k \in Key |-> IF k = r.key THEN r.val ELSE Replayed(m, w)[k]]
  BY DEF Applied, Replayed, Rec
<1>. QED BY <1>3, <1>4, <1>5, <1>6

\* Replaying a log over its own result changes nothing: what lets a
\* compaction be interrupted between its snapshot and its truncation.
LEMMA ReplayedIdempotent ==
  ASSUME NEW w, NEW m, NEW r, r = Replayed(m, w)
  PROVE  Replayed(r, w) = r
BY DEF Replayed
\* LastOf is the last of a set of positions that has one.
LEMMA LastOfIs ==
  ASSUME NEW S \in SUBSET Int, NEW i \in S, \A j \in S : j <= i
  PROVE  LastOf(S) = i
<1>1. LastOf(S) \in S /\ \A j \in S : j <= LastOf(S)
  BY DEF LastOf
<1>2. i <= LastOf(S) /\ LastOf(S) <= i /\ i \in Int /\ LastOf(S) \in Int
  BY <1>1
<1>. QED BY <1>2

\* A log can be replayed in two parts, the second over what the first gave:
\* what makes a prefix and the records behind it the whole log again.
LEMMA ReplayedSplit ==
  ASSUME NEW w \in Seq(Rec), HasLast(w), NEW m \in Map,
         NEW s \in 0..Len(w), NEW n \in s..Len(w)
  PROVE  Replayed(Replayed(m, FirstRecs(w, s)), SubSeq(w, s + 1, n)) = Replayed(m, FirstRecs(w, n))
<1> DEFINE u == FirstRecs(w, s)
           v == SubSeq(w, s + 1, n)
           x == FirstRecs(w, n)
<1>1. /\ u \in Seq(Rec) /\ Len(u) = s /\ \A i \in 1..s : u[i] = w[i]
      /\ v \in Seq(Rec) /\ Len(v) = n - s /\ \A i \in 1..(n - s) : v[i] = w[s + i]
      /\ x \in Seq(Rec) /\ Len(x) = n /\ \A i \in 1..n : x[i] = w[i]
      /\ HasLast(x)
  <2>1. Len(w) \in Nat /\ s \in Nat /\ n \in Nat /\ s <= n /\ n <= Len(w)
    OBVIOUS
  <2>2. u \in Seq(Rec) /\ Len(u) = s /\ \A i \in 1..s : u[i] = w[i]
    BY <2>1 DEF FirstRecs
  <2>3. v \in Seq(Rec) /\ Len(v) = n - s /\ \A i \in 1..(n - s) : v[i] = w[s + i]
    BY <2>1
  <2>4. x \in Seq(Rec) /\ Len(x) = n /\ \A i \in 1..n : x[i] = w[i]
    BY <2>1 DEF FirstRecs
  <2>5. HasLast(x)
    BY <2>1, PrefixHasLast
  <2>. QED BY <2>2, <2>3, <2>4, <2>5
<1> HIDE DEF u, v, x
<1>2. ASSUME NEW k \in Key
      PROVE  Replayed(Replayed(m, u), v)[k] = Replayed(m, x)[k]
  <2>1. CASE WritesOf(v, k) = {}
    <3>1. \A i \in (s + 1)..n : w[i].key # k
      <4> SUFFICES ASSUME NEW i \in (s + 1)..n, w[i].key = k PROVE FALSE
        OBVIOUS
      <4>1. i - s \in 1..Len(v) /\ v[i - s] = w[i]
        BY <1>1
      <4>. QED BY <2>1, <4>1 DEF WritesOf
    <3>2. WritesOf(x, k) = WritesOf(u, k)
      BY <1>1, <3>1 DEF WritesOf
    <3>3. CASE WritesOf(u, k) = {}
      BY <2>1, <3>2, <3>3 DEF Replayed
    <3>4. CASE WritesOf(u, k) # {}
      <4>1. LastOf(WritesOf(x, k)) \in WritesOf(x, k)
        BY <1>1, <3>2, <3>4, LastOfWrites
      <4>2. LastOf(WritesOf(x, k)) \in 1..s
        BY <1>1, <3>2, <4>1 DEF WritesOf
      <4>3. u[LastOf(WritesOf(x, k))] = x[LastOf(WritesOf(x, k))]
        BY <1>1, <4>2
      <4>. QED BY <2>1, <3>2, <3>4, <4>3 DEF Replayed
    <3>. QED BY <3>3, <3>4
  <2>2. CASE WritesOf(v, k) # {}
    <3>1. PICK i \in 1..(n - s) : w[s + i].key = k
      <4>1. PICK p \in 1..Len(v) : v[p].key = k
        BY <2>2 DEF WritesOf
      <4>. QED BY <1>1, <4>1
    <3>2. s + i \in WritesOf(x, k)
      BY <1>1, <3>1 DEF WritesOf
    <3> DEFINE j == LastOf(WritesOf(x, k))
    <3>3. j \in WritesOf(x, k) /\ \A p \in WritesOf(x, k) : p <= j
      BY <1>1, <3>2, LastOfWrites
    <3> HIDE DEF j
    <3>4. j \in 1..n /\ s + i <= j /\ x[j].key = k
      BY <1>1, <3>2, <3>3 DEF WritesOf
    <3>5. j - s \in 1..(n - s) /\ v[j - s] = x[j]
      <4>1. j \in Int /\ j <= n /\ s + 1 <= j
        BY <3>4
      <4>2. j - s \in 1..(n - s) /\ s + (j - s) = j
        BY <4>1
      <4>3. v[j - s] = w[s + (j - s)]
        BY <1>1, <4>2
      <4>. QED BY <1>1, <3>4, <4>2, <4>3
    <3>6. j - s \in WritesOf(v, k)
      BY <1>1, <3>4, <3>5 DEF WritesOf
    <3>7. \A p \in WritesOf(v, k) : p <= j - s
      <4> SUFFICES ASSUME NEW p \in WritesOf(v, k) PROVE p <= j - s
        OBVIOUS
      <4>1. p \in 1..(n - s) /\ w[s + p].key = k
        BY <1>1 DEF WritesOf
      <4>2. s + p \in WritesOf(x, k)
        BY <1>1, <4>1 DEF WritesOf
      <4>. QED BY <3>3, <3>4, <4>1, <4>2
    <3>8. LastOf(WritesOf(v, k)) = j - s
      <4>1. WritesOf(v, k) \in SUBSET Int
        BY DEF WritesOf
      <4>. QED BY <3>6, <3>7, <4>1, LastOfIs
    <3>. QED BY <2>2, <3>2, <3>5, <3>8 DEF Replayed, j
  <2>. QED BY <2>1, <2>2
<1>3. Replayed(Replayed(m, u), v) = Replayed(m, x)
  BY <1>2 DEF Replayed
<1>. QED BY <1>3 DEF u, v, x

-----------------------------------------------------------------------------
(* One key of a log that is cut and overwritten *)

\* A record more: its value if it writes the key, else what was.
LEMMA ValueStep ==
  ASSUME NEW w \in Seq(Rec), NEW n \in 0..(Len(w) - 1), NEW m \in Map, NEW k \in Key
  PROVE  Replayed(m, FirstRecs(w, n + 1))[k] =
           IF w[n + 1].key = k THEN w[n + 1].val ELSE Replayed(m, FirstRecs(w, n))[k]
<1>1. FirstRecs(w, n + 1) = Append(FirstRecs(w, n), w[n + 1])
  BY PrefixStep
<1>2. FirstRecs(w, n) \in Seq(Rec) /\ w[n + 1] \in Rec /\ HasLast(FirstRecs(w, n))
  BY EveryLogHasLast, PrefixHasLast
<1>3. Replayed(m, FirstRecs(w, n + 1)) = Applied(Replayed(m, FirstRecs(w, n)), w[n + 1])
  BY <1>1, <1>2, ReplayedAppend
<1>4. Replayed(m, FirstRecs(w, n)) \in Map
  BY <1>2, ReplayedType
<1>. QED BY <1>3, <1>4 DEF Applied, Map

\* A key whose later records all have the value it has keeps that value.
LEMMA ValueStays ==
  ASSUME NEW w \in Seq(Rec), NEW m \in Map, NEW k \in Key, NEW v, NEW low \in 0..Len(w),
         Replayed(m, FirstRecs(w, low))[k] = v,
         \A i \in (low + 1)..Len(w) : w[i].key = k => w[i].val = v
  PROVE  \A n \in low..Len(w) : Replayed(m, FirstRecs(w, n))[k] = v
<1> DEFINE S == {n \in low..Len(w) : Replayed(m, FirstRecs(w, n))[k] # v}
<1> SUFFICES ASSUME S # {} PROVE FALSE
  OBVIOUS
<1>1. S \in SUBSET Nat
  OBVIOUS
<1>2. PICK n \in S : \A j \in S : n <= j
  BY <1>1, LeastMember
<1>3. n # low /\ n \in low..Len(w)
  OBVIOUS
<1>4. n - 1 \in low..Len(w) /\ n - 1 \in 0..(Len(w) - 1) /\ n \in (low + 1)..Len(w) /\ n - 1 + 1 = n
  BY <1>3
<1>5. Replayed(m, FirstRecs(w, n - 1))[k] = v
  BY <1>2, <1>4
<1>6. Replayed(m, FirstRecs(w, n))[k] = v
  BY <1>4, <1>5, ValueStep
<1>. QED BY <1>2, <1>6

\* Log u shares its first low records with w, and what it says of key k
\* after them w said after them too.
SaysNoMore(u, w, low, k) ==
  /\ low <= Len(u) /\ \A i \in 1..low : u[i] = w[i]
  /\ \A i \in (low + 1)..Len(u) : u[i].key = k => \E j \in (low + 1)..Len(w) : u[i] = w[j]

\* Key k has value v however short of its end, down to low, log w is cut.
Stands(m, w, low, k, v) == \A n \in low..Len(w) : Replayed(m, FirstRecs(w, n))[k] = v

\* A log that says no more of a key leaves it the value it had throughout.
LEMMA ValueKept ==
  ASSUME NEW w \in Seq(Rec), NEW u \in Seq(Rec), NEW m \in Map, NEW k \in Key, NEW v,
         NEW low \in 0..Len(w), SaysNoMore(u, w, low, k), Stands(m, w, low, k, v)
  PROVE  Stands(m, u, low, k, v)
<1>1. low \in 0..Len(u) /\ FirstRecs(u, low) = FirstRecs(w, low)
  BY DEF FirstRecs, SaysNoMore
<1>2. ASSUME NEW j \in (low + 1)..Len(w), w[j].key = k PROVE w[j].val = v
  <2>1. j - 1 \in 0..(Len(w) - 1) /\ j - 1 + 1 = j /\ j \in low..Len(w)
    OBVIOUS
  <2>2. Replayed(m, FirstRecs(w, j))[k] = v
    BY <2>1 DEF Stands
  <2> DEFINE i == j - 1
  <2>3. i \in 0..(Len(w) - 1) /\ i + 1 = j
    BY <2>1
  <2> HIDE DEF i
  <2>4. Replayed(m, FirstRecs(w, i + 1))[k] =
          IF w[i + 1].key = k THEN w[i + 1].val ELSE Replayed(m, FirstRecs(w, i))[k]
    BY <2>3, ValueStep
  <2>. QED BY <1>2, <2>2, <2>3, <2>4
<1>3. \A i \in (low + 1)..Len(u) : u[i].key = k => u[i].val = v
  BY <1>2 DEF SaysNoMore
<1>4. Replayed(m, FirstRecs(u, low))[k] = v
  BY <1>1 DEF Stands
<1>5. ASSUME NEW n \in low..Len(u) PROVE Replayed(m, FirstRecs(u, n))[k] = v
  <2>1. low \in 0..Len(u)
    BY <1>1
  <2>. QED BY <1>3, <1>4, <1>5, <2>1, ValueStays
<1>. QED BY <1>5 DEF Stands
=============================================================================
