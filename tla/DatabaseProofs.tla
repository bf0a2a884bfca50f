--------------------------- MODULE DatabaseProofs ---------------------------
(***************************************************************************)
(* Proofs about Database, for all keys, payloads and bounds: what clients  *)
(* were told is stored outlives every overlap of the two processes, every  *)
(* kill and every power loss, and the numbers of notes stay in order.      *)
(***************************************************************************)
EXTENDS Database, WalRecordsProofs, FiniteSetTheorems

-----------------------------------------------------------------------------
(* What one write makes of the log *)

\* A record written at the end of a part of the log.
LEMMA HeadOfLog ==
  ASSUME wal \in Seq(Rec), NEW r \in Rec, NEW n \in 0..Len(wal)
  PROVE  LET head == Append(FirstRecs(wal, n), r)
         IN /\ head \in Seq(Rec) /\ Len(head) = n + 1 /\ head[n + 1] = r
            /\ \A i \in 1..n : head[i] = wal[i]
<1>1. /\ FirstRecs(wal, n) \in Seq(Rec) /\ Len(FirstRecs(wal, n)) = n
      /\ \A i \in 1..n : FirstRecs(wal, n)[i] = wal[i]
  BY DEF FirstRecs
<1> DEFINE f == FirstRecs(wal, n)
<1> HIDE DEF f
<1>2. /\ Append(f, r) \in Seq(Rec) /\ Len(Append(f, r)) = n + 1 /\ Append(f, r)[n + 1] = r
      /\ \A i \in 1..n : Append(f, r)[i] = f[i]
  BY <1>1 DEF f
<1>. QED BY <1>1, <1>2 DEF f

\* Log u is log w up to its first n records, and behind them holds records
\* of r or such as stood behind them.
Rewrites(u, w, n, r) ==
  /\ u \in Seq(Rec) /\ n <= Len(u) /\ \A i \in 1..n : u[i] = w[i]
  /\ \A i \in (n + 1)..Len(u) : u[i] = r \/ \E j \in (n + 1)..Len(w) : u[i] = w[j]

\* The records of two logs one behind the other.
LEMMA JoinedLogs ==
  ASSUME NEW u \in Seq(Rec), NEW w \in Seq(Rec)
  PROVE  /\ u \o w \in Seq(Rec) /\ Len(u \o w) = Len(u) + Len(w)
         /\ \A i \in 1..Len(u) : (u \o w)[i] = u[i]
         /\ \A i \in (Len(u) + 1)..(Len(u) + Len(w)) : (u \o w)[i] = w[i - Len(u)]
OBVIOUS

\* After a write in the middle of the log, what follows it is the record
\* written or one that followed before.
LEMMA WrittenLogs ==
  ASSUME wal \in Seq(Rec), garbled \in BOOLEAN, NEW r \in Rec, NEW n \in 0..Len(wal),
         NEW l \in WrittenOver(n, r)
  PROVE  Rewrites(l.recs, wal, n, r) /\ Len(l.recs) >= n + 1 /\ l.rest \in BOOLEAN
<1> DEFINE head == Append(FirstRecs(wal, n), r)
<1>1. /\ head \in Seq(Rec) /\ Len(head) = n + 1 /\ head[n + 1] = r
      /\ \A i \in 1..n : head[i] = wal[i]
  BY HeadOfLog
<1> HIDE DEF head
<1>2. CASE l.recs = head /\ l.rest \in BOOLEAN
  <2>1. \A i \in (n + 1)..Len(head) : i = n + 1
    BY <1>1
  <2>. QED BY <1>1, <1>2, <2>1 DEF Rewrites
<1>3. ASSUME NEW j \in (n + 2)..(Len(wal) + 1), l.recs = head \o SubSeq(wal, j, Len(wal)), l.rest = garbled
      PROVE  Rewrites(l.recs, wal, n, r) /\ Len(l.recs) >= n + 1 /\ l.rest \in BOOLEAN
  <2> DEFINE tail == SubSeq(wal, j, Len(wal))
  <2>1. /\ tail \in Seq(Rec) /\ Len(tail) = Len(wal) - j + 1
        /\ \A i \in 1..(Len(wal) - j + 1) : tail[i] = wal[i + j - 1]
    OBVIOUS
  <2> HIDE DEF tail
  <2> DEFINE whole == head \o tail
  <2>2. /\ whole \in Seq(Rec) /\ Len(whole) = Len(head) + Len(tail)
        /\ \A i \in 1..Len(head) : whole[i] = head[i]
        /\ \A i \in (Len(head) + 1)..(Len(head) + Len(tail)) : whole[i] = tail[i - Len(head)]
    BY <1>1, <2>1, JoinedLogs, Zenon
  <2> HIDE DEF whole
  <2>3. ASSUME NEW i \in (n + 2)..(n + 1 + Len(tail))
        PROVE  \E m \in (n + 1)..Len(wal) : whole[i] = wal[m]
    <3>1. i - (n + 1) \in 1..Len(tail)
      BY <2>1
    <3>2. whole[i] = wal[i - (n + 1) + j - 1]
      BY <1>1, <2>1, <2>2, <3>1
    <3>3. i - (n + 1) + j - 1 \in (n + 1)..Len(wal)
      BY <2>1, <3>1
    <3>. QED BY <3>2, <3>3
  <2>4. whole[n + 1] = r /\ \A i \in 1..n : whole[i] = wal[i]
    BY <1>1, <2>2
  <2>5. n <= Len(whole) /\ Len(whole) >= n + 1
    BY <1>1, <2>1, <2>2
  <2>6. ASSUME NEW i \in (n + 1)..Len(whole)
        PROVE  whole[i] = r \/ \E m \in (n + 1)..Len(wal) : whole[i] = wal[m]
    <3>1. i = n + 1 \/ i \in (n + 2)..(n + 1 + Len(tail))
      BY <1>1, <2>1, <2>2
    <3>. QED BY <2>3, <2>4, <3>1
  <2>7. l.recs = whole
    BY <1>3 DEF whole, tail
  <2>. QED BY <1>3, <2>2, <2>4, <2>5, <2>6, <2>7 DEF Rewrites
<1>4. \/ l.recs = head /\ l.rest \in BOOLEAN
      \/ \E j \in (n + 2)..(Len(wal) + 1) :
           l.recs = head \o SubSeq(wal, j, Len(wal)) /\ l.rest = garbled
  <2> DEFINE joined(j) == head \o SubSeq(wal, j, Len(wal))
  <2>1. \/ l \in {[recs |-> head, rest |-> FALSE]}
        \/ l \in {[recs |-> joined(j), rest |-> garbled] : j \in n + 2..Len(wal) + 1}
        \/ l \in {[recs |-> head, rest |-> g] : g \in BOOLEAN}
    BY DEF WrittenOver, head
  <2> HIDE DEF joined
  <2>2. CASE l \in {[recs |-> head, rest |-> FALSE]}
    <3>1. l.recs = head /\ l.rest = FALSE
      BY <2>2
    <3>. QED BY <3>1
  <2>3. CASE l \in {[recs |-> joined(j), rest |-> garbled] : j \in n + 2..Len(wal) + 1}
    <3>1. PICK j \in (n + 2)..(Len(wal) + 1) : l = [recs |-> joined(j), rest |-> garbled]
      BY <2>3
    <3>2. l.recs = joined(j) /\ l.rest = garbled
      BY <3>1
    <3>. QED BY <3>2 DEF joined
  <2>4. CASE l \in {[recs |-> head, rest |-> g] : g \in BOOLEAN}
    BY <2>4
  <2>. QED BY <2>1, <2>2, <2>3, <2>4
<1>. QED BY <1>2, <1>3, <1>4

\* A rewriting from some record on is one from any record before it on.
LEMMA RewritesEarlier ==
  ASSUME NEW u, NEW w \in Seq(Rec), NEW n \in 0..Len(w), NEW m \in 0..n, NEW r,
         Rewrites(u, w, n, r)
  PROVE  Rewrites(u, w, m, r)
<1>1. u \in Seq(Rec) /\ m <= Len(u) /\ \A i \in 1..m : u[i] = w[i]
  BY DEF Rewrites
<1>2. ASSUME NEW i \in (m + 1)..Len(u)
      PROVE  u[i] = r \/ \E j \in (m + 1)..Len(w) : u[i] = w[j]
  <2>1. CASE i <= n
    BY <2>1 DEF Rewrites
  <2>2. CASE i > n
    <3>1. u[i] = r \/ \E j \in (n + 1)..Len(w) : u[i] = w[j]
      BY <1>1, <2>2 DEF Rewrites
    <3>. QED BY <3>1
  <2>. QED BY <1>1, <2>1, <2>2
<1>. QED BY <1>1, <1>2 DEF Rewrites

\* So is cutting the log.
LEMMA CutRewrites ==
  ASSUME NEW w \in Seq(Rec), NEW n \in 0..Len(w), NEW m \in 0..n, NEW r
  PROVE  Rewrites(FirstRecs(w, n), w, m, r) /\ Len(FirstRecs(w, n)) = n
<1>1. /\ FirstRecs(w, n) \in Seq(Rec) /\ Len(FirstRecs(w, n)) = n
      /\ \A i \in 1..n : FirstRecs(w, n)[i] = w[i]
  BY DEF FirstRecs
<1>2. Rewrites(FirstRecs(w, n), w, n, r)
  BY <1>1 DEF Rewrites
<1>. QED BY <1>1, <1>2, RewritesEarlier

\* Where a process stands is in the log; behind bytes no replay gets over it
\* stands at the end.
Offset ==
  /\ wal \in Seq(Rec) /\ garbled \in BOOLEAN
  /\ at \in [Proc -> 0..Len(wal)] /\ footing \in [Proc -> Footing]
  /\ \A p \in Proc : footing[p] = "behind" => at[p] = Len(wal)

\* A write leaves what lies before the offset of its process.
LEMMA LogsAfter ==
  ASSUME Offset, NEW p \in Proc, NEW r \in Rec, NEW l \in AfterAppend(p, r)
  PROVE  /\ Rewrites(l.recs, wal, at[p], r) /\ l.rest \in BOOLEAN
         /\ footing[p] = "sure" => Len(l.recs) >= at[p] + 1
         /\ footing[p] = "behind" => l.recs = wal
         /\ AtEnd(p) => l.recs = Append(wal, r) /\ ~l.rest
<1>1. at[p] \in 0..Len(wal) /\ Landing(p) \in SUBSET (at[p]..Len(wal)) /\ Len(wal) \in Nat
  BY DEF Offset, Landing
<1>2. CASE footing[p] = "behind"
  <2>1. l \in {[recs |-> wal, rest |-> TRUE]}
    BY <1>2 DEF AfterAppend
  <2>2. l.recs = wal /\ l.rest = TRUE
    BY <2>1
  <2>3. Rewrites(wal, wal, at[p], r)
    BY <1>1 DEF Rewrites, Offset
  <2>. QED BY <1>2, <2>2, <2>3 DEF AtEnd
<1>3. ASSUME NEW n \in Landing(p), l \in WrittenOver(n, r), footing[p] # "behind"
      PROVE  /\ Rewrites(l.recs, wal, at[p], r) /\ l.rest \in BOOLEAN
             /\ footing[p] = "sure" => Len(l.recs) >= at[p] + 1
             /\ AtEnd(p) => l.recs = Append(wal, r) /\ ~l.rest
  <2>1. n \in 0..Len(wal) /\ at[p] \in 0..n
    BY <1>1
  <2>2. Rewrites(l.recs, wal, n, r) /\ Len(l.recs) >= n + 1 /\ l.rest \in BOOLEAN
    BY <1>3, <2>1, WrittenLogs DEF Offset
  <2>3. Rewrites(l.recs, wal, at[p], r)
    BY <2>1, <2>2, RewritesEarlier DEF Offset
  <2>4. Len(l.recs) \in Nat
    BY <2>2 DEF Rewrites
  <2>5. ASSUME AtEnd(p) PROVE l.recs = Append(wal, r) /\ ~l.rest
    <3>1. n = Len(wal) /\ ~garbled
      BY <2>5 DEF AtEnd, Landing
    <3>2. l \in {[recs |-> Append(FirstRecs(wal, n), r), rest |-> FALSE]}
      BY <1>3, <3>1 DEF WrittenOver
    <3>3. l.recs = Append(FirstRecs(wal, n), r) /\ l.rest = FALSE
      BY <3>2
    <3>. QED BY <3>1, <3>3, WholePrefix DEF Offset
  <2>. QED BY <2>1, <2>2, <2>3, <2>4, <2>5
<1>4. ASSUME NEW n \in Landing(p), l = [recs |-> FirstRecs(wal, n), rest |-> TRUE], footing[p] = "adrift"
      PROVE  Rewrites(l.recs, wal, at[p], r) /\ l.rest \in BOOLEAN
  <2>1. n \in 0..Len(wal) /\ at[p] \in 0..n
    BY <1>1
  <2>2. l.recs = FirstRecs(wal, n) /\ l.rest = TRUE
    BY <1>4
  <2>. QED BY <2>1, <2>2, CutRewrites DEF Offset
<1>5. CASE footing[p] # "behind"
  <2>1. \/ \E n \in Landing(p) : l \in WrittenOver(n, r)
        \/ \E n \in Landing(p) :
             footing[p] = "adrift" /\ l = [recs |-> FirstRecs(wal, n), rest |-> TRUE]
    BY <1>5 DEF AfterAppend
  <2>. QED BY <1>3, <1>4, <1>5, <2>1 DEF AtEnd
<1>. QED BY <1>2, <1>5

\* What a write does to the log, to what is synced of it and to both offsets:
\* what was before the offset of its process stays, and no offset comes to
\* lie before that one which did not already.
LEMMA WriteMoves ==
  ASSUME Offset, synced \in 0..Len(wal), NEW p \in Proc, NEW r \in Rec, NEW sync \in BOOLEAN,
         DbWrite(p, r, sync)
  PROVE  /\ Rewrites(wal', wal, at[p], r) /\ at[p] \in 0..Len(wal) /\ Len(wal') \in Nat
         /\ Offset' /\ synced' \in 0..Len(wal')
         /\ \A q \in Proc : at'[q] >= at[p] \/ at'[q] = at[q]
         /\ synced' >= at[p] \/ synced' = synced
         /\ AtEnd(p) => wal' = Append(wal, r) /\ ~garbled' /\ \A q \in Proc \ {p} : at'[q] = at[q]
<1>1. PICK l \in AfterAppend(p, r) :
        /\ wal' = l.recs /\ garbled' = l.rest
        /\ synced' = IF sync THEN Len(wal') ELSE Smaller(synced, at[p])
  BY DEF DbWrite
<1>2. /\ Rewrites(wal', wal, at[p], r) /\ garbled' \in BOOLEAN
      /\ footing[p] = "sure" => Len(wal') >= at[p] + 1
      /\ footing[p] = "behind" => wal' = wal
      /\ AtEnd(p) => wal' = Append(wal, r) /\ ~garbled'
  BY <1>1, LogsAfter
<1>3. /\ wal' \in Seq(Rec) /\ Len(wal') \in Nat /\ Len(wal) \in Nat /\ at[p] <= Len(wal')
      /\ \A q \in Proc : at[q] \in 0..Len(wal) /\ footing[q] \in Footing
  BY <1>2 DEF Rewrites, Offset
<1>4. /\ at' = [Lowered(p) EXCEPT ![p] = IF footing[p] = "sure" THEN at[p] + 1 ELSE at[p]]
      /\ footing' = Displaced(p)
  BY DEF DbWrite, Lowered, Displaces, Offset
<1>5. ASSUME NEW q \in Proc, q # p
      PROVE  /\ footing'[q] = IF Displaces(p, q) THEN "adrift" ELSE footing[q]
             /\ at'[q] = IF Displaces(p, q) THEN Smaller(at[q], at[p]) ELSE at[q]
  BY <1>4, <1>5 DEF Displaced, Lowered
<1>6. /\ footing'[p] = footing[p]
      /\ at'[p] = IF footing[p] = "sure" THEN at[p] + 1 ELSE at[p]
  BY <1>4 DEF Displaced, Lowered
<1>7. ASSUME NEW q \in Proc
      PROVE  /\ at'[q] \in 0..Len(wal') /\ footing'[q] \in Footing
             /\ footing'[q] = "behind" => at'[q] = Len(wal')
             /\ at'[q] >= at[p] \/ at'[q] = at[q]
             /\ AtEnd(p) => q = p \/ at'[q] = at[q]
  <2>1. CASE q = p
    BY <1>2, <1>3, <1>6, <2>1 DEF Offset
  <2>2. CASE q # p /\ Displaces(p, q)
    BY <1>3, <1>5, <2>2 DEF Smaller, Footing, Displaces, AtEnd
  <2>3. CASE q # p /\ ~Displaces(p, q)
    <3>1. at'[q] = at[q] /\ footing'[q] = footing[q]
      BY <1>5, <2>3
    <3>2. CASE footing[p] = "behind"
      BY <1>2, <1>3, <2>3, <3>1, <3>2 DEF Offset
    <3>3. CASE footing[p] # "behind"
      <4>1. footing[q] = "sure" /\ ~(at[q] > at[p])
        BY <2>3, <3>3 DEF Displaces
      <4>. QED BY <1>3, <3>1, <4>1
    <3>. QED BY <3>2, <3>3
  <2>. QED BY <2>1, <2>2, <2>3
<1>8. at' \in [Proc -> 0..Len(wal')] /\ footing' \in [Proc -> Footing]
  <2>1. at' = [q \in Proc |-> at'[q]] /\ footing' = [q \in Proc |-> footing'[q]]
    BY <1>4 DEF Displaced, Lowered
  <2>. QED BY <1>7, <2>1
<1>9. Offset'
  BY <1>2, <1>3, <1>7, <1>8 DEF Offset
<1>10. synced' \in 0..Len(wal') /\ (synced' >= at[p] \/ synced' = synced)
  BY <1>1, <1>3 DEF Smaller
<1>. QED BY <1>2, <1>3, <1>7, <1>9, <1>10

-----------------------------------------------------------------------------
(* Types, and where each process may stand *)

Stations ==
  /\ pc["server"] \in {"closed", "loaded", "ready", "written", "written out"}
  /\ pc["repl"] \in {"closed", "loaded", "ready", "renamed"}
  /\ stale \subseteq {"server"}
  /\ request # None <=> pc["server"] \in {"written", "written out"}
  /\ \A p \in Proc : footing[p] = "behind" => at[p] = Len(wal)

FrameIInv == TypeOK /\ Stations

\* TypeOK in the parts that the actions touch.
SessionTypes == pc \in [Proc -> PCs] /\ view \in [Proc -> Map] /\ ops \in [Proc -> 0..SyncEvery] /\ stale \subseteq Proc
PromiseTypes ==
  /\ request \in [rec : Rec, undisturbed : BOOLEAN] \cup {None}
  /\ owed \in Map /\ disorder \in BOOLEAN

\* TypeOK by the parts of the state an action may leave alone.
LEMMA TypeParts ==
  TypeOK <=> /\ wal \in Seq(Rec) /\ garbled \in BOOLEAN /\ synced \in 0..Len(wal) /\ base \in Map
             /\ at \in [Proc -> 0..Len(wal)] /\ footing \in [Proc -> Footing]
             /\ SessionTypes /\ PromiseTypes
BY DEF TypeOK, SessionTypes, PromiseTypes

\* What an action has to show to keep the frame.
LEMMA NextTypes ==
  ASSUME wal' \in Seq(Rec), garbled' \in BOOLEAN, synced' \in 0..Len(wal'), base' \in Map,
         at' \in [Proc -> 0..Len(wal')], footing' \in [Proc -> Footing],
         SessionTypes', PromiseTypes', Stations'
  PROVE  FrameIInv'
BY DEF FrameIInv, TypeOK, SessionTypes, PromiseTypes

\* The offsets of the frame lie in the log.
LEMMA FrameOffset ==
  ASSUME FrameIInv
  PROVE  Offset /\ synced \in 0..Len(wal) /\ Len(wal) \in Nat
<1>1. wal \in Seq(Rec) /\ garbled \in BOOLEAN /\ synced \in 0..Len(wal)
      /\ at \in [Proc -> 0..Len(wal)] /\ footing \in [Proc -> Footing]
  BY TypeParts DEF FrameIInv
<1>2. \A p \in Proc : footing[p] = "behind" => at[p] = Len(wal)
  BY DEF FrameIInv, Stations
<1>3. Len(wal) \in Nat
  BY <1>1
<1>. QED BY <1>1, <1>2, <1>3 DEF Offset

\* So does the start of the log.
LEMMA StartOfLog ==
  ASSUME FrameIInv
  PROVE  0 \in 0..Len(wal)
BY FrameOffset

\* The empty store is a store.
LEMMA EmptyMapType == EmptyMap \in Map /\ \A k \in Key : EmptyMap[k] = None
BY DEF EmptyMap, Map

\* An empty directory, both processes down.
LEMMA InitFrame == Init => FrameIInv
<1> SUFFICES ASSUME Init PROVE FrameIInv
  OBVIOUS
<1>1. wal = <<>> /\ wal \in Seq(Rec) /\ Len(wal) = 0
  BY DEF Init
<1>2. synced \in 0..Len(wal) /\ at \in [Proc -> 0..Len(wal)]
  BY <1>1 DEF Init
<1>3. SessionTypes
  BY EmptyMapType, DatabaseAssumption DEF Init, SessionTypes, PCs
<1>4. PromiseTypes /\ garbled \in BOOLEAN /\ base \in Map /\ footing \in [Proc -> Footing]
  BY EmptyMapType DEF Init, PromiseTypes, Footing
<1>5. Stations
  BY <1>1 DEF Init, Stations, Proc
<1>. QED BY <1>1, <1>2, <1>3, <1>4, <1>5, TypeParts DEF FrameIInv

\* Replaying one record changes the map at its key alone.
LEMMA AppliedType ==
  ASSUME NEW m \in Map, NEW r \in Rec
  PROVE  /\ Applied(m, r) \in Map /\ Applied(m, r)[r.key] = r.val
         /\ \A k \in Key : k # r.key => Applied(m, r)[k] = m[k]
BY DEF Applied, Map, Rec

\* Replay ends in a map.
LEMMA LogReplays ==
  ASSUME NEW w \in Seq(Rec), NEW m \in Map
  PROVE  Replayed(m, w) \in Map
BY EveryLogHasLast, ReplayedType

\* A session that ends.
LEMMA LeaveTypes ==
  ASSUME FrameIInv, NEW p \in Proc, LeaveMemory(p)
  PROVE  /\ SessionTypes' /\ stale' \subseteq stale
         /\ pc'[p] = "closed" /\ \A q \in Proc \ {p} : pc'[q] = pc[q] /\ view'[q] = view[q]
<1>1. SessionTypes
  BY TypeParts DEF FrameIInv
<1>2. 0 \in 0..SyncEvery /\ "closed" \in PCs
  BY DatabaseAssumption DEF PCs
<1>3. pc' = [pc EXCEPT ![p] = "closed"] /\ view' = [view EXCEPT ![p] = EmptyMap]
      /\ ops' = [ops EXCEPT ![p] = 0] /\ stale' = stale \ {p}
  BY DEF LeaveMemory
<1>4. SessionTypes'
  BY <1>1, <1>2, <1>3, EmptyMapType DEF SessionTypes
<1>. QED BY <1>1, <1>3, <1>4 DEF SessionTypes

\* Two processes whose sessions end with nothing done to the log.
LEMMA LeaveFrame ==
  ASSUME FrameIInv, NEW p \in Proc, Leave(p), UNCHANGED <<wal, garbled, base>>,
         synced' \in 0..Len(wal), PromiseTypes',
         request' # None <=> pc'["server"] \in {"written", "written out"}
  PROVE  FrameIInv'
<1>1. /\ wal \in Seq(Rec) /\ garbled \in BOOLEAN /\ base \in Map
      /\ at \in [Proc -> 0..Len(wal)] /\ footing \in [Proc -> Footing]
  BY TypeParts DEF FrameIInv
<1>2. /\ SessionTypes' /\ stale' \subseteq stale
      /\ pc'[p] = "closed" /\ \A q \in Proc \ {p} : pc'[q] = pc[q]
  BY LeaveTypes DEF Leave
<1>3. at' = [at EXCEPT ![p] = 0] /\ footing' = [footing EXCEPT ![p] = "sure"]
  BY DEF Leave
<1>4. at' \in [Proc -> 0..Len(wal')] /\ footing' \in [Proc -> Footing]
  <2>1. 0 \in 0..Len(wal)
    BY StartOfLog, Zenon
  <2>2. wal' = wal
    OBVIOUS
  <2>. QED BY <1>1, <1>3, <2>1, <2>2 DEF Footing
<1>5. \A q \in Proc : footing'[q] = "behind" => at'[q] = Len(wal')
  BY <1>1, <1>3 DEF FrameIInv, Stations
<1>6. Stations'
  BY <1>2, <1>5 DEF FrameIInv, Stations, Proc
<1>. QED BY <1>1, <1>2, <1>4, <1>6, NextTypes

\* db_open.
LEMMA OpenFrame ==
  ASSUME FrameIInv, NEW p \in Proc, LoadBase(p) \/ ReplayLog(p) \/ RejectLog(p)
  PROVE  FrameIInv'
<1>1. /\ wal \in Seq(Rec) /\ garbled \in BOOLEAN /\ synced \in 0..Len(wal) /\ base \in Map
      /\ at \in [Proc -> 0..Len(wal)] /\ footing \in [Proc -> Footing] /\ Len(wal) \in Nat
      /\ SessionTypes /\ PromiseTypes /\ Stations
  BY TypeParts DEF FrameIInv
<1>2. UNCHANGED <<wal, garbled, synced, base, request, owed, disorder>>
  BY DEF LoadBase, ReplayLog, RejectLog, store, ghosts
<1>3. PromiseTypes'
  BY <1>1, <1>2 DEF PromiseTypes
<1>4. CASE LoadBase(p)
  <2>1. /\ pc' = [pc EXCEPT ![p] = "loaded"] /\ view' = [view EXCEPT ![p] = base]
        /\ UNCHANGED <<at, footing, ops, stale>> /\ pc[p] = "closed"
    BY <1>4 DEF LoadBase, offsets
  <2>2. SessionTypes'
    BY <1>1, <2>1 DEF SessionTypes, PCs
  <2>3. Stations'
    BY <1>1, <1>2, <2>1 DEF SessionTypes, Stations, Proc
  <2>. QED BY <1>1, <1>2, <1>3, <2>1, <2>2, <2>3, NextTypes
<1>5. CASE ReplayLog(p)
  <2>1. /\ pc' = [pc EXCEPT ![p] = "ready"] /\ view' = [view EXCEPT ![p] = Replayed(view[p], wal)]
        /\ at' = [at EXCEPT ![p] = Len(wal)] /\ pc[p] = "loaded" /\ UNCHANGED <<ops, stale>>
        /\ footing' = [footing EXCEPT ![p] = IF garbled THEN "behind" ELSE "sure"]
    BY <1>1, <1>5 DEF ReplayLog, SessionTypes
  <2>2. Replayed(view[p], wal) \in Map
    BY <1>1, LogReplays DEF SessionTypes
  <2>3. SessionTypes'
    BY <1>1, <2>1, <2>2 DEF SessionTypes, PCs
  <2>4. at' \in [Proc -> 0..Len(wal)] /\ footing' \in [Proc -> Footing]
    BY <1>1, <2>1 DEF Footing
  <2>5. \A q \in Proc : footing'[q] = "behind" => at'[q] = Len(wal)
    BY <1>1, <2>1 DEF Stations
  <2>6. Stations'
    BY <1>1, <1>2, <2>1, <2>5 DEF SessionTypes, Stations, Proc
  <2>. QED BY <1>1, <1>2, <1>3, <2>3, <2>4, <2>6, NextTypes
<1>6. CASE RejectLog(p)
  <2>1. Leave(p) /\ pc[p] = "loaded"
    BY <1>6 DEF RejectLog
  <2>2. request' # None <=> pc'["server"] \in {"written", "written out"}
    BY <1>1, <1>2, <2>1 DEF Stations, Leave, LeaveMemory, SessionTypes, Proc
  <2>. QED BY <1>1, <1>2, <1>3, <2>1, <2>2, LeaveFrame
<1>. QED BY <1>4, <1>5, <1>6

\* A write, whoever makes it.
LEMMA WriteFrame ==
  ASSUME FrameIInv, NEW p \in Proc, NEW r \in Rec, NEW sync \in BOOLEAN, DbWrite(p, r, sync)
  PROVE  /\ wal' \in Seq(Rec) /\ garbled' \in BOOLEAN /\ synced' \in 0..Len(wal') /\ base' \in Map
         /\ view' \in [Proc -> Map] /\ at' \in [Proc -> 0..Len(wal')] /\ footing' \in [Proc -> Footing]
         /\ stale' = stale /\ \A q \in Proc : footing'[q] = "behind" => at'[q] = Len(wal')
<1>1. Offset' /\ synced' \in 0..Len(wal')
  BY FrameOffset, WriteMoves
<1>2. view \in [Proc -> Map] /\ base \in Map
  BY DEF FrameIInv, TypeOK
<1>3. view' = [view EXCEPT ![p] = Applied(view[p], r)] /\ UNCHANGED <<base, stale>>
  BY <1>2 DEF DbWrite
<1>4. view' \in [Proc -> Map]
  BY <1>2, <1>3, AppliedType
<1>. QED BY <1>1, <1>2, <1>3, <1>4 DEF Offset

\* A request of the server appends one record and waits for the close.
LEMMA PostFrame ==
  ASSUME FrameIInv, NEW r \in Rec, Post(r), disorder' \in BOOLEAN
  PROVE  FrameIInv'
<1>1. /\ DbWrite("server", r, FALSE) /\ pc' = [pc EXCEPT !["server"] = "written"]
      /\ ops' = [ops EXCEPT !["server"] = 1] /\ owed' = [owed EXCEPT ![r.key] = None]
  BY DEF Post
<1>2. request' \in [rec : Rec, undisturbed : BOOLEAN] /\ request' # None
  <2>1. (pc["repl"] = "closed" /\ AtEnd("server")) \in BOOLEAN
    BY DEF AtEnd
  <2>2. request' \in [rec : Rec, undisturbed : BOOLEAN]
    BY <2>1 DEF Post
  <2>. QED BY <2>2, DatabaseAssumption
<1>3. /\ wal' \in Seq(Rec) /\ garbled' \in BOOLEAN /\ synced' \in 0..Len(wal') /\ base' \in Map
      /\ view' \in [Proc -> Map] /\ at' \in [Proc -> 0..Len(wal')] /\ footing' \in [Proc -> Footing]
      /\ stale' = stale /\ \A q \in Proc : footing'[q] = "behind" => at'[q] = Len(wal')
  BY <1>1, WriteFrame DEF Proc
<1>4. SessionTypes /\ PromiseTypes /\ Stations
  BY TypeParts DEF FrameIInv
<1>5. 1 \in 0..SyncEvery
  BY DatabaseAssumption
<1>6. SessionTypes'
  BY <1>1, <1>3, <1>4, <1>5 DEF SessionTypes, PCs
<1>7. PromiseTypes'
  BY <1>1, <1>2, <1>4 DEF PromiseTypes, Map, Rec
<1>8. Stations'
  BY <1>1, <1>2, <1>3, <1>4 DEF SessionTypes, Stations, Proc
<1>. QED BY <1>3, <1>6, <1>7, <1>8, NextTypes

\* What the server writes is a record.
LEMMA NoteRec ==
  ASSUME NEW k \in Key, NEW t \in Payload, NEW n \in Namespace
  PROVE  /\ [key |-> k, val |-> [ns |-> n, text |-> t]] \in Rec
         /\ [ns |-> n, text |-> t] # None
         /\ [key |-> k, val |-> None] \in Rec
<1>1. [ns |-> n, text |-> t] \in Val
  BY DatabaseAssumption
<1>. QED BY <1>1, NoneAssumption DEF Rec

\* The number of a note is a position in NoteKey or past its end.
LEMMA NumberType ==
  ASSUME NEW m, NoteNumber(m) <= Len(NoteKey)
  PROVE  NoteNumber(m) \in 1..Len(NoteKey) /\ NoteKey[NoteNumber(m)] \in Key
<1>1. IsFiniteSet(Key) /\ Notes(m) \in SUBSET Key
  BY DatabaseAssumption DEF Notes, InNamespace
<1>2. Cardinality(Notes(m)) \in Nat
  BY <1>1, FS_Subset, FS_CardinalityType
<1>3. NoteNumber(m) \in 1..Len(NoteKey)
  BY <1>2, DatabaseAssumption DEF NoteNumber
<1>. QED BY <1>3, DatabaseAssumption

\* What clients send are keys and texts.
LEMMA ClientsPost ==
  ASSUME \/ \E d \in Documents : DatabaseSet(d[1], d[2])
         \/ \E t \in NoteTexts : DatabaseAddNote(t)
  PROVE  \/ \E k \in Key, t \in Payload : DatabaseSet(k, t)
         \/ \E t \in Payload : DatabaseAddNote(t)
<1>1. ASSUME NEW d \in Documents, DatabaseSet(d[1], d[2])
      PROVE  \E k \in Key, t \in Payload : DatabaseSet(k, t)
  <2>1. d[1] \in Key /\ d[2] \in Payload
    BY DatabaseAssumption
  <2>. QED BY <1>1, <2>1
<1>2. ASSUME NEW t \in NoteTexts, DatabaseAddNote(t) PROVE \E u \in Payload : DatabaseAddNote(u)
  BY <1>2, DatabaseAssumption
<1>. QED BY <1>1, <1>2

\* The requests.
LEMMA RequestFrame ==
  ASSUME FrameIInv,
         \/ \E k \in Key, t \in Payload : DatabaseSet(k, t)
         \/ \E t \in Payload : DatabaseAddNote(t)
  PROVE  FrameIInv'
<1>1. disorder \in BOOLEAN
  BY DEF FrameIInv, TypeOK
<1>2. ASSUME NEW k \in Key, NEW t \in Payload, DatabaseSet(k, t) PROVE FrameIInv'
  <2>1. k \in Key /\ "database" \in Namespace
    BY DatabaseAssumption DEF Namespace
  <2>2. [key |-> k, val |-> [ns |-> "database", text |-> t]] \in Rec
    BY <2>1, NoteRec
  <2>3. disorder' \in BOOLEAN
    BY <1>1, <1>2 DEF DatabaseSet, IsNoteKey, AtEnd
  <2>. QED BY <1>2, <2>2, <2>3, PostFrame DEF DatabaseSet
<1>3. ASSUME NEW t \in Payload, DatabaseAddNote(t) PROVE FrameIInv'
  <2> DEFINE n == NoteNumber(view["server"])
             k == NoteKey[n]
  <2>1. n <= Len(NoteKey) /\ Post([key |-> k, val |-> [ns |-> "notes", text |-> t]])
    BY <1>3 DEF DatabaseAddNote
  <2>2. k \in Key /\ "notes" \in Namespace
    BY <2>1, NumberType DEF Namespace
  <2> HIDE DEF n, k
  <2>3. [key |-> k, val |-> [ns |-> "notes", text |-> t]] \in Rec
    BY <2>2, NoteRec
  <2>4. disorder' \in BOOLEAN
    BY <1>1, <1>3 DEF DatabaseAddNote, AtEnd
  <2>. QED BY <2>1, <2>3, <2>4, PostFrame
<1>. QED BY <1>2, <1>3

\* db_close of a POST, its answer, and the end of a GET.
LEMMA AnswerFrame ==
  ASSUME FrameIInv, DbCloseAfterWrite \/ Reply \/ DoneReading
  PROVE  FrameIInv'
<1>1. /\ wal \in Seq(Rec) /\ garbled \in BOOLEAN /\ synced \in 0..Len(wal) /\ base \in Map
      /\ at \in [Proc -> 0..Len(wal)] /\ footing \in [Proc -> Footing]
      /\ SessionTypes /\ PromiseTypes /\ Stations
  BY TypeParts DEF FrameIInv
<1>2. Len(wal) \in Nat /\ Len(wal) \in 0..Len(wal)
  BY FrameOffset
<1>3. CASE DbCloseAfterWrite
  <2>1. /\ synced' = Len(wal) /\ pc' = [pc EXCEPT !["server"] = "written out"]
        /\ ops' = [ops EXCEPT !["server"] = 0] /\ pc["server"] = "written"
        /\ UNCHANGED <<wal, garbled, base, view, at, footing, stale, request, owed, disorder>>
    BY <1>3 DEF DbCloseAfterWrite, offsets, ghosts
  <2>2. 0 \in 0..SyncEvery
    BY DatabaseAssumption
  <2>3. SessionTypes'
    BY <1>1, <2>1, <2>2 DEF SessionTypes, PCs
  <2>4. PromiseTypes'
    BY <1>1, <2>1 DEF PromiseTypes
  <2>5. Stations'
    BY <1>1, <2>1 DEF Stations, SessionTypes, Proc
  <2>. QED BY <1>1, <1>2, <2>1, <2>3, <2>4, <2>5, NextTypes
<1>4. CASE Reply
  <2>1. /\ Leave("server") /\ request' = None /\ UNCHANGED <<wal, garbled, synced, base, disorder>>
        /\ owed' = IF request.undisturbed
                   THEN [owed EXCEPT ![request.rec.key] = request.rec.val] ELSE owed
        /\ pc["server"] = "written out"
    BY <1>4 DEF Reply, store
  <2>2. request # None
    BY <1>1, <2>1 DEF Stations
  <2>3. request.rec.val \in Val \cup {None}
    BY <1>1, <2>2 DEF PromiseTypes, Rec
  <2>4. PromiseTypes'
    BY <1>1, <2>1, <2>3 DEF PromiseTypes, Map
  <2>5. pc'["server"] = "closed"
    BY <1>1, <2>1 DEF Leave, LeaveMemory, SessionTypes, Proc
  <2>. QED BY <1>1, <2>1, <2>4, <2>5, LeaveFrame DEF Proc
<1>5. CASE DoneReading
  <2>1. /\ Leave("server") /\ pc["server"] = "ready"
        /\ UNCHANGED <<wal, garbled, synced, base, request, owed, disorder>>
    BY <1>5 DEF DoneReading, store, ghosts
  <2>2. PromiseTypes'
    BY <1>1, <2>1 DEF PromiseTypes
  <2>3. pc'["server"] = "closed" /\ request' = None
    BY <1>1, <2>1 DEF Leave, LeaveMemory, SessionTypes, Proc, Stations
  <2>. QED BY <1>1, <2>1, <2>2, <2>3, LeaveFrame DEF Proc
<1>. QED BY <1>3, <1>4, <1>5

\* SET and DELETE of the REPL.
LEMMA ReplWriteFrame ==
  ASSUME FrameIInv, NEW r \in Rec, ReplWrite(r)
  PROVE  FrameIInv'
<1> DEFINE due == ops["repl"] + 1 >= SyncEvery
<1>1. /\ DbWrite("repl", r, due) /\ ops' = [ops EXCEPT !["repl"] = IF due THEN 0 ELSE @ + 1]
      /\ owed' = [owed EXCEPT ![r.key] = None] /\ pc' = pc
      /\ disorder' = (disorder \/ MeddlesWithNotes(r) \/ ~AtEnd("repl"))
      /\ request' = IF request # None /\ request.rec.key = r.key
                    THEN [request EXCEPT !.undisturbed = FALSE] ELSE request
  BY DEF ReplWrite
<1>2. SessionTypes /\ PromiseTypes /\ Stations
  BY TypeParts DEF FrameIInv
<1>3. due \in BOOLEAN
  OBVIOUS
<1>4. /\ wal' \in Seq(Rec) /\ garbled' \in BOOLEAN /\ synced' \in 0..Len(wal') /\ base' \in Map
      /\ view' \in [Proc -> Map] /\ at' \in [Proc -> 0..Len(wal')] /\ footing' \in [Proc -> Footing]
      /\ stale' = stale /\ \A q \in Proc : footing'[q] = "behind" => at'[q] = Len(wal')
  BY <1>1, <1>3, WriteFrame DEF Proc
<1>5. ops' \in [Proc -> 0..SyncEvery]
  <2>1. ops["repl"] \in 0..SyncEvery /\ SyncEvery \in Nat
    BY <1>2, DatabaseAssumption DEF SessionTypes, Proc
  <2>2. (IF due THEN 0 ELSE ops["repl"] + 1) \in 0..SyncEvery
    BY <2>1
  <2>. QED BY <1>1, <1>2, <2>2 DEF SessionTypes
<1>6. request' \in [rec : Rec, undisturbed : BOOLEAN] \cup {None} /\ (request' = None <=> request = None)
  <2>1. CASE request = None
    BY <1>1, <2>1
  <2>2. CASE request # None
    <3>1. request \in [rec : Rec, undisturbed : BOOLEAN]
      BY <1>2, <2>2 DEF PromiseTypes
    <3>2. [request EXCEPT !.undisturbed = FALSE] \in [rec : Rec, undisturbed : BOOLEAN]
      BY <3>1
    <3>. QED BY <1>1, <2>2, <3>1, <3>2, DatabaseAssumption
  <2>. QED BY <2>1, <2>2
<1>7. SessionTypes'
  BY <1>1, <1>2, <1>4, <1>5 DEF SessionTypes
<1>8. PromiseTypes'
  BY <1>1, <1>2, <1>6 DEF PromiseTypes, Map, Rec, IsNoteKey, AtEnd
<1>9. Stations'
  BY <1>1, <1>2, <1>4, <1>6 DEF Stations
<1>. QED BY <1>4, <1>7, <1>8, <1>9, NextTypes

\* COMPACT and EXIT.
LEMMA CompactFrame ==
  ASSUME FrameIInv, CompactRename \/ CompactTruncate \/ ReplExit
  PROVE  FrameIInv'
<1>1. /\ wal \in Seq(Rec) /\ garbled \in BOOLEAN /\ synced \in 0..Len(wal) /\ base \in Map
      /\ at \in [Proc -> 0..Len(wal)] /\ footing \in [Proc -> Footing]
      /\ SessionTypes /\ PromiseTypes /\ Stations
  BY TypeParts DEF FrameIInv
<1>2. Len(wal) \in Nat /\ Len(wal) \in 0..Len(wal) /\ 0 \in 0..SyncEvery
  BY FrameOffset, DatabaseAssumption
<1>3. CASE CompactRename
  <2>1. /\ pc' = [pc EXCEPT !["repl"] = "renamed"] /\ ops' = [ops EXCEPT !["repl"] = 0]
        /\ base' = view["repl"] /\ synced' = IF ops["repl"] > 0 THEN Len(wal) ELSE synced
        /\ UNCHANGED <<wal, garbled, view, at, footing, stale, request, owed, disorder>>
    BY <1>3 DEF CompactRename, offsets, ghosts
  <2>2. SessionTypes' /\ base' \in Map
    BY <1>1, <1>2, <2>1 DEF SessionTypes, PCs, Proc
  <2>3. PromiseTypes'
    BY <1>1, <2>1 DEF PromiseTypes
  <2>4. Stations'
    BY <1>1, <2>1 DEF Stations, SessionTypes, Proc
  <2>. QED BY <1>1, <1>2, <2>1, <2>2, <2>3, <2>4, NextTypes
<1>4. CASE CompactTruncate
  <2>1. /\ wal' = <<>> /\ garbled' = FALSE /\ synced' = 0 /\ at' = [p \in Proc |-> 0]
        /\ footing' = [repl |-> "sure", server |-> IF at["server"] = 0 THEN footing["server"] ELSE "adrift"]
        /\ stale' = IF pc["server"] \in {"loaded", "ready"} THEN stale \cup {"server"} ELSE stale
        /\ pc' = [pc EXCEPT !["repl"] = "ready"]
        /\ UNCHANGED <<base, view, ops, request, owed, disorder>>
    BY <1>4 DEF CompactTruncate, ghosts
  <2>2. wal' \in Seq(Rec) /\ Len(wal') = 0
    BY <2>1
  <2>3. footing' \in [Proc -> Footing] /\ at' \in [Proc -> 0..Len(wal')]
    <3>1. footing["server"] \in Footing /\ "sure" \in Footing /\ "adrift" \in Footing
      BY <1>1 DEF Proc, Footing
    <3>. QED BY <2>1, <2>2, <3>1 DEF Proc
  <2>4. SessionTypes'
    BY <1>1, <2>1 DEF SessionTypes, PCs, Proc
  <2>5. PromiseTypes'
    BY <1>1, <2>1 DEF PromiseTypes
  <2>6. Stations'
    BY <1>1, <2>1, <2>2 DEF Stations, SessionTypes, Proc
  <2>. QED BY <1>1, <2>1, <2>2, <2>3, <2>4, <2>5, <2>6, NextTypes
<1>5. CASE ReplExit
  <2>1. /\ Leave("repl") /\ synced' = IF ops["repl"] > 0 THEN Len(wal) ELSE synced
        /\ UNCHANGED <<wal, garbled, base, request, owed, disorder>>
    BY <1>5 DEF ReplExit, ghosts
  <2>2. PromiseTypes'
    BY <1>1, <2>1 DEF PromiseTypes
  <2>3. pc'["server"] = pc["server"]
    BY <1>1, <2>1 DEF Leave, LeaveMemory, SessionTypes, Proc
  <2>. QED BY <1>1, <1>2, <2>1, <2>2, <2>3, LeaveFrame DEF Proc, Stations
<1>. QED BY <1>3, <1>4, <1>5

\* What a process killed inside a write leaves of the log.
LEMMA TearMoves ==
  ASSUME Offset, synced \in 0..Len(wal), NEW p \in Proc, TornAppend(p)
  PROVE  /\ \E n \in at[p]..Len(wal) :
              /\ wal' = FirstRecs(wal, n) /\ Len(wal') = n /\ synced' = Smaller(synced, n)
              /\ disorder' = (disorder \/ n # Len(wal))
         /\ at[p] \in 0..Len(wal) /\ Offset' /\ synced' \in 0..Len(wal') /\ Len(wal') \in Nat
         /\ \A q \in Proc \ {p} : at'[q] <= at[q] /\ (at'[q] >= at[p] \/ at'[q] = at[q])
<1>1. /\ Len(wal) \in Nat
      /\ \A q \in Proc : at[q] \in 0..Len(wal) /\ footing[q] \in Footing
  BY DEF Offset
<1>2. PICK n \in Landing(p) :
        /\ wal' = FirstRecs(wal, n) /\ synced' = Smaller(synced, n)
        /\ disorder' = (disorder \/ n # Len(wal))
  BY DEF TornAppend
<1>3. n \in at[p]..Len(wal) /\ n \in 0..Len(wal) /\ (footing[p] # "adrift" => n = at[p])
  BY <1>1 DEF Landing
<1>4. wal' \in Seq(Rec) /\ Len(wal') = n
  BY <1>2, <1>3, CutRewrites DEF FirstRecs, Offset
<1>5. garbled' \in BOOLEAN /\ at' = [Lowered(p) EXCEPT ![p] = 0]
      /\ footing' = [Displaced(p) EXCEPT ![p] = "sure"]
  BY DEF TornAppend
<1>6. at'[p] = 0 /\ footing'[p] = "sure"
  BY <1>5 DEF Lowered, Displaced
<1>7. ASSUME NEW q \in Proc, q # p
      PROVE  /\ footing'[q] = IF Displaces(p, q) THEN "adrift" ELSE footing[q]
             /\ at'[q] = IF Displaces(p, q) THEN Smaller(at[q], at[p]) ELSE at[q]
  BY <1>5, <1>7 DEF Displaced, Lowered
<1>8. ASSUME NEW q \in Proc
      PROVE  /\ at'[q] \in 0..Len(wal') /\ footing'[q] \in Footing
             /\ footing'[q] = "behind" => at'[q] = Len(wal')
             /\ q # p => at'[q] <= at[q] /\ (at'[q] >= at[p] \/ at'[q] = at[q])
  <2>1. CASE q = p
    BY <1>3, <1>4, <1>6, <2>1 DEF Footing
  <2>2. CASE q # p /\ Displaces(p, q)
    BY <1>1, <1>3, <1>4, <1>7, <2>2 DEF Smaller, Footing, Displaces
  <2>3. CASE q # p /\ ~Displaces(p, q)
    <3>1. at'[q] = at[q] /\ footing'[q] = footing[q]
      BY <1>7, <2>3
    <3>2. CASE footing[p] = "behind"
      <4>1. n = Len(wal)
        BY <1>3, <3>2 DEF Offset
      <4>. QED BY <1>1, <1>4, <3>1, <4>1 DEF Offset
    <3>3. CASE footing[p] # "behind"
      <4>1. footing[q] = "sure" /\ ~(at[q] > at[p])
        BY <2>3, <3>3 DEF Displaces
      <4>. QED BY <1>1, <1>3, <1>4, <3>1, <4>1
    <3>. QED BY <3>2, <3>3
  <2>. QED BY <2>1, <2>2, <2>3
<1>9. at' \in [Proc -> 0..Len(wal')] /\ footing' \in [Proc -> Footing]
  <2>1. at' = [q \in Proc |-> at'[q]] /\ footing' = [q \in Proc |-> footing'[q]]
    BY <1>5 DEF Displaced, Lowered
  <2>. QED BY <1>8, <2>1
<1>10. Offset'
  BY <1>4, <1>5, <1>8, <1>9 DEF Offset
<1>11. synced' \in 0..Len(wal')
  BY <1>2, <1>3, <1>4 DEF Smaller
<1>. QED BY <1>1, <1>2, <1>3, <1>4, <1>8, <1>10, <1>11

\* A killed process leaves the files, a power loss a prefix of the log.
LEMMA FaultFrame ==
  ASSUME FrameIInv, PowerLoss \/ \E p \in Proc : Kill(p)
  PROVE  FrameIInv'
<1>1. /\ wal \in Seq(Rec) /\ garbled \in BOOLEAN /\ synced \in 0..Len(wal) /\ base \in Map
      /\ at \in [Proc -> 0..Len(wal)] /\ footing \in [Proc -> Footing]
      /\ SessionTypes /\ PromiseTypes /\ Stations
  BY TypeParts DEF FrameIInv
<1>2. Len(wal) \in Nat /\ Offset
  BY FrameOffset
<1>3. ASSUME NEW p \in Proc, Kill(p) PROVE FrameIInv'
  <2>1. /\ LeaveMemory(p) /\ request' = (IF p = "server" THEN None ELSE request)
        /\ UNCHANGED <<base, owed>>
    BY <1>3 DEF Kill
  <2>2. /\ SessionTypes' /\ stale' \subseteq stale
        /\ pc'[p] = "closed" /\ \A q \in Proc \ {p} : pc'[q] = pc[q]
    BY <2>1, LeaveTypes
  <2>3. Offset' /\ synced' \in 0..Len(wal') /\ disorder' \in BOOLEAN
    <3>1. CASE TornAppend(p)
      BY <1>1, <1>2, <3>1, TearMoves DEF PromiseTypes
    <3>2. CASE /\ at' = [at EXCEPT ![p] = 0] /\ footing' = [footing EXCEPT ![p] = "sure"]
               /\ UNCHANGED <<wal, garbled, synced, disorder>>
      <4>1. 0 \in 0..Len(wal)
        BY <1>2
      <4>2. at' \in [Proc -> 0..Len(wal)] /\ footing' \in [Proc -> Footing]
        BY <1>1, <3>2, <4>1 DEF Footing
      <4>3. \A q \in Proc : footing'[q] = "behind" => at'[q] = Len(wal)
        BY <1>1, <3>2 DEF Stations
      <4>. QED BY <1>1, <3>2, <4>2, <4>3 DEF Offset, PromiseTypes
    <3>. QED BY <1>3, <3>1, <3>2 DEF Kill
  <2>4. PromiseTypes'
    BY <1>1, <2>1, <2>3 DEF PromiseTypes
  <2>5. request' # None <=> pc'["server"] \in {"written", "written out"}
    BY <1>1, <2>1, <2>2 DEF Stations, Proc
  <2>6. Stations'
    BY <1>1, <2>2, <2>3, <2>5 DEF Stations, Offset, Proc
  <2>. QED BY <1>1, <2>1, <2>2, <2>3, <2>4, <2>6, NextTypes DEF Offset
<1>4. CASE PowerLoss
  <2>1. PICK n \in synced..Len(wal) :
          /\ wal' = FirstRecs(wal, n) /\ synced' = n
          /\ garbled' \in IF n = Len(wal) THEN {garbled, FALSE} ELSE BOOLEAN
    BY <1>4 DEF PowerLoss
  <2>2. /\ pc' = [p \in Proc |-> "closed"] /\ view' = [p \in Proc |-> EmptyMap]
        /\ at' = [p \in Proc |-> 0] /\ footing' = [p \in Proc |-> "sure"]
        /\ ops' = [p \in Proc |-> 0] /\ stale' = {} /\ request' = None
        /\ UNCHANGED <<base, owed, disorder>>
    BY <1>4 DEF PowerLoss, ghosts
  <2>3. n \in 0..Len(wal)
    BY <1>1
  <2>4. wal' \in Seq(Rec) /\ Len(wal') = n
    BY <1>1, <2>1, <2>3 DEF FirstRecs
  <2>5. garbled' \in BOOLEAN /\ synced' \in 0..Len(wal') /\ at' \in [Proc -> 0..Len(wal')]
    <3>1. garbled' \in BOOLEAN
      BY <1>1, <2>1
    <3>2. 0 \in 0..n /\ n \in 0..n
      BY <1>2, <2>3
    <3>3. at' \in [Proc -> 0..n]
      BY <2>2, <3>2
    <3>. QED BY <2>1, <2>4, <3>1, <3>2, <3>3
  <2>6. SessionTypes'
    BY <2>2, EmptyMapType, DatabaseAssumption DEF SessionTypes, PCs
  <2>7. PromiseTypes' /\ footing' \in [Proc -> Footing]
    BY <1>1, <2>2 DEF PromiseTypes, Footing
  <2>8. Stations'
    BY <2>2 DEF Stations, Proc
  <2>. QED BY <1>1, <2>2, <2>4, <2>5, <2>6, <2>7, <2>8, NextTypes
<1>. QED BY <1>3, <1>4

\* Every action keeps the types and the stations.
LEMMA FrameStep == FrameIInv /\ [Next]_vars => FrameIInv'
<1> SUFFICES ASSUME FrameIInv, [Next]_vars PROVE FrameIInv'
  OBVIOUS
<1>1. CASE UNCHANGED vars
  BY <1>1 DEF vars, store, sessions, offsets, ghosts, FrameIInv, TypeOK, Stations
<1>2. ASSUME NEW w \in ReplWrites, ReplSet(w[1], w[2]) PROVE FrameIInv'
  <2>1. [key |-> w[1], val |-> w[2]] \in Rec
    BY DatabaseAssumption DEF Rec
  <2>. QED BY <1>2, <2>1, ReplWriteFrame DEF ReplSet
<1>3. ASSUME NEW k \in ReplKeys, ReplDelete(k) PROVE FrameIInv'
  <2>1. [key |-> k, val |-> None] \in Rec
    BY DatabaseAssumption DEF Rec
  <2>. QED BY <1>3, <2>1, ReplWriteFrame DEF ReplDelete
<1>4. ASSUME Next PROVE FrameIInv'
  BY <1>2, <1>3, <1>4, OpenFrame, ClientsPost, RequestFrame, AnswerFrame, CompactFrame, FaultFrame DEF Next
<1>. QED BY <1>1, <1>4

\* The types of the store, of both sessions and of what clients are owed.
THEOREM TypeCorrect == Spec => []TypeOK
<1>1. Spec => []FrameIInv
  BY InitFrame, FrameStep, PTL DEF Spec
<1>2. FrameIInv => TypeOK
  BY DEF FrameIInv
<1>. QED BY <1>1, <1>2, PTL

-----------------------------------------------------------------------------
(* What clients are owed.  AckedSurvives speaks of the logs a power loss   *)
(* may leave now; a process that writes may cut or overwrite the log too,  *)
(* from its offset on, and a POST's record counts as soon as it is         *)
(* written, before it is synced.  So the invariant is about every length   *)
(* the log may yet be cut to.                                              *)

\* What is owed, or will be when the request in hand is answered.
Due ==
  [k \in Key |-> IF request # None /\ request.undisturbed /\ request.rec.key = k
                 THEN request.rec.val ELSE owed[k]]

\* The key whose record is written and not synced.
Pending == IF pc["server"] = "written" THEN {request.rec.key} ELSE {}

\* The lengths to which the log may be cut with key k owed: by a process that
\* writes at its offset, by a power loss, or not at all.
Exposures ==
  [k \in Key |->
     {n \in 0..Len(wal) : \/ n = Len(wal)
                          \/ \E p \in Proc : pc[p] = "ready" /\ at[p] <= n
                          \/ n >= synced /\ k \notin Pending}]

Has(m, due) == \A k \in Key : due[k] # None => m[k] = due[k]

SafeFor(m, w, seen, k, v) == \A n \in seen : Replayed(m, FirstRecs(w, n))[k] = v

\* Over map m, every log that w may become has what is due.
SafeIn(m, w, seen, due) == \A k \in Key : due[k] # None => SafeFor(m, w, seen[k], k, due[k])

Promises ==
  /\ request # None => /\ request.rec.val # None /\ request.rec.val.ns \in {"notes", "database"}
                       /\ owed[request.rec.key] = None
  /\ \A k \in Key : owed[k] # None => owed[k].ns \in {"notes", "database"}

Views ==
  /\ pc["repl"] = "loaded" => view["repl"] = base
  /\ pc["repl"] \in {"ready", "renamed"} => Has(view["repl"], Due)
  /\ pc["repl"] = "renamed" => base = view["repl"]
  /\ pc["server"] = "loaded" /\ "server" \notin stale => SafeIn(view["server"], wal, Exposures, Due)
  /\ pc["server"] = "ready" /\ "server" \notin stale => Has(view["server"], Due)

OwedIInv == Promises /\ SafeIn(base, wal, Exposures, Due) /\ Views

\* What a step leaves of the above: nothing new is due, and a map that was
\* safe is.
Carries ==
  /\ \A k \in Key : Due'[k] # None => Due'[k] = Due[k]
  /\ \A m \in Map : SafeIn(m, wal, Exposures, Due) => SafeIn(m, wal', Exposures', Due')

\* What is due for a key: the pending request or the last acknowledged one.
LEMMA DueOf ==
  ASSUME NEW k \in Key
  PROVE  /\ Due[k] = IF request # None /\ request.undisturbed /\ request.rec.key = k
                     THEN request.rec.val ELSE owed[k]
         /\ Due'[k] = IF request' # None /\ request'.undisturbed /\ request'.rec.key = k
                      THEN request'.rec.val ELSE owed'[k]
BY DEF Due

\* The lengths at which the log may be cut or read for a key.
LEMMA SeenOf ==
  ASSUME NEW k \in Key, NEW n
  PROVE  /\ n \in Exposures[k] <=>
              /\ n \in 0..Len(wal)
              /\ \/ n = Len(wal)
                 \/ \E p \in Proc : pc[p] = "ready" /\ at[p] <= n
                 \/ n >= synced /\ k \notin Pending
         /\ n \in Exposures'[k] <=>
              /\ n \in 0..Len(wal')
              /\ \/ n = Len(wal')
                 \/ \E p \in Proc : pc'[p] = "ready" /\ at'[p] <= n
                 \/ n >= synced' /\ k \notin Pending'
<1>1. Exposures[k] =
        {i \in 0..Len(wal) : \/ i = Len(wal)
                             \/ \E p \in Proc : pc[p] = "ready" /\ at[p] <= i
                             \/ i >= synced /\ k \notin Pending}
  BY DEF Exposures
<1>2. Exposures'[k] =
        {i \in 0..Len(wal') : \/ i = Len(wal')
                              \/ \E p \in Proc : pc'[p] = "ready" /\ at'[p] <= i
                              \/ i >= synced' /\ k \notin Pending'}
  BY DEF Exposures
<1>. QED BY <1>1, <1>2

\* Less is due, of fewer logs.
LEMMA SafeNarrowed ==
  ASSUME NEW m, NEW w, NEW seen, NEW due, NEW fewer, NEW less, SafeIn(m, w, seen, due),
         \A k \in Key : less[k] # None => less[k] = due[k] /\ fewer[k] \subseteq seen[k]
  PROVE  SafeIn(m, w, fewer, less)
BY DEF SafeIn, SafeFor

\* A step that leaves the log, and no process with a smaller offset.
LEMMA SeenFewer ==
  ASSUME FrameIInv, FrameIInv', wal' = wal, NEW k \in Key,
         \A q \in Proc : pc'[q] = "ready" => at'[q] = Len(wal) \/ (pc[q] = "ready" /\ at'[q] = at[q]),
         synced' = Len(wal) \/ (synced' = synced /\ (k \in Pending => k \in Pending'))
  PROVE  Exposures'[k] \subseteq Exposures[k]
<1> SUFFICES ASSUME NEW n \in Exposures'[k] PROVE n \in Exposures[k]
  OBVIOUS
<1>1. n \in 0..Len(wal) /\ Len(wal) \in Nat
  BY SeenOf, FrameOffset
<1>2. CASE n = Len(wal)
  BY <1>1, <1>2, SeenOf
<1>3. CASE \E p \in Proc : pc'[p] = "ready" /\ at'[p] <= n
  BY <1>1, <1>3, SeenOf
<1>4. CASE n >= synced' /\ k \notin Pending'
  BY <1>1, <1>4, SeenOf
<1>. QED BY <1>2, <1>3, <1>4, SeenOf

\* A step that leaves the log alone keeps what is due safe, if no new
\* length is exposed.
LEMMA QuietCarries ==
  ASSUME FrameIInv, FrameIInv', wal' = wal,
         \A k \in Key : Due'[k] # None => Due'[k] = Due[k],
         \A q \in Proc : pc'[q] = "ready" => at'[q] = Len(wal) \/ (pc[q] = "ready" /\ at'[q] = at[q]),
         \A k \in Key : Due'[k] # None =>
            synced' = Len(wal) \/ (synced' = synced /\ (k \in Pending => k \in Pending'))
  PROVE  Carries
<1>1. ASSUME NEW k \in Key, Due'[k] # None PROVE Exposures'[k] \subseteq Exposures[k]
  BY <1>1, SeenFewer
<1>2. ASSUME NEW m \in Map, SafeIn(m, wal, Exposures, Due) PROVE SafeIn(m, wal', Exposures', Due')
  BY <1>1, <1>2, SafeNarrowed
<1>. QED BY <1>2 DEF Carries

\* A write leaves the other keys of every log as they are.
LEMMA WriteKeeps ==
  ASSUME FrameIInv, NEW p \in Proc, NEW r \in Rec, NEW sync \in BOOLEAN, DbWrite(p, r, sync),
         \A q \in Proc : pc'[q] = "ready" => pc[q] = "ready",
         NEW k \in Key, k # r.key, k \in Pending => k \in Pending',
         NEW m \in Map, NEW v, SafeFor(m, wal, Exposures[k], k, v)
  PROVE  SafeFor(m, wal', Exposures'[k], k, v)
<1>1. /\ Rewrites(wal', wal, at[p], r) /\ at[p] \in 0..Len(wal) /\ Len(wal') \in Nat
      /\ Offset' /\ synced' \in 0..Len(wal')
      /\ \A q \in Proc : at'[q] >= at[p] \/ at'[q] = at[q]
      /\ synced' >= at[p] \/ synced' = synced
  BY FrameOffset, WriteMoves
<1>2. /\ wal \in Seq(Rec) /\ Len(wal) \in Nat /\ synced \in 0..Len(wal)
      /\ \A q \in Proc : at[q] \in 0..Len(wal) /\ at'[q] \in Int
  BY <1>1, FrameOffset DEF Offset
<1>3. \A n \in at[p]..Len(wal) : n \in Exposures[k]
  <2>1. pc[p] = "ready"
    BY DEF DbWrite
  <2>. QED BY <1>1, <1>2, <2>1, SeenOf
<1>4. /\ wal' \in Seq(Rec) /\ at[p] <= Len(wal') /\ \A i \in 1..at[p] : wal'[i] = wal[i]
      /\ \A i \in (at[p] + 1)..Len(wal') :
           wal'[i].key = k => \E j \in (at[p] + 1)..Len(wal) : wal'[i] = wal[j]
  BY <1>1 DEF Rewrites
<1>5. \A n \in at[p]..Len(wal) : Replayed(m, FirstRecs(wal, n))[k] = v
  BY <1>3 DEF SafeFor
<1>6. \A n \in at[p]..Len(wal') : Replayed(m, FirstRecs(wal', n))[k] = v
  <2>1. at[p] \in 0..Len(wal) /\ wal \in Seq(Rec) /\ wal' \in Seq(Rec)
    BY <1>1, <1>2, <1>4
  <2>2. SaysNoMore(wal', wal, at[p], k) /\ Stands(m, wal, at[p], k, v)
    BY <1>4, <1>5 DEF SaysNoMore, Stands
  <2>3. Stands(m, wal', at[p], k, v)
    BY <2>1, <2>2, ValueKept
  <2>. QED BY <2>3 DEF Stands
<1>7. ASSUME NEW n \in Exposures'[k], n < at[p]
      PROVE  Replayed(m, FirstRecs(wal', n))[k] = v
  <2>1. n \in 0..Len(wal') /\ n # Len(wal')
    BY <1>1, <1>4, <1>7, SeenOf
  <2>2. n \in 0..Len(wal)
    BY <1>1, <1>2, <1>7, <2>1
  <2>3. \/ \E q \in Proc : pc'[q] = "ready" /\ at'[q] <= n
        \/ n >= synced' /\ k \notin Pending'
    BY <2>1, SeenOf
  <2>4. \/ \E q \in Proc : pc[q] = "ready" /\ at[q] <= n
        \/ n >= synced /\ k \notin Pending
    <3>1. ASSUME NEW q \in Proc, pc'[q] = "ready", at'[q] <= n
          PROVE  pc[q] = "ready" /\ at[q] <= n
      BY <1>1, <1>2, <1>7, <2>1, <3>1
    <3>2. ASSUME n >= synced', k \notin Pending' PROVE n >= synced /\ k \notin Pending
      BY <1>1, <1>2, <1>7, <2>1, <3>2
    <3>. QED BY <2>3, <3>1, <3>2
  <2>5. n \in Exposures[k]
    BY <2>2, <2>4, SeenOf
  <2>6. FirstRecs(wal', n) = FirstRecs(wal, n)
    BY <1>2, <1>4, <1>7, <2>1, <2>2 DEF FirstRecs
  <2>. QED BY <2>5, <2>6 DEF SafeFor
<1>8. ASSUME NEW n \in Exposures'[k] PROVE Replayed(m, FirstRecs(wal', n))[k] = v
  <2>1. n \in 0..Len(wal')
    BY SeenOf
  <2>2. n < at[p] \/ n \in at[p]..Len(wal')
    BY <1>1, <2>1
  <2>. QED BY <1>6, <1>7, <2>2
<1>. QED BY <1>8 DEF SafeFor

\* A record of another key, wherever it lands, keeps what is due safe.
LEMMA WriteCarries ==
  ASSUME FrameIInv, NEW p \in Proc, NEW r \in Rec, NEW sync \in BOOLEAN, DbWrite(p, r, sync),
         \A q \in Proc : pc'[q] = "ready" => pc[q] = "ready",
         \A k \in Key \ {r.key} : k \in Pending => k \in Pending',
         \A k \in Key : Due'[k] # None => Due'[k] = Due[k] /\ k # r.key
  PROVE  Carries
<1>1. ASSUME NEW m \in Map, SafeIn(m, wal, Exposures, Due), NEW k \in Key, Due'[k] # None
      PROVE  SafeFor(m, wal', Exposures'[k], k, Due'[k])
  <2>1. Due'[k] = Due[k] /\ k # r.key
    BY <1>1
  <2>2. SafeFor(m, wal, Exposures[k], k, Due[k])
    BY <1>1, <2>1 DEF SafeIn
  <2>. QED BY <2>1, <2>2, WriteKeeps
<1>2. ASSUME NEW m \in Map, SafeIn(m, wal, Exposures, Due) PROVE SafeIn(m, wal', Exposures', Due')
  BY <1>1, <1>2 DEF SafeIn
<1>. QED BY <1>2 DEF Carries

\* What sessions have that go on or end.
LEMMA ViewsCarried ==
  ASSUME FrameIInv, Views, Carries, base' = base,
         \A q \in Proc : \/ pc'[q] \in {"closed", "written", "written out"}
                         \/ pc'[q] = pc[q] /\ view'[q] = view[q],
         "server" \in stale => "server" \in stale' \/ pc'["server"] = "closed"
  PROVE  Views'
<1>1. view["server"] \in Map /\ Proc = {"server", "repl"}
  BY DEF FrameIInv, TypeOK, Proc
<1>2. \A m : Has(m, Due) => Has(m, Due')
  BY DEF Has, Carries
<1>3. SafeIn(view["server"], wal, Exposures, Due) => SafeIn(view["server"], wal', Exposures', Due')
  BY <1>1 DEF Carries
<1>4. \/ pc'["repl"] \in {"closed", "written", "written out"}
      \/ pc'["repl"] = pc["repl"] /\ view'["repl"] = view["repl"]
  BY <1>1
<1>5. \/ pc'["server"] \in {"closed", "written", "written out"}
      \/ pc'["server"] = pc["server"] /\ view'["server"] = view["server"]
  BY <1>1
<1>. QED BY <1>2, <1>3, <1>4, <1>5 DEF Views

\* Nothing is owed at first.
LEMMA OwedInit == Init => OwedIInv
<1> SUFFICES ASSUME Init PROVE OwedIInv
  OBVIOUS
<1>1. request = None /\ \A k \in Key : owed[k] = None
  BY EmptyMapType DEF Init
<1>2. \A k \in Key : Due[k] = None
  BY <1>1, DueOf
<1>3. pc["repl"] = "closed" /\ pc["server"] = "closed"
  BY DEF Init, Proc
<1>. QED BY <1>1, <1>2, <1>3 DEF OwedIInv, Promises, SafeIn, Views

\* An opening, a reading, the end of a session, a step of the server with the
\* record in hand: nothing is promised that was not.
LEMMA DueSame ==
  ASSUME UNCHANGED <<request, owed>>
  PROVE  Due' = Due
BY DEF Due

\* A session that ends with the log as it is.
LEMMA CarriedOver ==
  ASSUME FrameIInv, FrameIInv', OwedIInv, Carries, base' = base, Promises',
         \A q \in Proc : \/ pc'[q] \in {"closed", "written", "written out"}
                         \/ pc'[q] = pc[q] /\ view'[q] = view[q],
         "server" \in stale => "server" \in stale' \/ pc'["server"] = "closed"
  PROVE  OwedIInv'
<1>1. Views'
  BY ViewsCarried DEF OwedIInv
<1>2. base \in Map /\ SafeIn(base, wal, Exposures, Due)
  BY DEF OwedIInv, FrameIInv, TypeOK
<1>3. SafeIn(base', wal', Exposures', Due')
  BY <1>2 DEF Carries
<1>. QED BY <1>1, <1>3 DEF OwedIInv

\* A step that makes no promise and keeps none keeps Promises.
LEMMA PromisesSame ==
  ASSUME Promises, UNCHANGED <<request, owed>>
  PROVE  Promises'
BY DEF Promises

\* What the log holds now.
LEMMA SafeNow ==
  ASSUME wal \in Seq(Rec), NEW m \in Map, SafeIn(m, wal, Exposures, Due)
  PROVE  Has(Replayed(m, wal), Due)
<1> SUFFICES ASSUME NEW k \in Key, Due[k] # None PROVE Replayed(m, wal)[k] = Due[k]
  BY DEF Has
<1>1. Len(wal) \in Exposures[k]
  BY SeenOf
<1>2. Replayed(m, FirstRecs(wal, Len(wal)))[k] = Due[k]
  BY <1>1 DEF SafeIn, SafeFor
<1>. QED BY <1>2, WholePrefix

\* db_open.
LEMMA OpenOwed ==
  ASSUME FrameIInv, FrameIInv', OwedIInv, NEW p \in Proc, LoadBase(p) \/ ReplayLog(p) \/ RejectLog(p)
  PROVE  OwedIInv'
<1>1. /\ wal \in Seq(Rec) /\ base \in Map /\ pc \in [Proc -> PCs] /\ view \in [Proc -> Map]
      /\ at \in [Proc -> 0..Len(wal)] /\ stale \subseteq {"server"} /\ Proc = {"server", "repl"}
  BY DEF FrameIInv, TypeOK, Stations, Proc
<1>2. UNCHANGED <<wal, garbled, synced, base, request, owed>>
  BY DEF LoadBase, ReplayLog, RejectLog, store, ghosts
<1>3. Due' = Due /\ Promises' /\ Promises /\ SafeIn(base, wal, Exposures, Due)
  BY <1>2, DueSame, PromisesSame DEF OwedIInv
<1>4. pc[p] \in {"closed", "loaded"} /\ \A q \in Proc \ {p} : pc'[q] = pc[q] /\ view'[q] = view[q] /\ at'[q] = at[q]
  BY <1>1 DEF LoadBase, ReplayLog, RejectLog, Leave, LeaveMemory, offsets
<1>5. \A q \in Proc : pc'[q] = "ready" => at'[q] = Len(wal) \/ (pc[q] = "ready" /\ at'[q] = at[q])
  <2>1. pc'[p] = "ready" => at'[p] = Len(wal)
    BY <1>1 DEF LoadBase, ReplayLog, RejectLog, Leave, LeaveMemory
  <2>. QED BY <1>4, <2>1
<1>6. Pending' = Pending
  BY <1>1, <1>2, <1>4 DEF Pending, LoadBase, ReplayLog, RejectLog, Leave, LeaveMemory
<1>7. Carries
  BY <1>2, <1>3, <1>5, <1>6, QuietCarries
<1>8. SafeIn(base', wal', Exposures', Due') /\ \A m : Has(m, Due) => Has(m, Due')
  BY <1>1, <1>2, <1>3, <1>7 DEF Carries
<1>9. CASE LoadBase(p)
  <2>1. pc'[p] = "loaded" /\ view'[p] = base /\ stale' = stale
    BY <1>1, <1>9 DEF LoadBase
  <2>2. CASE p = "repl"
    <3>1. pc'["server"] = pc["server"] /\ view'["server"] = view["server"]
      BY <1>1, <1>4, <2>2
    <3>2. SafeIn(view["server"], wal, Exposures, Due) => SafeIn(view["server"], wal', Exposures', Due')
      BY <1>1, <1>7 DEF Carries
    <3>. QED BY <1>2, <1>3, <1>8, <2>1, <2>2, <3>1, <3>2 DEF OwedIInv, Views
  <2>3. CASE p = "server"
    <3>1. pc'["repl"] = pc["repl"] /\ view'["repl"] = view["repl"]
      BY <1>1, <1>4, <2>3
    <3>. QED BY <1>2, <1>3, <1>8, <2>1, <2>3, <3>1 DEF OwedIInv, Views
  <2>. QED BY <1>1, <2>2, <2>3
<1>10. CASE ReplayLog(p)
  <2>1. pc[p] = "loaded" /\ pc'[p] = "ready" /\ view'[p] = Replayed(view[p], wal) /\ stale' = stale
    BY <1>1, <1>10 DEF ReplayLog
  <2>2. view[p] \in Map
    BY <1>1
  <2>3. CASE p = "repl"
    <3>1. pc'["server"] = pc["server"] /\ view'["server"] = view["server"]
      BY <1>1, <1>4, <2>3
    <3>2. SafeIn(view["server"], wal, Exposures, Due) => SafeIn(view["server"], wal', Exposures', Due')
      BY <1>1, <1>7 DEF Carries
    <3>3. Has(view'["repl"], Due')
      BY <1>1, <1>3, <1>8, <2>1, <2>3, SafeNow DEF OwedIInv, Views
    <3>. QED BY <1>2, <1>3, <1>8, <2>1, <2>3, <3>1, <3>2, <3>3 DEF OwedIInv, Views
  <2>4. CASE p = "server"
    <3>1. pc'["repl"] = pc["repl"] /\ view'["repl"] = view["repl"]
      BY <1>1, <1>4, <2>4
    <3>2. "server" \notin stale => Has(view'["server"], Due')
      BY <1>1, <1>8, <2>1, <2>2, <2>4, SafeNow DEF OwedIInv, Views
    <3>. QED BY <1>2, <1>3, <1>8, <2>1, <2>4, <3>1, <3>2 DEF OwedIInv, Views
  <2>. QED BY <1>1, <2>3, <2>4
<1>11. CASE RejectLog(p)
  <2>1. pc'[p] = "closed" /\ stale' = stale \ {p}
    BY <1>1, <1>11 DEF RejectLog, Leave, LeaveMemory
  <2>2. \A q \in Proc : pc'[q] \in {"closed", "written", "written out"} \/ (pc'[q] = pc[q] /\ view'[q] = view[q])
    BY <1>4, <2>1
  <2>3. "server" \in stale => "server" \in stale' \/ pc'["server"] = "closed"
    BY <2>1
  <2>. QED BY <1>2, <1>3, <1>7, <2>2, <2>3, CarriedOver
<1>. QED BY <1>9, <1>10, <1>11

\* A record is owed from the moment an undisturbed POST has written it: it is
\* the last of the log, and nobody else stands before it.
LEMMA PostOwed ==
  ASSUME FrameIInv, FrameIInv', OwedIInv, NEW r \in Rec, Post(r),
         r.val # None, r.val.ns \in {"notes", "database"}
  PROVE  OwedIInv'
<1>1. /\ DbWrite("server", r, FALSE) /\ pc' = [pc EXCEPT !["server"] = "written"]
      /\ request' = [rec |-> r, undisturbed |-> pc["repl"] = "closed" /\ AtEnd("server")]
      /\ owed' = [owed EXCEPT ![r.key] = None]
  BY DEF Post
<1>2. /\ wal \in Seq(Rec) /\ wal' \in Seq(Rec) /\ base \in Map /\ pc \in [Proc -> PCs] /\ view \in [Proc -> Map]
      /\ at \in [Proc -> 0..Len(wal)] /\ owed \in Map /\ r.key \in Key /\ Proc = {"server", "repl"}
      /\ Len(wal) \in Nat
  BY DEF FrameIInv, TypeOK, Proc, Rec
<1>3. pc["server"] = "ready" /\ base' = base /\ stale' = stale /\ request = None
      /\ view' = [view EXCEPT !["server"] = Applied(view["server"], r)]
  BY <1>1, <1>2 DEF DbWrite, FrameIInv, Stations
<1>4. pc'["server"] = "written" /\ pc'["repl"] = pc["repl"] /\ view'["repl"] = view["repl"]
  BY <1>1, <1>2, <1>3
<1>5. request' # None /\ request'.rec = r /\ request'.undisturbed = (pc["repl"] = "closed" /\ AtEnd("server"))
  BY <1>1, <1>4 DEF FrameIInv, Stations
<1>6. Promises'
  <2>1. owed'[r.key] = None /\ \A k \in Key : owed'[k] # None => owed'[k] = owed[k]
    BY <1>1, <1>2 DEF Map
  <2>. QED BY <1>5, <2>1 DEF OwedIInv, Promises
<1>7. ASSUME NEW k \in Key, k # r.key PROVE Due'[k] = Due[k]
  <2>1. owed'[k] = owed[k]
    BY <1>1, <1>2, <1>7 DEF Map
  <2>. QED BY <1>3, <1>5, <1>7, <2>1, DueOf
<1>8. Due'[r.key] = IF pc["repl"] = "closed" /\ AtEnd("server") THEN r.val ELSE None
  BY <1>1, <1>2, <1>5, DueOf DEF Map
<1>9. Pending = {} /\ Pending' = {r.key}
  BY <1>3, <1>4, <1>5 DEF Pending
<1>10. \A q \in Proc : pc'[q] = "ready" => pc[q] = "ready"
  BY <1>2, <1>4
<1>11. CASE ~(pc["repl"] = "closed" /\ AtEnd("server"))
  <2>1. \A k \in Key : Due'[k] # None => Due'[k] = Due[k] /\ k # r.key
    BY <1>7, <1>8, <1>11
  <2>2. Carries
    BY <1>1, <1>2, <1>9, <1>10, <2>1, WriteCarries
  <2>3. \A q \in Proc : pc'[q] \in {"closed", "written", "written out"} \/ (pc'[q] = pc[q] /\ view'[q] = view[q])
    BY <1>2, <1>4
  <2>. QED BY <1>3, <1>6, <2>2, <2>3, CarriedOver
<1>12. CASE pc["repl"] = "closed" /\ AtEnd("server")
  <2>1. wal' = Append(wal, r)
    <3>1. "server" \in Proc /\ FALSE \in BOOLEAN
      BY DEF Proc
    <3>2. Offset /\ synced \in 0..Len(wal)
      BY FrameOffset
    <3>. QED BY <1>1, <1>12, <3>1, <3>2, WriteMoves, Zenon
  <2>2. ASSUME NEW k \in Key, Due'[k] # None, k # r.key
        PROVE  SafeFor(base, wal', Exposures'[k], k, Due'[k])
    <3>1. Due'[k] = Due[k] /\ SafeFor(base, wal, Exposures[k], k, Due[k])
      BY <1>7, <2>2 DEF OwedIInv, SafeIn
    <3>. QED BY <1>1, <1>2, <1>9, <1>10, <2>2, <3>1, WriteKeeps
  <2>3. SafeFor(base, wal', Exposures'[r.key], r.key, r.val)
    <3>1. ASSUME NEW n \in Exposures'[r.key] PROVE n = Len(wal')
      BY <1>2, <1>4, <1>9, <1>12, <3>1, SeenOf
    <3>2. Replayed(base, wal') = Applied(Replayed(base, wal), r)
      BY <1>2, <2>1, EveryLogHasLast, ReplayedAppend
    <3>3. Replayed(base, wal)\in Map
      BY <1>2, LogReplays
    <3>4. Replayed(base, wal')[r.key] = r.val
      BY <1>2, <3>2, <3>3, AppliedType
    <3>5. FirstRecs(wal', Len(wal')) = wal'
      BY <1>2, WholePrefix
    <3>. QED BY <3>1, <3>4, <3>5 DEF SafeFor
  <2>4. SafeIn(base', wal', Exposures', Due')
    BY <1>3, <1>8, <1>12, <2>2, <2>3 DEF SafeIn
  <2>5. Views'
    BY <1>4, <1>12 DEF Views
  <2>. QED BY <1>6, <2>4, <2>5 DEF OwedIInv
<1>. QED BY <1>11, <1>12

\* A new request: its record is safe from the byte it was appended at on,
\* unless somebody disturbs it.
LEMMA RequestOwed ==
  ASSUME FrameIInv, FrameIInv', OwedIInv,
         \/ \E k \in Key, t \in Payload : DatabaseSet(k, t)
         \/ \E t \in Payload : DatabaseAddNote(t)
  PROVE  OwedIInv'
<1>1. ASSUME NEW k \in Key, NEW t \in Payload, DatabaseSet(k, t) PROVE OwedIInv'
  <2> DEFINE v == [ns |-> "database", text |-> t]
             r == [key |-> k, val |-> v]
  <2>1. k \in Key /\ "database" \in Namespace
    BY DatabaseAssumption DEF Namespace
  <2>2. r \in Rec /\ v # None
    BY <2>1, NoteRec
  <2>3. r.val = v /\ v.ns = "database" /\ Post(r)
    BY <1>1 DEF DatabaseSet
  <2> HIDE DEF v, r
  <2>. QED BY <2>2, <2>3, PostOwed
<1>2. ASSUME NEW t \in Payload, DatabaseAddNote(t) PROVE OwedIInv'
  <2> DEFINE k == NoteKey[NoteNumber(view["server"])]
             v == [ns |-> "notes", text |-> t]
             r == [key |-> k, val |-> v]
  <2>1. NoteNumber(view["server"]) <= Len(NoteKey) /\ Post(r)
    BY <1>2 DEF DatabaseAddNote
  <2>2. k \in Key /\ "notes" \in Namespace
    BY <2>1, NumberType DEF Namespace
  <2> HIDE DEF k
  <2>3. r \in Rec /\ v # None
    BY <2>2, NoteRec
  <2>4. r.val = v /\ v.ns = "notes"
    OBVIOUS
  <2> HIDE DEF v, r
  <2>. QED BY <2>1, <2>3, <2>4, PostOwed
<1>. QED BY <1>1, <1>2

\* db_close of a POST, its answer, and the end of a GET.
LEMMA AnswerOwed ==
  ASSUME FrameIInv, FrameIInv', OwedIInv, DbCloseAfterWrite \/ Reply \/ DoneReading
  PROVE  OwedIInv'
<1>1. /\ pc \in [Proc -> PCs] /\ view \in [Proc -> Map] /\ at \in [Proc -> 0..Len(wal)] /\ owed \in Map
      /\ Proc = {"server", "repl"} /\ request \in [rec : Rec, undisturbed : BOOLEAN] \cup {None}
  BY DEF FrameIInv, TypeOK, Proc
<1>2. wal' = wal /\ base' = base
  BY DEF DbCloseAfterWrite, Reply, DoneReading, store
<1>3. pc' = [pc EXCEPT !["server"] = pc'["server"]] /\ pc'["server"] \in {"closed", "written out"}
      /\ pc'["repl"] = pc["repl"] /\ view'["repl"] = view["repl"] /\ at'["repl"] = at["repl"]
  BY <1>1 DEF DbCloseAfterWrite, Reply, DoneReading, Leave, LeaveMemory, offsets
<1>4. "server" \in stale => "server" \in stale' \/ pc'["server"] = "closed"
  BY <1>1 DEF DbCloseAfterWrite, Reply, DoneReading, Leave, LeaveMemory
<1>5. \A q \in Proc : pc'[q] \in {"closed", "written", "written out"} \/ (pc'[q] = pc[q] /\ view'[q] = view[q])
  BY <1>1, <1>3
<1>6. \A q \in Proc : pc'[q] = "ready" => pc[q] = "ready" /\ at'[q] = at[q]
  BY <1>1, <1>3
<1>7. synced' = Len(wal) \/ (synced' = synced /\ Pending = {})
  BY <1>1 DEF DbCloseAfterWrite, Reply, DoneReading, Pending, store
<1>8. Promises' /\ \A k \in Key : Due'[k] = Due[k]
  <2>1. CASE DbCloseAfterWrite \/ DoneReading
    <3>1. UNCHANGED <<request, owed>>
      BY <2>1 DEF DbCloseAfterWrite, DoneReading, ghosts
    <3>. QED BY <3>1, DueSame, PromisesSame DEF OwedIInv
  <2>2. CASE Reply
    <3>1. /\ request # None /\ request' = None
          /\ owed' = IF request.undisturbed
                     THEN [owed EXCEPT ![request.rec.key] = request.rec.val] ELSE owed
      BY <2>2 DEF Reply, FrameIInv, Stations
    <3>2. request.rec.key \in Key
      BY <1>1, <3>1 DEF Rec
    <3>3. ASSUME NEW k \in Key
          PROVE  owed'[k] = IF request.undisturbed /\ request.rec.key = k THEN request.rec.val ELSE owed[k]
      BY <1>1, <3>1, <3>2 DEF Map
    <3>4. Promises'
      BY <3>1, <3>2, <3>3 DEF OwedIInv, Promises
    <3>. QED BY <3>1, <3>3, <3>4, DueOf
  <2>. QED BY <2>1, <2>2
<1>9. Carries
  BY <1>2, <1>6, <1>7, <1>8, QuietCarries
<1>. QED BY <1>2, <1>4, <1>5, <1>8, <1>9, CarriedOver

\* SET and DELETE of the REPL: nothing is owed of that key any more.
LEMMA ReplWriteOwed ==
  ASSUME FrameIInv, FrameIInv', OwedIInv, NEW r \in Rec, ReplWrite(r)
  PROVE  OwedIInv'
<1> DEFINE due == ops["repl"] + 1 >= SyncEvery
<1>1. /\ DbWrite("repl", r, due) /\ pc' = pc /\ owed' = [owed EXCEPT ![r.key] = None]
      /\ request' = IF request # None /\ request.rec.key = r.key
                    THEN [request EXCEPT !.undisturbed = FALSE] ELSE request
  BY DEF ReplWrite
<1>2. due \in BOOLEAN
  OBVIOUS
<1> HIDE DEF due
<1>3. /\ pc \in [Proc -> PCs] /\ view \in [Proc -> Map] /\ owed \in Map /\ r.key \in Key
      /\ Proc = {"server", "repl"} /\ base \in Map
      /\ request \in [rec : Rec, undisturbed : BOOLEAN] \cup {None}
  BY DEF FrameIInv, TypeOK, Proc, Rec
<1>4. /\ pc["repl"] = "ready" /\ base' = base /\ stale' = stale
      /\ view' = [view EXCEPT !["repl"] = Applied(view["repl"], r)]
  BY <1>1, <1>3 DEF DbWrite
<1>5. owed'[r.key] = None /\ \A k \in Key \ {r.key} : owed'[k] = owed[k]
  BY <1>1, <1>3 DEF Map
<1>6. \/ request' = request /\ (request # None => request.rec.key # r.key)
      \/ /\ request # None /\ request' # None /\ request'.rec = request.rec
         /\ request.rec.key = r.key /\ ~request'.undisturbed
  <2>1. CASE request # None /\ request.rec.key = r.key
    <3>1. request \in [rec : Rec, undisturbed : BOOLEAN]
      BY <1>3, <2>1
    <3>2. [request EXCEPT !.undisturbed = FALSE] \in [rec : Rec, undisturbed : BOOLEAN]
      BY <3>1
    <3>. QED BY <1>1, <2>1, <3>1, <3>2, DatabaseAssumption
  <2>. QED BY <1>1, <2>1
<1>7. Promises'
  BY <1>3, <1>5, <1>6 DEF OwedIInv, Promises, Rec
<1>8. \A k \in Key : Due'[k] # None => Due'[k] = Due[k] /\ k # r.key
  BY <1>5, <1>6, DueOf
<1>9. Pending' = Pending
  BY <1>1, <1>6 DEF Pending, FrameIInv, Stations
<1>10. Carries
  BY <1>1, <1>2, <1>3, <1>8, <1>9, WriteCarries
<1>11. SafeIn(base', wal', Exposures', Due')
  BY <1>3, <1>4, <1>10 DEF Carries, OwedIInv
<1>12. Has(view'["repl"], Due')
  <2>1. Has(view["repl"], Due)
    BY <1>4 DEF OwedIInv, Views
  <2>2. view'["repl"] = Applied(view["repl"], r) /\ view["repl"] \in Map
    BY <1>3, <1>4
  <2>. QED BY <1>8, <2>1, <2>2, AppliedType DEF Has
<1>13. Views'
  <2>1. \A m : Has(m, Due) => Has(m, Due')
    BY <1>8 DEF Has
  <2>2. view["server"] \in Map /\ view'["server"] = view["server"]
    BY <1>3, <1>4
  <2>3. SafeIn(view["server"], wal, Exposures, Due) => SafeIn(view["server"], wal', Exposures', Due')
    BY <1>10, <2>2 DEF Carries
  <2>. QED BY <1>1, <1>4, <1>12, <2>1, <2>2, <2>3 DEF OwedIInv, Views
<1>. QED BY <1>7, <1>11, <1>13 DEF OwedIInv

\* The snapshot of a table that has what is due, under any log that has it.
LEMMA SafeUnderNew ==
  ASSUME NEW m, NEW b, NEW w, NEW seen, NEW due, SafeIn(m, w, seen, due), Has(b, due)
  PROVE  SafeIn(b, w, seen, due)
<1> SUFFICES ASSUME NEW k \in Key, due[k] # None, NEW n \in seen[k]
             PROVE  Replayed(b, FirstRecs(w, n))[k] = due[k]
  BY DEF SafeIn, SafeFor
<1>1. Replayed(m, FirstRecs(w, n))[k] = due[k] /\ b[k] = due[k]
  BY DEF SafeIn, SafeFor, Has
<1>. QED BY <1>1 DEF Replayed

\* COMPACT and EXIT.
LEMMA CompactOwed ==
  ASSUME FrameIInv, FrameIInv', OwedIInv, CompactRename \/ CompactTruncate \/ ReplExit
  PROVE  OwedIInv'
<1>1. /\ pc \in [Proc -> PCs] /\ view \in [Proc -> Map] /\ at \in [Proc -> 0..Len(wal)]
      /\ Proc = {"server", "repl"} /\ base \in Map
  BY DEF FrameIInv, TypeOK, Proc
<1>2. UNCHANGED <<request, owed>> /\ pc'["server"] = pc["server"] /\ view'["server"] = view["server"]
  BY <1>1 DEF CompactRename, CompactTruncate, ReplExit, Leave, LeaveMemory, ghosts
<1>3. Due' = Due /\ Promises' /\ Pending' = Pending
  BY <1>2, DueSame, PromisesSame DEF OwedIInv, Pending
<1>4. CASE CompactRename
  <2>1. /\ wal' = wal /\ base' = view["repl"] /\ view' = view /\ at' = at /\ stale' = stale
        /\ pc["repl"] = "ready" /\ pc'["repl"] = "renamed"
        /\ synced' = IF ops["repl"] > 0 THEN Len(wal) ELSE synced
    BY <1>1, <1>4 DEF CompactRename, offsets
  <2>2. Carries
    BY <1>1, <1>2, <1>3, <2>1, QuietCarries
  <2>3. SafeIn(base, wal', Exposures', Due') /\ Has(view["repl"], Due')
    BY <1>1, <1>3, <2>1, <2>2 DEF Carries, OwedIInv, Views
  <2>4. SafeIn(base', wal', Exposures', Due')
    BY <2>1, <2>3, SafeUnderNew
  <2>5. SafeIn(view["server"], wal, Exposures, Due) => SafeIn(view["server"], wal', Exposures', Due')
    BY <1>1, <2>2 DEF Carries
  <2>6. Views'
    BY <1>2, <1>3, <2>1, <2>3, <2>5 DEF OwedIInv, Views
  <2>. QED BY <1>3, <2>4, <2>6 DEF OwedIInv
<1>5. CASE CompactTruncate
  <2>1. /\ wal' = <<>> /\ base' = base /\ view' = view
        /\ pc["repl"] = "renamed" /\ pc'["repl"] = "ready"
        /\ stale' = IF pc["server"] \in {"loaded", "ready"} THEN stale \cup {"server"} ELSE stale
    BY <1>1, <1>5 DEF CompactTruncate
  <2>2. Has(view["repl"], Due) /\ base = view["repl"]
    BY <2>1 DEF OwedIInv, Views
  <2>3. ASSUME NEW k \in Key, Due'[k] # None, NEW n \in Exposures'[k]
        PROVE  Replayed(base', FirstRecs(wal', n))[k] = Due'[k]
    <3>1. n = 0
      BY <2>1, SeenOf
    <3>2. FirstRecs(wal', n) = <<>>
      BY <2>1, <3>1 DEF FirstRecs
    <3>3. Replayed(base', FirstRecs(wal', n)) = base
      BY <1>1, <2>1, <3>2, ReplayedEmpty
    <3>. QED BY <1>3, <2>2, <2>3, <3>3 DEF Has
  <2>4. SafeIn(base', wal', Exposures', Due')
    BY <2>3 DEF SafeIn, SafeFor
  <2>5. Views'
    BY <1>2, <1>3, <2>1, <2>2 DEF Views
  <2>. QED BY <1>3, <2>4, <2>5 DEF OwedIInv
<1>6. CASE ReplExit
  <2>1. /\ wal' = wal /\ base' = base /\ pc'["repl"] = "closed" /\ at'["server"] = at["server"]
        /\ stale' = stale \ {"repl"} /\ synced' = IF ops["repl"] > 0 THEN Len(wal) ELSE synced
    BY <1>1, <1>6 DEF ReplExit, Leave, LeaveMemory
  <2>2. \A q \in Proc : pc'[q] = "ready" => pc[q] = "ready" /\ at'[q] = at[q]
    BY <1>1, <1>2, <2>1
  <2>3. Carries
    BY <1>3, <2>1, <2>2, QuietCarries
  <2>4. \A q \in Proc : pc'[q] \in {"closed", "written", "written out"} \/ (pc'[q] = pc[q] /\ view'[q] = view[q])
    BY <1>1, <1>2, <2>1
  <2>. QED BY <1>3, <2>1, <2>3, <2>4, CarriedOver
<1>. QED BY <1>4, <1>5, <1>6

\* What was never answered is owed to nobody.
LEMMA DueLeft ==
  ASSUME FrameIInv, OwedIInv, request' = None, owed' = owed
  PROVE  Promises' /\ \A k \in Key : Due'[k] # None => Due'[k] = Due[k] /\ k \notin Pending
<1>1. \A k \in Key : Due'[k] = owed[k]
  BY DueOf
<1>2. ASSUME NEW k \in Key, owed[k] # None PROVE Due[k] = owed[k] /\ k \notin Pending
  BY <1>2, DueOf DEF OwedIInv, Promises, Pending, FrameIInv, Stations
<1>. QED BY <1>1, <1>2 DEF OwedIInv, Promises

\* A process killed inside a write.
LEMMA TearKeeps ==
  ASSUME FrameIInv, NEW p \in Proc, TornAppend(p), LeaveMemory(p),
         NEW k \in Key, k \in Pending => k \in Pending',
         NEW m, NEW v, SafeFor(m, wal, Exposures[k], k, v)
  PROVE  SafeFor(m, wal', Exposures'[k], k, v)
<1>1. PICK n0 \in at[p]..Len(wal) :
        wal' = FirstRecs(wal, n0) /\ Len(wal') = n0 /\ synced' = Smaller(synced, n0)
  BY FrameOffset, TearMoves
<1>2. /\ at[p] \in 0..Len(wal) /\ wal \in Seq(Rec) /\ synced \in 0..Len(wal) /\ Len(wal) \in Nat
      /\ \A q \in Proc \ {p} : at'[q] >= at[p] \/ at'[q] = at[q]
      /\ \A q \in Proc : at[q] \in 0..Len(wal) /\ at'[q] \in Int
  BY FrameOffset, TearMoves DEF Offset
<1>3. pc[p] = "ready" /\ \A q \in Proc : pc'[q] = "ready" => q # p /\ pc[q] = "ready"
  BY DEF TornAppend, LeaveMemory, FrameIInv, TypeOK
<1>4. ASSUME NEW n \in Exposures'[k] PROVE Replayed(m, FirstRecs(wal', n))[k] = v
  <2>1. n \in 0..n0 /\ n0 \in 0..Len(wal) /\ n \in 0..Len(wal)
    BY <1>1, <1>2, SeenOf
  <2>2. FirstRecs(wal', n) = FirstRecs(wal, n)
    BY <1>1, <1>2, <2>1 DEF FirstRecs
  <2>3. n \in Exposures[k]
    <3>1. CASE n >= at[p]
      BY <1>3, <2>1, <3>1, SeenOf
    <3>2. CASE n < at[p]
      <4>1. n # Len(wal')
        BY <1>1, <1>2, <2>1, <3>2
      <4>2. ASSUME NEW q \in Proc, pc'[q] = "ready", at'[q] <= n PROVE pc[q] = "ready" /\ at[q] <= n
        BY <1>2, <1>3, <2>1, <3>2, <4>2
      <4>3. ASSUME n >= synced', k \notin Pending' PROVE n >= synced /\ k \notin Pending
        BY <1>1, <1>2, <2>1, <3>2, <4>3 DEF Smaller
      <4>. QED BY <2>1, <4>1, <4>2, <4>3, SeenOf
    <3>. QED BY <1>2, <2>1, <3>1, <3>2
  <2>. QED BY <2>2, <2>3 DEF SafeFor
<1>. QED BY <1>4 DEF SafeFor

\* A kill takes no byte: the writes of the process are in the kernel.
LEMMA KillOwed ==
  ASSUME FrameIInv, FrameIInv', OwedIInv, NEW p \in Proc, Kill(p)
  PROVE  OwedIInv'
<1>1. /\ pc \in [Proc -> PCs] /\ view \in [Proc -> Map] /\ at \in [Proc -> 0..Len(wal)]
      /\ Proc = {"server", "repl"} /\ base \in Map
  BY DEF FrameIInv, TypeOK, Proc
<1>2. /\ LeaveMemory(p) /\ base' = base /\ owed' = owed
      /\ request' = IF p = "server" THEN None ELSE request
  BY DEF Kill
<1>3. /\ pc'[p] = "closed" /\ stale' = stale \ {p}
      /\ \A q \in Proc \ {p} : pc'[q] = pc[q] /\ view'[q] = view[q]
  BY <1>1, <1>2 DEF LeaveMemory
<1>4. Promises' /\ \A k \in Key : Due'[k] # None => Due'[k] = Due[k] /\ (k \in Pending => k \in Pending')
  <2>1. CASE p = "server"
    BY <1>2, <2>1, DueLeft
  <2>2. CASE p = "repl"
    <3>1. request' = request /\ pc'["server"] = pc["server"]
      BY <1>1, <1>2, <1>3, <2>2
    <3>. QED BY <1>2, <3>1, DueSame, PromisesSame DEF OwedIInv, Pending
  <2>. QED BY <1>1, <2>1, <2>2
<1>5. Carries
  <2>1. CASE TornAppend(p)
    <3>1. ASSUME NEW m \in Map, SafeIn(m, wal, Exposures, Due), NEW k \in Key, Due'[k] # None
          PROVE  SafeFor(m, wal', Exposures'[k], k, Due'[k])
      <4>1. Due'[k] = Due[k] /\ (k \in Pending => k \in Pending')
        BY <1>4, <3>1
      <4>2. SafeFor(m, wal, Exposures[k], k, Due[k])
        BY <3>1, <4>1 DEF SafeIn
      <4>. QED BY <1>2, <2>1, <4>1, <4>2, TearKeeps
    <3>2. ASSUME NEW m \in Map, SafeIn(m, wal, Exposures, Due) PROVE SafeIn(m, wal', Exposures', Due')
      BY <3>1, <3>2 DEF SafeIn
    <3>. QED BY <1>4, <3>2 DEF Carries
  <2>2. CASE at' = [at EXCEPT ![p] = 0] /\ UNCHANGED <<wal, synced>>
    <3>1. \A q \in Proc : pc'[q] = "ready" => pc[q] = "ready" /\ at'[q] = at[q]
      BY <1>1, <1>3, <2>2
    <3>. QED BY <1>4, <2>2, <3>1, QuietCarries
  <2>. QED BY <2>1, <2>2 DEF Kill
<1>6. \A q \in Proc : pc'[q] \in {"closed", "written", "written out"} \/ (pc'[q] = pc[q] /\ view'[q] = view[q])
  BY <1>3
<1>7. "server" \in stale => "server" \in stale' \/ pc'["server"] = "closed"
  BY <1>3
<1>. QED BY <1>2, <1>4, <1>5, <1>6, <1>7, CarriedOver

\* A power loss cuts the log no shorter than its last sync, and what is due
\* is safe at every length from there on.
LEMMA PowerOwed ==
  ASSUME FrameIInv, FrameIInv', OwedIInv, PowerLoss
  PROVE  OwedIInv'
<1>1. PICK n0 \in synced..Len(wal) : wal' = FirstRecs(wal, n0) /\ synced' = n0
  BY DEF PowerLoss
<1>2. /\ pc' = [p \in Proc |-> "closed"] /\ request' = None /\ owed' = owed /\ base' = base
  BY DEF PowerLoss, ghosts
<1>3. wal \in Seq(Rec) /\ synced \in 0..Len(wal) /\ Len(wal) \in Nat
  BY FrameOffset DEF Offset
<1>4. n0 \in 0..Len(wal) /\ wal' \in Seq(Rec) /\ Len(wal') = n0 /\ FirstRecs(wal', n0) = wal'
  BY <1>1, <1>3 DEF FirstRecs
<1>5. Promises' /\ \A k \in Key : Due'[k] # None => Due'[k] = Due[k] /\ k \notin Pending
  BY <1>2, DueLeft
<1>6. ASSUME NEW k \in Key, Due'[k] # None, NEW n \in Exposures'[k]
      PROVE  Replayed(base', FirstRecs(wal', n))[k] = Due'[k]
  <2>1. n = n0
    <3>1. \A q \in Proc : pc'[q] # "ready"
      BY <1>2
    <3>2. n \in 0..n0 /\ (n = n0 \/ n >= n0)
      BY <1>1, <1>4, <3>1, SeenOf
    <3>. QED BY <1>4, <3>2
  <2>2. n0 \in Exposures[k]
    BY <1>1, <1>3, <1>4, <1>5, <1>6, SeenOf
  <2>3. Replayed(base, FirstRecs(wal, n0))[k] = Due[k]
    BY <1>5, <1>6, <2>2 DEF OwedIInv, SafeIn, SafeFor
  <2>. QED BY <1>1, <1>2, <1>4, <1>5, <1>6, <2>1, <2>3
<1>7. SafeIn(base', wal', Exposures', Due')
  BY <1>6 DEF SafeIn, SafeFor
<1>8. Views'
  BY <1>2 DEF Views, Proc
<1>. QED BY <1>5, <1>7, <1>8 DEF OwedIInv

\* Every action keeps what is due safe.
LEMMA OwedStep == FrameIInv /\ OwedIInv /\ [Next]_vars => OwedIInv'
<1> SUFFICES ASSUME FrameIInv, OwedIInv, [Next]_vars PROVE OwedIInv'
  OBVIOUS
<1>0. FrameIInv'
  BY FrameStep
<1>1. CASE UNCHANGED vars
  <2>1. UNCHANGED <<wal, base, synced, pc, view, at, stale, request, owed>>
    BY <1>1 DEF vars, store, sessions, offsets, ghosts
  <2>2. Due' = Due /\ Exposures' = Exposures
    BY <2>1 DEF Due, Exposures, Pending
  <2>. QED BY <2>1, <2>2 DEF OwedIInv, Promises, Views
<1>2. ASSUME NEW w \in ReplWrites, ReplSet(w[1], w[2]) PROVE OwedIInv'
  <2>1. [key |-> w[1], val |-> w[2]] \in Rec
    BY DatabaseAssumption DEF Rec
  <2>. QED BY <1>0, <1>2, <2>1, ReplWriteOwed DEF ReplSet
<1>3. ASSUME NEW k \in ReplKeys, ReplDelete(k) PROVE OwedIInv'
  <2>1. [key |-> k, val |-> None] \in Rec
    BY DatabaseAssumption DEF Rec
  <2>. QED BY <1>0, <1>3, <2>1, ReplWriteOwed DEF ReplDelete
<1>4. ASSUME Next PROVE OwedIInv'
  BY <1>0, <1>2, <1>3, <1>4, OpenOwed, ClientsPost, RequestOwed, AnswerOwed, CompactOwed, KillOwed, PowerOwed DEF Next
<1>. QED BY <1>1, <1>4

\* So it is safe in every reachable state.
LEMMA OwedAlways == Spec => [](FrameIInv /\ OwedIInv)
<1>1. FrameIInv /\ OwedIInv /\ [Next]_vars => (FrameIInv /\ OwedIInv)'
  BY FrameStep, OwedStep
<1>. QED BY <1>1, InitFrame, OwedInit, PTL DEF Spec

\* Nothing is owed of the key whose record is still in hand.
LEMMA OwedIsDue ==
  ASSUME FrameIInv, OwedIInv, NEW k \in Key, owed[k] # None
  PROVE  Due[k] = owed[k] /\ k \notin Pending
BY DueOf DEF OwedIInv, Promises, Pending, FrameIInv, Stations

\* A record the server has acknowledged to an undisturbed client is in the
\* snapshot and the log, however much of what is not synced a power loss
\* takes: database_close syncs before the reply is written.
THEOREM AcknowledgedSurvives == Spec => []AckedSurvives
<1>1. FrameIInv /\ OwedIInv => AckedSurvives
  <2> SUFFICES ASSUME FrameIInv, OwedIInv, NEW n \in synced..Len(wal), NEW k \in Key, owed[k] # None
               PROVE  Replayed(base, FirstRecs(wal, n))[k] = owed[k]
    BY DEF AckedSurvives, Honours
  <2>1. Due[k] = owed[k] /\ k \notin Pending
    BY OwedIsDue
  <2>2. n \in Exposures[k]
    BY <2>1, FrameOffset, SeenOf
  <2>. QED BY <2>1, <2>2 DEF OwedIInv, SafeIn, SafeFor
<1>. QED BY <1>1, OwedAlways, PTL

\* Both processes show what is owed: the server in its answers to GET, its text
\* as far as the pools of the answer have room, and the REPL in its listing,
\* whatever sessions came between.
THEOREM AcknowledgedServed == Spec => []AckedServed
<1>1. FrameIInv /\ OwedIInv => AckedServed
  <2> SUFFICES ASSUME FrameIInv, OwedIInv, NEW k \in Key, owed[k] # None
               PROVE  /\ pc["server"] = "ready" /\ "server" \notin stale => Shows(view["server"], k)
                      /\ pc["repl"] = "ready" => view["repl"][k] = owed[k]
    BY DEF AckedServed
  <2>1. Due[k] = owed[k] /\ owed[k].ns \in {"notes", "database"}
    BY OwedIsDue DEF OwedIInv, Promises
  <2>2. ASSUME NEW m, m[k] = owed[k] PROVE Shows(m, k)
    <3>1. CASE owed[k].ns = "database"
      <4>1. k \in InNamespace(m, "database")
        BY <2>2, <3>1 DEF InNamespace
      <4>2. RouteAnswer(m, k).found /\ RouteAnswer(m, k).value = Value(owed[k], Routable)
        BY <2>2, <4>1 DEF RouteAnswer
      <4>. QED BY <3>1, <4>2 DEF Shows, Value
    <3>2. CASE owed[k].ns # "database"
      <4>1. k \in InNamespace(m, "notes")
        BY <2>1, <2>2, <3>2 DEF InNamespace
      <4> DEFINE items == ListAnswer(m, "notes")
      <4>2. items # None => items = [i \in InNamespace(m, "notes") |-> Value(m[i], Listable)]
        BY DEF ListAnswer
      <4> HIDE DEF items
      <4>3. items # None => k \in DOMAIN items /\ items[k] = Value(owed[k], Listable)
        BY <2>2, <4>1, <4>2
      <4>. QED BY <3>2, <4>3 DEF Shows, Value, items
    <3>. QED BY <3>1, <3>2
  <2>. QED BY <2>1, <2>2 DEF OwedIInv, Views, Has
<1>. QED BY <1>1, OwedAlways, PTL

-----------------------------------------------------------------------------
(* The numbers of the notes.  database_add_note counts the notes and takes *)
(* the next number; the count is right because in every map a crash can    *)
(* leave the notes are the first so many of NoteKey, and the table counted *)
(* in differs from what is stored in nothing.                              *)

(* The notes of a map and of a log *)

\* Only notes are stored under note keys.
Tidy(k, v) == v # None => (IsNoteKey(k) <=> v.ns = "notes")
TidyMap(m) == \A k \in Key : Tidy(k, m[k])

\* Nobody deletes one either.
TidyRec(r) == Tidy(r.key, r.val) /\ (IsNoteKey(r.key) => r.val # None)
TidyLog(w) == \A i \in 1..Len(w) : TidyRec(w[i])

\* The notes that the first n records write.
NoteWrites(w, n) == {k \in Key : IsNoteKey(k) /\ \E i \in 1..n : w[i].key = k}

FirstNotes(c) == {NoteKey[i] : i \in 1..c}
Segment(S) == \E c \in 0..Len(NoteKey) : S = FirstNotes(c)

\* In a tidy store the notes are the keys of notes that live.
LEMMA NotesOfTidy ==
  ASSUME NEW m, TidyMap(m), NEW k \in Key
  PROVE  k \in Notes(m) <=> IsNoteKey(k) /\ m[k] # None
BY DEF Notes, InNamespace, TidyMap, Tidy

\* The notes of a replayed log are those of the snapshot and those it wrote.
LEMMA ReplayedNotes ==
  ASSUME NEW w \in Seq(Rec), NEW m \in Map, TidyMap(m), TidyLog(w)
  PROVE  /\ TidyMap(Replayed(m, w))
         /\ Notes(Replayed(m, w)) = Notes(m) \cup NoteWrites(w, Len(w))
<1> DEFINE x == Replayed(m, w)
<1>1. ASSUME NEW k \in Key
      PROVE  \/ WritesOf(w, k) = {} /\ x[k] = m[k]
             \/ \E i \in 1..Len(w) : w[i].key = k /\ x[k] = w[i].val
  <2>1. CASE WritesOf(w, k) = {}
    BY <2>1 DEF Replayed
  <2>2. CASE WritesOf(w, k) # {}
    <3>1. LastOf(WritesOf(w, k)) \in WritesOf(w, k)
      BY <2>2, EveryLogHasLast, LastOfWrites
    <3>2. x[k] = w[LastOf(WritesOf(w, k))].val
      BY <2>2 DEF Replayed
    <3>. QED BY <3>1, <3>2 DEF WritesOf
  <2>. QED BY <2>1, <2>2
<1> HIDE DEF x
<1>2. ASSUME NEW k \in Key
      PROVE  /\ Tidy(k, x[k])
             /\ IsNoteKey(k) => (x[k] # None <=> m[k] # None \/ \E i \in 1..Len(w) : w[i].key = k)
  <2>1. CASE WritesOf(w, k) = {} /\ x[k] = m[k]
    BY <2>1 DEF TidyMap, WritesOf
  <2>2. ASSUME NEW i \in 1..Len(w), w[i].key = k, x[k] = w[i].val
        PROVE  /\ Tidy(k, x[k])
               /\ IsNoteKey(k) => (x[k] # None <=> m[k] # None \/ \E j \in 1..Len(w) : w[j].key = k)
    <3>1. TidyRec(w[i])
      BY DEF TidyLog
    <3>. QED BY <2>2, <3>1 DEF TidyRec
  <2>. QED BY <1>1, <2>1, <2>2
<1>3. TidyMap(x)
  BY <1>2 DEF TidyMap
<1>4. \A k \in Key : k \in Notes(x) <=> k \in Notes(m) \cup NoteWrites(w, Len(w))
  BY <1>2, <1>3, NotesOfTidy DEF NoteWrites
<1>5. Notes(x) \subseteq Key /\ Notes(m) \subseteq Key /\ NoteWrites(w, Len(w)) \subseteq Key
  BY DEF Notes, InNamespace, NoteWrites
<1>. QED BY <1>3, <1>4, <1>5 DEF x

\* The notes a prefix of the log wrote.
LEMMA PrefixNotes ==
  ASSUME NEW w \in Seq(Rec), NEW n \in 0..Len(w)
  PROVE  /\ FirstRecs(w, n) \in Seq(Rec) /\ Len(FirstRecs(w, n)) = n
         /\ TidyLog(w) => TidyLog(FirstRecs(w, n))
         /\ \A i \in 0..n : NoteWrites(FirstRecs(w, n), i) = NoteWrites(w, i)
<1>1. /\ FirstRecs(w, n) \in Seq(Rec) /\ Len(FirstRecs(w, n)) = n
      /\ \A i \in 1..n : FirstRecs(w, n)[i] = w[i]
  BY DEF FirstRecs
<1>. QED BY <1>1 DEF TidyLog, NoteWrites

\* A record appended adds its own key, if that is a key of notes.
LEMMA AppendedNotes ==
  ASSUME NEW w \in Seq(Rec), NEW r \in Rec, TidyLog(w), TidyRec(r)
  PROVE  /\ TidyLog(Append(w, r)) /\ Append(w, r) \in Seq(Rec) /\ Len(Append(w, r)) = Len(w) + 1
         /\ \A i \in 0..Len(w) : NoteWrites(Append(w, r), i) = NoteWrites(w, i)
         /\ NoteWrites(Append(w, r), Len(w) + 1) =
              NoteWrites(w, Len(w)) \cup {k \in Key : IsNoteKey(k) /\ k = r.key}
<1> DEFINE v == Append(w, r)
<1>1. /\ v \in Seq(Rec) /\ Len(v) = Len(w) + 1 /\ v[Len(w) + 1] = r
      /\ \A i \in 1..Len(w) : v[i] = w[i]
  OBVIOUS
<1> HIDE DEF v
<1>2. TidyLog(v)
  <2>1. ASSUME NEW i \in 1..Len(v) PROVE TidyRec(v[i])
    <3>1. i = Len(w) + 1 \/ i \in 1..Len(w)
      BY <1>1
    <3>. QED BY <1>1, <3>1 DEF TidyLog
  <2>. QED BY <2>1 DEF TidyLog
<1>3. \A i \in 0..Len(w) : NoteWrites(v, i) = NoteWrites(w, i)
  BY <1>1 DEF NoteWrites
<1>4. NoteWrites(v, Len(w) + 1) = NoteWrites(w, Len(w)) \cup {k \in Key : IsNoteKey(k) /\ k = r.key}
  BY <1>1 DEF NoteWrites
<1>. QED BY <1>1, <1>2, <1>3, <1>4 DEF v

\* So it does in the table of a session.
LEMMA AppliedNotes ==
  ASSUME NEW m \in Map, NEW r \in Rec, TidyMap(m), Tidy(r.key, r.val)
  PROVE  /\ TidyMap(Applied(m, r))
         /\ ~IsNoteKey(r.key) => Notes(Applied(m, r)) = Notes(m)
<1>1. r.key \in Key /\ Applied(m, r)[r.key] = r.val /\ \A k \in Key : k # r.key => Applied(m, r)[k] = m[k]
  BY AppliedType DEF Rec
<1>2. TidyMap(Applied(m, r))
  BY <1>1 DEF TidyMap
<1>3. ASSUME ~IsNoteKey(r.key) PROVE Notes(Applied(m, r)) = Notes(m)
  <2>1. \A k \in Key : k \in Notes(Applied(m, r)) <=> k \in Notes(m)
    BY <1>1, <1>2, <1>3, NotesOfTidy
  <2>. QED BY <2>1 DEF Notes, InNamespace
<1>. QED BY <1>2, <1>3

-----------------------------------------------------------------------------
(* The first notes *)

\* The first c notes are c notes.
LEMMA FirstNotesCount ==
  ASSUME NEW c \in 0..Len(NoteKey)
  PROVE  IsFiniteSet(FirstNotes(c)) /\ Cardinality(FirstNotes(c)) = c
<1>1. NoteKey \in Seq(Key) /\ Len(NoteKey) \in Nat /\ \A i, j \in 1..Len(NoteKey) : NoteKey[i] = NoteKey[j] => i = j
  BY DatabaseAssumption
<1> DEFINE f == [i \in 1..c |-> NoteKey[i]]
<1>2. f \in [1..c -> FirstNotes(c)]
  BY DEF FirstNotes
<1>3. \A a, b \in 1..c : f[a] = f[b] => a = b
  BY <1>1
<1>4. \A t \in FirstNotes(c) : \E s \in 1..c : f[s] = t
  BY DEF FirstNotes
<1>5. f \in Bijection(1..c, FirstNotes(c))
  <2> HIDE DEF f
  <2>. QED BY <1>2, <1>3, <1>4 DEF Bijection, Injection, Surjection, IsInjective
<1>6. ExistsBijection(1..c, FirstNotes(c))
  BY <1>5 DEF ExistsBijection
<1>7. IsFiniteSet(1..c) /\ Cardinality(1..c) = c
  BY <1>1, FS_Interval
<1>. QED BY <1>6, <1>7, FS_Bijection

\* The note after the first c is another one.
LEMMA NextOfFirst ==
  ASSUME NEW c \in 0..Len(NoteKey), c + 1 <= Len(NoteKey)
  PROVE  /\ c + 1 \in 0..Len(NoteKey) /\ NoteKey[c + 1] \in Key /\ IsNoteKey(NoteKey[c + 1])
         /\ NoteKey[c + 1] \notin FirstNotes(c)
         /\ FirstNotes(c + 1) = FirstNotes(c) \cup {NoteKey[c + 1]}
<1>1. NoteKey \in Seq(Key) /\ Len(NoteKey) \in Nat /\ \A i, j \in 1..Len(NoteKey) : NoteKey[i] = NoteKey[j] => i = j
  BY DatabaseAssumption
<1>2. c + 1 \in 1..Len(NoteKey) /\ 1..(c + 1) = 1..c \cup {c + 1} /\ c + 1 \in 0..Len(NoteKey)
  BY <1>1
<1>3. NoteKey[c + 1] \in Key /\ IsNoteKey(NoteKey[c + 1])
  BY <1>1, <1>2 DEF IsNoteKey
<1>4. NoteKey[c + 1] \notin FirstNotes(c)
  BY <1>1, <1>2 DEF FirstNotes
<1>5. FirstNotes(c + 1) = FirstNotes(c) \cup {NoteKey[c + 1]}
  BY <1>2 DEF FirstNotes
<1>. QED BY <1>2, <1>3, <1>4, <1>5

\* Two of them are the longer of the two together.
LEMMA SegmentJoins ==
  ASSUME NEW S, NEW T, Segment(S), Segment(T)
  PROVE  Segment(S \cup T)
<1>1. PICK a \in 0..Len(NoteKey) : S = FirstNotes(a)
  BY DEF Segment
<1>2. PICK b \in 0..Len(NoteKey) : T = FirstNotes(b)
  BY DEF Segment
<1>3. Len(NoteKey) \in Nat
  BY DatabaseAssumption
<1>4. CASE a <= b
  <2>1. S \cup T = FirstNotes(b)
    BY <1>1, <1>2, <1>3, <1>4 DEF FirstNotes
  <2>. QED BY <2>1 DEF Segment
<1>5. CASE b <= a
  <2>1. S \cup T = FirstNotes(a)
    BY <1>1, <1>2, <1>3, <1>5 DEF FirstNotes
  <2>. QED BY <2>1 DEF Segment
<1>. QED BY <1>3, <1>4, <1>5

-----------------------------------------------------------------------------
(* The inductive invariant *)

\* The notes of snapshot and log, with the log up to its n-th record.
Stored(n) == Notes(base) \cup NoteWrites(wal, n)

InOrder == \A n \in 0..Len(wal) : Segment(Stored(n))

\* What the REPL compacts: no note less than the snapshot has, and none that
\* is not stored.
ReplNotes ==
  pc["repl"] \in {"ready", "renamed"} =>
    /\ Segment(Notes(view["repl"]))
    /\ Notes(base) \subseteq Notes(view["repl"])
    /\ Notes(view["repl"]) \subseteq Stored(Len(wal))

\* What the server counts in: all that is stored, once it has read the log
\* and as long as nobody has appended to it.
ServerNotes ==
  /\ pc["server"] = "loaded" /\ "server" \notin stale =>
       Notes(view["server"]) \cup NoteWrites(wal, Len(wal)) = Stored(Len(wal))
  /\ pc["server"] = "ready" /\ "server" \notin stale /\ at["server"] = Len(wal) =>
       Notes(view["server"]) = Stored(Len(wal))

TidyState == TidyLog(wal) /\ TidyMap(base) /\ \A p \in Proc : TidyMap(view[p])

NotesIInv == ~disorder => TidyState /\ InOrder /\ ReplNotes /\ ServerNotes

\* The empty store has no notes.
LEMMA EmptyNotes == TidyMap(EmptyMap) /\ Notes(EmptyMap) = {}
BY EmptyMapType DEF TidyMap, Tidy, Notes, InNamespace

\* An empty log writes none.
LEMMA NoWrites ==
  ASSUME NEW w
  PROVE  NoteWrites(w, 0) = {}
BY DEF NoteWrites

\* No notes are the first 0 notes.
LEMMA NoNotes == Segment({})
<1>1. 0 \in 0..Len(NoteKey)
  BY DatabaseAssumption
<1>2. FirstNotes(0) = {}
  BY DEF FirstNotes
<1>. QED BY <1>1, <1>2 DEF Segment

\* There are none at first.
LEMMA NotesInit == Init => NotesIInv
<1> SUFFICES ASSUME Init PROVE NotesIInv
  OBVIOUS
<1>1. /\ wal = <<>> /\ Len(wal) = 0 /\ base = EmptyMap
      /\ pc = [p \in Proc |-> "closed"] /\ view = [p \in Proc |-> EmptyMap]
  BY DEF Init
<1>2. TidyState
  BY <1>1, EmptyNotes DEF TidyState, TidyLog
<1>3. InOrder
  <2>1. \A n \in 0..Len(wal) : Stored(n) = {}
    BY <1>1, EmptyNotes, NoWrites DEF Stored
  <2>. QED BY <2>1, NoNotes DEF InOrder
<1>. QED BY <1>1, <1>2, <1>3 DEF NotesIInv, ReplNotes, ServerNotes, Proc

\* A step that leaves the snapshot and the log, with sessions that go on or end.
LEMMA NotesCarried ==
  ASSUME FrameIInv, NotesIInv, disorder => disorder', wal' = wal, base' = base,
         \A q \in Proc : /\ view'[q] = view[q] \/ view'[q] = EmptyMap
                         /\ \/ pc'[q] \in {"closed", "written", "written out"}
                            \/ pc'[q] = pc[q] /\ view'[q] = view[q],
         "server" \in stale => "server" \in stale' \/ pc'["server"] = "closed",
         pc'["server"] = "ready" /\ at'["server"] = Len(wal) => at["server"] = Len(wal)
  PROVE  NotesIInv'
<1> SUFFICES ASSUME ~disorder' PROVE (TidyState /\ InOrder /\ ReplNotes /\ ServerNotes)'
  BY DEF NotesIInv
<1>1. TidyState /\ InOrder /\ ReplNotes /\ ServerNotes
  BY DEF NotesIInv
<1>2. TidyState'
  BY <1>1, EmptyNotes DEF TidyState
<1>3. \A n : Stored(n)' = Stored(n)
  BY DEF Stored
<1>4. InOrder'
  BY <1>1, <1>3 DEF InOrder
<1>5. \/ pc'["repl"] \in {"closed", "written", "written out"}
      \/ pc'["repl"] = pc["repl"] /\ view'["repl"] = view["repl"]
  BY DEF Proc
<1>6. \/ pc'["server"] \in {"closed", "written", "written out"}
      \/ pc'["server"] = pc["server"] /\ view'["server"] = view["server"]
  BY DEF Proc
<1>7. ReplNotes'
  BY <1>1, <1>5 DEF ReplNotes, Stored
<1>8. ServerNotes'
  BY <1>1, <1>6 DEF ServerNotes, Stored
<1>. QED BY <1>2, <1>4, <1>7, <1>8

\* A record appended at the end of the log.
LEMMA AppendStored ==
  ASSUME wal \in Seq(Rec), TidyLog(wal), NEW r \in Rec, TidyRec(r), wal' = Append(wal, r), base' = base
  PROVE  /\ TidyLog(wal)' /\ Len(wal') = Len(wal) + 1
         /\ NoteWrites(wal', Len(wal')) =
              NoteWrites(wal, Len(wal)) \cup {k \in Key : IsNoteKey(k) /\ k = r.key}
         /\ \A n \in 0..Len(wal) : Notes(base') \cup NoteWrites(wal', n) = Stored(n)
         /\ Notes(base') \cup NoteWrites(wal', Len(wal')) =
              Stored(Len(wal)) \cup {k \in Key : IsNoteKey(k) /\ k = r.key}
BY AppendedNotes DEF Stored

\* What an action has to show for the log it leaves.
LEMMA InOrderNext ==
  ASSUME \A n \in 0..Len(wal') : Segment(Notes(base') \cup NoteWrites(wal', n))
  PROVE  InOrder'
BY DEF InOrder, Stored

\* The record of a POST.
LEMMA PostNotes ==
  ASSUME FrameIInv, ~disorder, TidyState, InOrder, ReplNotes,
         NEW r \in Rec, Post(r), AtEnd("server"), TidyRec(r),
         Segment(Stored(Len(wal)) \cup {k \in Key : IsNoteKey(k) /\ k = r.key})
  PROVE  TidyState' /\ InOrder' /\ ReplNotes' /\ ServerNotes'
<1>1. /\ DbWrite("server", r, FALSE) /\ pc' = [pc EXCEPT !["server"] = "written"]
  BY DEF Post
<1>2. /\ wal \in Seq(Rec) /\ pc \in [Proc -> PCs] /\ view \in [Proc -> Map] /\ Proc = {"server", "repl"}
      /\ Len(wal) \in Nat
  BY DEF FrameIInv, TypeOK, Proc
<1>3. wal' = Append(wal, r)
  <2>1. "server" \in Proc /\ FALSE \in BOOLEAN
    BY DEF Proc
  <2>2. Offset /\ synced \in 0..Len(wal)
    BY FrameOffset
  <2>. QED BY <1>1, <2>1, <2>2, WriteMoves, Zenon
<1>4. base' = base /\ view' = [view EXCEPT !["server"] = Applied(view["server"], r)]
  BY <1>1, <1>2 DEF DbWrite
<1>5. /\ TidyLog(wal)' /\ Len(wal') = Len(wal) + 1
      /\ \A n \in 0..Len(wal) : Notes(base') \cup NoteWrites(wal', n) = Stored(n)
      /\ Notes(base') \cup NoteWrites(wal', Len(wal')) =
           Stored(Len(wal)) \cup {k \in Key : IsNoteKey(k) /\ k = r.key}
  BY <1>2, <1>3, <1>4, AppendStored DEF TidyState
<1>6. TidyState'
  <2>1. TidyMap(Applied(view["server"], r))
    BY <1>2, AppliedNotes DEF TidyState, TidyRec
  <2>2. view'["server"] = Applied(view["server"], r) /\ view'["repl"] = view["repl"]
    BY <1>2, <1>4
  <2>. QED BY <1>2, <1>4, <1>5, <2>1, <2>2 DEF TidyState
<1>7. InOrder'
  <2>1. ASSUME NEW n \in 0..Len(wal') PROVE Segment(Notes(base') \cup NoteWrites(wal', n))
    <3>1. n \in 0..Len(wal) \/ n = Len(wal')
      BY <1>2, <1>5
    <3>. QED BY <1>5, <3>1 DEF InOrder
  <2>. QED BY <2>1, InOrderNext
<1>8. pc'["repl"] = pc["repl"] /\ view'["repl"] = view["repl"] /\ pc'["server"] = "written"
  BY <1>1, <1>2, <1>4
<1>9. ReplNotes'
  BY <1>4, <1>5, <1>8 DEF ReplNotes, Stored
<1>. QED BY <1>6, <1>7, <1>8, <1>9 DEF ServerNotes

\* The note of a request is the next one after those its session counted.
LEMMA RequestNotes ==
  ASSUME FrameIInv, NotesIInv,
         \/ \E k \in Key, t \in Payload : DatabaseSet(k, t)
         \/ \E t \in Payload : DatabaseAddNote(t)
  PROVE  NotesIInv'
<1> SUFFICES ASSUME ~disorder' PROVE (TidyState /\ InOrder /\ ReplNotes /\ ServerNotes)'
  BY DEF NotesIInv
<1>1. ~disorder
  BY DEF DatabaseSet, DatabaseAddNote
<1>2. TidyState /\ InOrder /\ ReplNotes /\ ServerNotes /\ Len(wal) \in Nat
  BY <1>1, FrameOffset DEF NotesIInv
<1>3. ASSUME NEW k \in Key, NEW t \in Payload, DatabaseSet(k, t)
      PROVE  (TidyState /\ InOrder /\ ReplNotes /\ ServerNotes)'
  <2> DEFINE v == [ns |-> "database", text |-> t]
             r == [key |-> k, val |-> v]
  <2>1. k \in Key /\ "database" \in Namespace
    BY DatabaseAssumption DEF Namespace
  <2>2. r \in Rec /\ v # None /\ v.ns = "database" /\ r.key = k /\ r.val = v
    BY <2>1, NoteRec
  <2>3. Post(r) /\ ~IsNoteKey(k) /\ AtEnd("server")
    BY <1>3 DEF DatabaseSet
  <2> HIDE DEF v, r
  <2>4. TidyRec(r)
    BY <2>2, <2>3 DEF TidyRec, Tidy
  <2>5. Segment(Stored(Len(wal)) \cup {i \in Key : IsNoteKey(i) /\ i = r.key})
    <3>1. {i \in Key : IsNoteKey(i) /\ i = r.key} = {}
      BY <2>2, <2>3
    <3>2. Stored(Len(wal)) \cup {i \in Key : IsNoteKey(i) /\ i = r.key} = Stored(Len(wal))
      BY <3>1
    <3>3. Len(wal) \in 0..Len(wal)
      BY <1>2
    <3>4. Segment(Stored(Len(wal)))
      BY <1>2, <3>3 DEF InOrder
    <3>. QED BY <3>2, <3>4
  <2>. QED BY <1>1, <1>2, <2>2, <2>3, <2>4, <2>5, PostNotes
<1>4. ASSUME NEW t \in Payload, DatabaseAddNote(t)
      PROVE  (TidyState /\ InOrder /\ ReplNotes /\ ServerNotes)'
  <2> DEFINE n == NoteNumber(view["server"])
             k == NoteKey[n]
             v == [ns |-> "notes", text |-> t]
             r == [key |-> k, val |-> v]
  <2>1. n <= Len(NoteKey) /\ Post(r) /\ "server" \notin stale /\ AtEnd("server")
    BY <1>4 DEF DatabaseAddNote
  <2>2. Notes(view["server"]) = Stored(Len(wal))
    BY <1>2, <2>1 DEF ServerNotes, Post, DbWrite, AtEnd
  <2>3. PICK c \in 0..Len(NoteKey) : Stored(Len(wal)) = FirstNotes(c)
    BY <1>2 DEF InOrder, Segment
  <2>4. n = c + 1
    BY <2>2, <2>3, FirstNotesCount DEF NoteNumber
  <2> HIDE DEF n
  <2>5. /\ c + 1 \in 0..Len(NoteKey) /\ k \in Key /\ IsNoteKey(k)
        /\ FirstNotes(c + 1) = FirstNotes(c) \cup {k}
    BY <2>1, <2>4, NextOfFirst
  <2> HIDE DEF k
  <2>6. r \in Rec /\ v # None /\ v.ns = "notes" /\ r.key = k /\ r.val = v
    BY <2>5, NoteRec DEF Namespace
  <2> HIDE DEF v, r
  <2>7. TidyRec(r)
    BY <2>5, <2>6 DEF TidyRec, Tidy
  <2>8. Segment(Stored(Len(wal)) \cup {i \in Key : IsNoteKey(i) /\ i = r.key})
    <3>1. {i \in Key : IsNoteKey(i) /\ i = r.key} = {k}
      BY <2>5, <2>6
    <3>. QED BY <2>3, <2>5, <3>1 DEF Segment
  <2>. QED BY <1>1, <1>2, <2>1, <2>6, <2>7, <2>8, PostNotes
<1>. QED BY <1>3, <1>4

\* SET, WRITE and DELETE of the REPL, of keys that are no notes and into other
\* namespaces.
LEMMA ReplWriteNotes ==
  ASSUME FrameIInv, NotesIInv, NEW r \in Rec, ReplWrite(r)
  PROVE  NotesIInv'
<1> SUFFICES ASSUME ~disorder' PROVE (TidyState /\ InOrder /\ ReplNotes /\ ServerNotes)'
  BY DEF NotesIInv
<1> DEFINE due == ops["repl"] + 1 >= SyncEvery
<1>1. /\ DbWrite("repl", r, due) /\ pc' = pc /\ ~disorder /\ AtEnd("repl")
      /\ ~IsNoteKey(r.key) /\ (r.val # None => r.val.ns # "notes")
  BY DEF ReplWrite, MeddlesWithNotes
<1>2. due \in BOOLEAN
  OBVIOUS
<1> HIDE DEF due
<1>3. /\ wal \in Seq(Rec) /\ pc \in [Proc -> PCs] /\ view \in [Proc -> Map] /\ Proc = {"server", "repl"}
      /\ Len(wal) \in Nat /\ at["server"] \in 0..Len(wal) /\ "repl" \in Proc /\ "server" \in Proc \ {"repl"}
  <2>1. Proc = {"server", "repl"} /\ "repl" \in Proc /\ "server" \in Proc \ {"repl"}
    BY DEF Proc
  <2>2. TypeOK
    BY DEF FrameIInv
  <2>3. wal \in Seq(Rec) /\ pc \in [Proc -> PCs] /\ view \in [Proc -> Map] /\ at \in [Proc -> 0..Len(wal)]
    BY <2>2 DEF TypeOK
  <2>. QED BY <2>1, <2>3
<1>4. TidyState /\ InOrder /\ ReplNotes /\ ServerNotes
  BY <1>1 DEF NotesIInv
<1>5. wal' = Append(wal, r) /\ at'["server"] = at["server"]
  <2>1. Offset /\ synced \in 0..Len(wal)
    BY FrameOffset
  <2>2. \A p \in Proc : DbWrite(p, r, due) /\ AtEnd(p) =>
          wal' = Append(wal, r) /\ \A q \in Proc \ {p} : at'[q] = at[q]
    BY <1>2, <2>1, WriteMoves
  <2>. QED BY <1>1, <1>3, <2>2
<1>6. base' = base /\ stale' = stale /\ view' = [view EXCEPT !["repl"] = Applied(view["repl"], r)]
  BY <1>1, <1>3 DEF DbWrite
<1>7. TidyRec(r)
  BY <1>1 DEF TidyRec, Tidy
<1>8. {k \in Key : IsNoteKey(k) /\ k = r.key} = {}
  BY <1>1
<1>9. /\ TidyLog(wal)' /\ Len(wal') = Len(wal) + 1
      /\ NoteWrites(wal', Len(wal')) = NoteWrites(wal, Len(wal))
      /\ \A n \in 0..Len(wal) : Notes(base') \cup NoteWrites(wal', n) = Stored(n)
      /\ Notes(base') \cup NoteWrites(wal', Len(wal')) = Stored(Len(wal))
  BY <1>3, <1>4, <1>5, <1>6, <1>7, <1>8, AppendStored DEF TidyState
<1>10. TidyMap(Applied(view["repl"], r)) /\ Notes(Applied(view["repl"], r)) = Notes(view["repl"])
  BY <1>1, <1>3, <1>4, <1>7, AppliedNotes DEF TidyState, TidyRec
<1>11. view'["repl"] = Applied(view["repl"], r) /\ view'["server"] = view["server"]
  BY <1>3, <1>6
<1>12. TidyState'
  BY <1>3, <1>4, <1>6, <1>9, <1>10, <1>11 DEF TidyState
<1>13. InOrder'
  <2>1. ASSUME NEW n \in 0..Len(wal') PROVE Segment(Notes(base') \cup NoteWrites(wal', n))
    <3>1. n \in 0..Len(wal) \/ n = Len(wal')
      BY <1>3, <1>9
    <3>2. Len(wal) \in 0..Len(wal)
      BY <1>3
    <3>. QED BY <1>4, <1>9, <3>1, <3>2 DEF InOrder
  <2>. QED BY <2>1, InOrderNext
<1>14. ReplNotes'
  BY <1>1, <1>4, <1>6, <1>9, <1>10, <1>11 DEF ReplNotes, Stored
<1>15. ServerNotes'
  <2>1. at'["server"] # Len(wal')
    BY <1>3, <1>5, <1>9
  <2>. QED BY <1>1, <1>4, <1>6, <1>9, <1>11, <2>1 DEF ServerNotes, Stored
<1>. QED BY <1>12, <1>13, <1>14, <1>15

\* db_open.
LEMMA OpenNotes ==
  ASSUME FrameIInv, OwedIInv, NotesIInv, NEW p \in Proc, LoadBase(p) \/ ReplayLog(p) \/ RejectLog(p)
  PROVE  NotesIInv'
<1> SUFFICES ASSUME ~disorder' PROVE (TidyState /\ InOrder /\ ReplNotes /\ ServerNotes)'
  BY DEF NotesIInv
<1>1. UNCHANGED <<wal, base, disorder>> /\ \A n : Stored(n)' = Stored(n)
  BY DEF LoadBase, ReplayLog, RejectLog, store, ghosts, Stored
<1>2. TidyState /\ InOrder /\ ReplNotes /\ ServerNotes
  BY <1>1 DEF NotesIInv
<1>3. /\ wal \in Seq(Rec) /\ pc \in [Proc -> PCs] /\ view \in [Proc -> Map] /\ Proc = {"server", "repl"}
      /\ base \in Map /\ at \in [Proc -> 0..Len(wal)] /\ Len(wal) \in Nat
  BY DEF FrameIInv, TypeOK, Proc
<1>4. InOrder'
  BY <1>1, <1>2 DEF InOrder
<1>5. \A q \in Proc \ {p} : pc'[q] = pc[q] /\ view'[q] = view[q] /\ at'[q] = at[q]
  BY <1>3 DEF LoadBase, ReplayLog, RejectLog, Leave, LeaveMemory, offsets
<1>6. CASE RejectLog(p)
  <2>1. pc'[p] = "closed" /\ view'[p] = EmptyMap /\ stale' = stale \ {p}
    BY <1>3, <1>6 DEF RejectLog, Leave, LeaveMemory
  <2>2. \A q \in Proc : /\ view'[q] = view[q] \/ view'[q] = EmptyMap
                        /\ \/ pc'[q] \in {"closed", "written", "written out"}
                           \/ pc'[q] = pc[q] /\ view'[q] = view[q]
    BY <1>5, <2>1
  <2>3. pc'["server"] = "ready" => at'["server"] = at["server"]
    BY <1>3, <1>5, <2>1
  <2>4. NotesIInv'
    BY <1>1, <2>1, <2>2, <2>3, NotesCarried
  <2>. QED BY <2>4 DEF NotesIInv
<1>7. CASE LoadBase(p)
  <2>1. pc'[p] = "loaded" /\ view'[p] = base /\ stale' = stale
    BY <1>3, <1>7 DEF LoadBase
  <2>2. TidyState'
    BY <1>1, <1>2, <1>5, <2>1 DEF TidyState
  <2>3. CASE p = "repl"
    <3>1. pc'["server"] = pc["server"] /\ view'["server"] = view["server"] /\ at'["server"] = at["server"]
      BY <1>3, <1>5, <2>3
    <3>. QED BY <1>1, <1>2, <1>4, <2>1, <2>2, <2>3, <3>1 DEF ReplNotes, ServerNotes, Stored
  <2>4. CASE p = "server"
    <3>1. pc'["repl"] = pc["repl"] /\ view'["repl"] = view["repl"]
      BY <1>3, <1>5, <2>4
    <3>. QED BY <1>1, <1>2, <1>4, <2>1, <2>2, <2>4, <3>1 DEF ReplNotes, ServerNotes, Stored
  <2>. QED BY <1>3, <2>3, <2>4
<1>8. CASE ReplayLog(p)
  <2>1. pc[p] = "loaded" /\ pc'[p] = "ready" /\ view'[p] = Replayed(view[p], wal) /\ stale' = stale
    BY <1>3, <1>8 DEF ReplayLog
  <2>2. /\ TidyMap(Replayed(view[p], wal))
        /\ Notes(Replayed(view[p], wal)) = Notes(view[p]) \cup NoteWrites(wal, Len(wal))
    BY <1>2, <1>3, ReplayedNotes DEF TidyState
  <2>3. TidyState'
    BY <1>1, <1>2, <1>5, <2>1, <2>2 DEF TidyState
  <2>4. CASE p = "repl"
    <3>1. pc'["server"] = pc["server"] /\ view'["server"] = view["server"] /\ at'["server"] = at["server"]
      BY <1>3, <1>5, <2>4
    <3>2. view["repl"] = base
      BY <2>1, <2>4 DEF OwedIInv, Views
    <3>3. Notes(view'["repl"]) = Stored(Len(wal)) /\ Notes(base) \subseteq Stored(Len(wal))
      BY <2>1, <2>2, <2>4, <3>2 DEF Stored
    <3>4. Segment(Stored(Len(wal)))
      BY <1>2, <1>3 DEF InOrder
    <3>5. ReplNotes'
      BY <1>1, <3>3, <3>4 DEF ReplNotes, Stored
    <3>6. ServerNotes'
      BY <1>1, <1>2, <2>1, <3>1 DEF ServerNotes, Stored
    <3>. QED BY <1>4, <2>3, <3>5, <3>6
  <2>5. CASE p = "server"
    <3>1. pc'["repl"] = pc["repl"] /\ view'["repl"] = view["repl"]
      BY <1>3, <1>5, <2>5
    <3>2. ReplNotes'
      BY <1>1, <1>2, <3>1 DEF ReplNotes, Stored
    <3>3. "server" \notin stale => Notes(view'["server"]) = Stored(Len(wal))
      BY <1>2, <2>1, <2>2, <2>5 DEF ServerNotes
    <3>4. ServerNotes'
      BY <1>1, <2>1, <2>5, <3>3 DEF ServerNotes, Stored
    <3>. QED BY <1>4, <2>3, <3>2, <3>4
  <2>. QED BY <1>3, <2>4, <2>5
<1>. QED BY <1>6, <1>7, <1>8

\* db_close of a POST, its answer, the end of a GET, EXIT.
LEMMA CloseNotes ==
  ASSUME FrameIInv, NotesIInv, DbCloseAfterWrite \/ Reply \/ DoneReading \/ ReplExit
  PROVE  NotesIInv'
<1>1. /\ pc \in [Proc -> PCs] /\ view \in [Proc -> Map] /\ Proc = {"server", "repl"}
      /\ at \in [Proc -> 0..Len(wal)]
  BY DEF FrameIInv, TypeOK, Proc
<1>2. wal' = wal /\ base' = base /\ disorder' = disorder
  BY DEF DbCloseAfterWrite, Reply, DoneReading, ReplExit, store, ghosts
<1>3. CASE DbCloseAfterWrite \/ Reply \/ DoneReading
  <2>1. /\ pc'["server"] \in {"closed", "written out"} /\ pc'["repl"] = pc["repl"] /\ view'["repl"] = view["repl"]
        /\ view'["server"] = view["server"] \/ view'["server"] = EmptyMap
        /\ "server" \in stale => "server" \in stale' \/ pc'["server"] = "closed"
    BY <1>1, <1>3 DEF DbCloseAfterWrite, Reply, DoneReading, Leave, LeaveMemory
  <2>. QED BY <1>1, <1>2, <2>1, NotesCarried
<1>4. CASE ReplExit
  <2>1. /\ pc'["repl"] = "closed" /\ view'["repl"] = EmptyMap /\ stale' = stale \ {"repl"}
        /\ pc'["server"] = pc["server"] /\ view'["server"] = view["server"] /\ at'["server"] = at["server"]
    BY <1>1, <1>4 DEF ReplExit, Leave, LeaveMemory
  <2>. QED BY <1>1, <1>2, <2>1, NotesCarried
<1>. QED BY <1>3, <1>4

\* COMPACT: the snapshot has every note the last one had, and none that was
\* not stored, so the log that is still there adds the same ones.
LEMMA CompactNotes ==
  ASSUME FrameIInv, OwedIInv, NotesIInv, CompactRename \/ CompactTruncate
  PROVE  NotesIInv'
<1> SUFFICES ASSUME ~disorder' PROVE (TidyState /\ InOrder /\ ReplNotes /\ ServerNotes)'
  BY DEF NotesIInv
<1>1. /\ pc \in [Proc -> PCs] /\ view' = view /\ disorder' = disorder /\ pc'["server"] = pc["server"]
      /\ Proc = {"server", "repl"} /\ Len(wal) \in Nat
  BY FrameOffset DEF FrameIInv, TypeOK, Proc, CompactRename, CompactTruncate, ghosts
<1>2. TidyState /\ InOrder /\ ReplNotes /\ ServerNotes
  BY <1>1 DEF NotesIInv
<1>3. CASE CompactRename
  <2>1. /\ wal' = wal /\ base' = view["repl"] /\ at' = at /\ stale' = stale
        /\ pc["repl"] = "ready" /\ pc'["repl"] = "renamed"
    BY <1>1, <1>3 DEF CompactRename, offsets
  <2>2. TidyState'
    BY <1>1, <1>2, <2>1 DEF TidyState
  <2>3. /\ Segment(Notes(view["repl"])) /\ Notes(base) \subseteq Notes(view["repl"])
        /\ Notes(view["repl"]) \subseteq Stored(Len(wal))
    BY <1>2, <2>1 DEF ReplNotes
  <2>4. InOrder'
    <3>1. ASSUME NEW n \in 0..Len(wal) PROVE Segment(Notes(base') \cup NoteWrites(wal', n))
      <4>1. Notes(base') \cup NoteWrites(wal', n) = Notes(view["repl"]) \cup Stored(n)
        BY <2>1, <2>3 DEF Stored
      <4>2. Segment(Stored(n))
        BY <1>2 DEF InOrder
      <4>. QED BY <2>3, <4>1, <4>2, SegmentJoins
    <3>. QED BY <2>1, <3>1, InOrderNext
  <2>5. Notes(base') \cup NoteWrites(wal', Len(wal')) = Stored(Len(wal))
    BY <2>1, <2>3 DEF Stored
  <2>6. ReplNotes'
    BY <1>1, <2>1, <2>3, <2>5 DEF ReplNotes, Stored
  <2>7. ServerNotes'
    BY <1>1, <1>2, <2>1, <2>5 DEF ServerNotes, Stored
  <2>. QED BY <2>2, <2>4, <2>6, <2>7
<1>4. CASE CompactTruncate
  <2>1. /\ wal' = <<>> /\ base' = base /\ pc["repl"] = "renamed" /\ pc'["repl"] = "ready"
        /\ stale' = IF pc["server"] \in {"loaded", "ready"} THEN stale \cup {"server"} ELSE stale
    BY <1>1, <1>4 DEF CompactTruncate
  <2>2. base = view["repl"] /\ Segment(Notes(view["repl"]))
    BY <1>2, <2>1 DEF OwedIInv, Views, ReplNotes
  <2>3. Len(wal') = 0
    BY <2>1
  <2>4. TidyState'
    BY <1>1, <1>2, <2>1, <2>3 DEF TidyState, TidyLog
  <2>5. InOrder'
    <3>1. ASSUME NEW n \in 0..Len(wal') PROVE Segment(Notes(base') \cup NoteWrites(wal', n))
      <4>1. n = 0
        BY <2>3
      <4>2. NoteWrites(wal', n) = {}
        BY <4>1, NoWrites
      <4>. QED BY <2>1, <2>2, <4>2
    <3>. QED BY <3>1, InOrderNext
  <2>6. ReplNotes'
    BY <1>1, <2>1, <2>2 DEF ReplNotes, Stored
  <2>7. ServerNotes'
    BY <1>1, <2>1 DEF ServerNotes
  <2>. QED BY <2>4, <2>5, <2>6, <2>7
<1>. QED BY <1>3, <1>4

\* A process killed, inside a write over nothing if notes are to stay in order.
LEMMA KillNotes ==
  ASSUME FrameIInv, NotesIInv, NEW p \in Proc, Kill(p)
  PROVE  NotesIInv'
<1> SUFFICES ASSUME ~disorder' PROVE NotesIInv'
  BY DEF NotesIInv
<1>1. /\ wal \in Seq(Rec) /\ pc \in [Proc -> PCs] /\ view \in [Proc -> Map] /\ Proc = {"server", "repl"}
      /\ at \in [Proc -> 0..Len(wal)] /\ Len(wal) \in Nat
  BY DEF FrameIInv, TypeOK, Proc
<1>2. LeaveMemory(p) /\ base' = base
  BY DEF Kill
<1>3. /\ pc'[p] = "closed" /\ view'[p] = EmptyMap /\ stale' = stale \ {p}
      /\ \A q \in Proc \ {p} : pc'[q] = pc[q] /\ view'[q] = view[q]
  BY <1>1, <1>2 DEF LeaveMemory
<1>4. wal' = wal /\ (disorder => disorder') /\ \A q \in Proc \ {p} : at'[q] \in Int /\ at'[q] <= at[q]
  <2>1. CASE TornAppend(p)
    <3>1. PICK n \in at[p]..Len(wal) : wal' = FirstRecs(wal, n) /\ disorder' = (disorder \/ n # Len(wal))
      BY <2>1, FrameOffset, TearMoves
    <3>2. wal' = wal /\ (disorder => disorder')
      BY <1>1, <3>1, WholePrefix
    <3>3. Offset' /\ \A q \in Proc \ {p} : at'[q] <= at[q]
      BY <2>1, FrameOffset, TearMoves
    <3>. QED BY <1>1, <3>2, <3>3 DEF Offset
  <2>2. CASE at' = [at EXCEPT ![p] = 0] /\ UNCHANGED <<wal, disorder>>
    BY <1>1, <2>2
  <2>. QED BY <2>1, <2>2 DEF Kill
<1>5. \A q \in Proc : /\ view'[q] = view[q] \/ view'[q] = EmptyMap
                      /\ \/ pc'[q] \in {"closed", "written", "written out"}
                         \/ pc'[q] = pc[q] /\ view'[q] = view[q]
  BY <1>3
<1>6. "server" \in stale => "server" \in stale' \/ pc'["server"] = "closed"
  BY <1>3
<1>7. pc'["server"] = "ready" /\ at'["server"] = Len(wal) => at["server"] = Len(wal)
  <2>1. at["server"] \in 0..Len(wal)
    BY <1>1
  <2>2. pc'["server"] = "ready" => at'["server"] \in Int /\ at'["server"] <= at["server"]
    BY <1>1, <1>3, <1>4
  <2>. QED BY <1>1, <2>1, <2>2
<1>. QED BY <1>2, <1>4, <1>5, <1>6, <1>7, NotesCarried

\* A power loss takes notes from the end only.
LEMMA PowerNotes ==
  ASSUME FrameIInv, NotesIInv, PowerLoss
  PROVE  NotesIInv'
<1> SUFFICES ASSUME ~disorder' PROVE (TidyState /\ InOrder /\ ReplNotes /\ ServerNotes)'
  BY DEF NotesIInv
<1>1. PICK n0 \in synced..Len(wal) : wal' = FirstRecs(wal, n0)
  BY DEF PowerLoss
<1>2. /\ pc' = [p \in Proc |-> "closed"] /\ view' = [p \in Proc |-> EmptyMap]
      /\ base' = base /\ disorder' = disorder
  BY DEF PowerLoss, ghosts
<1>3. TidyState /\ InOrder
  BY <1>2 DEF NotesIInv
<1>4. wal \in Seq(Rec) /\ synced \in 0..Len(wal) /\ Len(wal) \in Nat
  BY FrameOffset DEF Offset
<1>5. n0 \in 0..Len(wal)
  BY <1>4
<1>6. Len(wal') = n0 /\ TidyLog(wal') /\ \A i \in 0..n0 : NoteWrites(wal', i) = NoteWrites(wal, i)
  BY <1>1, <1>3, <1>4, <1>5, PrefixNotes DEF TidyState
<1>7. TidyState'
  BY <1>2, <1>3, <1>6, EmptyNotes DEF TidyState
<1>8. InOrder'
  <2>1. ASSUME NEW n \in 0..Len(wal') PROVE Segment(Notes(base') \cup NoteWrites(wal', n))
    <3>1. n \in 0..n0 /\ n \in 0..Len(wal)
      BY <1>4, <1>5, <1>6
    <3>2. Notes(base') \cup NoteWrites(wal', n) = Stored(n)
      BY <1>2, <1>6, <3>1 DEF Stored
    <3>. QED BY <1>3, <3>1, <3>2 DEF InOrder
  <2>. QED BY <2>1, InOrderNext
<1>. QED BY <1>2, <1>7, <1>8 DEF ReplNotes, ServerNotes, Proc

\* Every action keeps the notes in order.
LEMMA NotesStep == FrameIInv /\ OwedIInv /\ NotesIInv /\ [Next]_vars => NotesIInv'
<1> SUFFICES ASSUME FrameIInv, OwedIInv, NotesIInv, [Next]_vars PROVE NotesIInv'
  OBVIOUS
<1>1. CASE UNCHANGED vars
  BY <1>1 DEF vars, store, sessions, offsets, ghosts, NotesIInv, TidyState, InOrder, ReplNotes, ServerNotes, Stored
<1>2. ASSUME NEW w \in ReplWrites, ReplSet(w[1], w[2]) PROVE NotesIInv'
  <2> DEFINE r == [key |-> w[1], val |-> w[2]]
  <2>1. r \in Rec
    BY DatabaseAssumption DEF Rec
  <2>2. ReplWrite(r)
    BY <1>2 DEF ReplSet
  <2> HIDE DEF r
  <2>. QED BY <2>1, <2>2, ReplWriteNotes
<1>3. ASSUME NEW k \in ReplKeys, ReplDelete(k) PROVE NotesIInv'
  <2> DEFINE r == [key |-> k, val |-> None]
  <2>1. r \in Rec
    BY DatabaseAssumption DEF Rec
  <2>2. ReplWrite(r)
    BY <1>3 DEF ReplDelete
  <2> HIDE DEF r
  <2>. QED BY <2>1, <2>2, ReplWriteNotes
<1>4. ASSUME Next PROVE NotesIInv'
  BY <1>2, <1>3, <1>4, OpenNotes, ClientsPost, RequestNotes, CloseNotes, CompactNotes, KillNotes, PowerNotes DEF Next
<1>. QED BY <1>1, <1>4

\* So they are in every reachable state.
LEMMA NotesAlways == Spec => [](FrameIInv /\ NotesIInv)
<1>1. NotesIInv /\ FrameIInv /\ OwedIInv /\ [Next]_vars => NotesIInv'
  BY NotesStep
<1>. QED BY <1>1, NotesInit, OwedAlways, PTL DEF Spec

\* Whatever a crash leaves of the log, its notes are the first so many of
\* NoteKey: no number is missing that a later one has.
THEOREM NotesStayInOrder == Spec => []NotesInOrder
<1>1. FrameIInv /\ NotesIInv => NotesInOrder
  <2> SUFFICES ASSUME FrameIInv, NotesIInv, ~disorder, NEW n \in synced..Len(wal)
               PROVE  LET notes == Notes(Replayed(base, FirstRecs(wal, n)))
                      IN notes = {NoteKey[i] : i \in 1..Cardinality(notes)}
    BY DEF NotesInOrder
  <2>1. wal \in Seq(Rec) /\ base \in Map /\ n \in 0..Len(wal)
    BY DEF FrameIInv, TypeOK
  <2>2. TidyState /\ InOrder
    BY DEF NotesIInv
  <2>3. FirstRecs(wal, n) \in Seq(Rec) /\ Len(FirstRecs(wal, n)) = n /\ TidyLog(FirstRecs(wal, n))
        /\ NoteWrites(FirstRecs(wal, n), n) = NoteWrites(wal, n)
    BY <2>1, <2>2, PrefixNotes DEF TidyState
  <2>4. Notes(Replayed(base, FirstRecs(wal, n))) = Stored(n)
    BY <2>1, <2>2, <2>3, ReplayedNotes DEF TidyState, Stored
  <2>5. PICK c \in 0..Len(NoteKey) : Stored(n) = FirstNotes(c)
    BY <2>1, <2>2 DEF InOrder, Segment
  <2>6. Cardinality(FirstNotes(c)) = c
    BY FirstNotesCount
  <2>. QED BY <2>4, <2>5, <2>6 DEF FirstNotes
<1>. QED BY <1>1, NotesAlways, PTL

\* The number database_add_note is about to use is free: in the table it has
\* counted in, and in the log as it stands.
THEOREM NextNumberIsFree == Spec => []NextNoteIsFree
<1>1. FrameIInv /\ NotesIInv => NextNoteIsFree
  <2> SUFFICES ASSUME FrameIInv, NotesIInv, pc["server"] = "ready", ~disorder, "server" \notin stale,
                      AtEnd("server"), NoteNumber(view["server"]) <= Len(NoteKey)
               PROVE  Replayed(base, wal)[NoteKey[NoteNumber(view["server"])]] = None
    BY DEF NextNoteIsFree
  <2>1. wal \in Seq(Rec) /\ base \in Map /\ Len(wal) \in 0..Len(wal)
    BY DEF FrameIInv, TypeOK
  <2>2. TidyState /\ InOrder /\ Notes(view["server"]) = Stored(Len(wal))
    BY DEF NotesIInv, ServerNotes, AtEnd
  <2>3. TidyMap(Replayed(base, wal)) /\ Notes(Replayed(base, wal)) = Stored(Len(wal))
    BY <2>1, <2>2, ReplayedNotes DEF TidyState, Stored
  <2>4. PICK c \in 0..Len(NoteKey) : Stored(Len(wal)) = FirstNotes(c)
    BY <2>1, <2>2 DEF InOrder, Segment
  <2>5. NoteNumber(view["server"]) = c + 1
    BY <2>2, <2>4, FirstNotesCount DEF NoteNumber
  <2>6. /\ NoteKey[c + 1] \in Key /\ IsNoteKey(NoteKey[c + 1]) /\ NoteKey[c + 1] \notin FirstNotes(c)
    BY <2>5, NextOfFirst
  <2>. QED BY <2>3, <2>4, <2>5, <2>6, NotesOfTidy
<1>. QED BY <1>1, NotesAlways, PTL
=============================================================================
