-------------------------- MODULE HashTableProofs --------------------------
(***************************************************************************)
(* Proofs about HashTable, for every hash function, every set of keys and  *)
(* values and every first capacity.                                        *)
(***************************************************************************)
EXTENDS HashTable, TLAPS, WellFoundedInduction, FiniteSetTheorems

(* Probes *)

\* A set of naturals has a least member: FirstOf finds it.
LEMMA FirstOfIsLeast ==
  ASSUME NEW S \in SUBSET Nat, S # {}
  PROVE  FirstOf(S) \in S /\ \A j \in S : FirstOf(S) <= j
<1>1. PICK i \in S : \A j \in S : <<j, i>> \notin OpToRel(<, Nat)
  BY NatLessThanWellFounded, WFMin
<1>2. \A j \in S : ~(j < i)
  BY <1>1 DEF OpToRel
<1>3. \A j \in S : i <= j
  BY <1>2
<1>. QED BY <1>3 DEF FirstOf

\* A probe stays inside the array.
LEMMA ProbeInRange ==
  ASSUME NEW k \in Key, NEW c \in Nat \ {0}, NEW d \in 0..(c - 1)
  PROVE  Probe(k, d, c) \in 0..(c - 1)
<1>1. Hash[k] \in Nat
  BY TableAssumption
<1>2. Hash[k] % c \in 0..(c - 1)
  BY <1>1
<1>. QED BY <1>2 DEF Probe

\* A probe does not look at a slot twice.
LEMMA ProbeOnce ==
  ASSUME NEW k \in Key, NEW c \in Nat \ {0}, NEW d \in 0..(c - 1), NEW e \in 0..(c - 1),
         Probe(k, d, c) = Probe(k, e, c)
  PROVE  d = e
<1>1. Hash[k] \in Nat
  BY TableAssumption
<1>2. Hash[k] % c \in 0..(c - 1)
  BY <1>1
<1>. QED BY <1>2 DEF Probe

\* A probe looks at every slot.
LEMMA ProbeAll ==
  ASSUME NEW k \in Key, NEW c \in Nat \ {0}, NEW i \in 0..(c - 1)
  PROVE  \E d \in 0..(c - 1) : Probe(k, d, c) = i
<1>1. Hash[k] \in Nat
  BY TableAssumption
<1>2. Hash[k] % c \in 0..(c - 1)
  BY <1>1
<1> DEFINE h == Hash[k] % c
<1>3. CASE h <= i
  <2>1. i - h \in 0..(c - 1)
    BY <1>2, <1>3
  <2>2. Probe(k, i - h, c) = i
    BY <1>2, <1>3 DEF Probe
  <2>. QED BY <2>1, <2>2
<1>4. CASE i < h
  <2>1. i - h + c \in 0..(c - 1)
    BY <1>2, <1>4
  <2>2. Probe(k, i - h + c, c) = i
    BY <1>2, <1>4 DEF Probe
  <2>. QED BY <2>1, <2>2
<1>. QED BY <1>2, <1>3, <1>4

-----------------------------------------------------------------------------
(* The inductive invariant *)

\* The live slots of an array from slot `from' on.
LiveIn(a, from) == {i \in DOMAIN a : i >= from /\ IsLive(a[i])}

\* No key is in an array twice.
Distinct(a) ==
  \A i, j \in DOMAIN a : IsLive(a[i]) /\ IsLive(a[j]) /\ a[i].key = a[j].key => i = j

\* The probe of a key meets no empty slot before the slot of the key.
OnPath ==
  \A k \in Key, d \in Offsets :
    IsLive(Slot(k, d)) /\ Slot(k, d).key = k => \A j \in 0..(d - 1) : Slot(k, j) # Empty

\* While the table grows: the new array has twice the slots and no tombstone,
\* what is moved and what is still to move have no key in common, and both
\* together are below the load of the old array.
Growth ==
  /\ \E c \in Nat \ {0} :
       /\ cap = 2 * c /\ old \in [0..(c - 1) -> Entry \cup {Empty, Tomb}] /\ cursor \in 0..c
       /\ (len + Cardinality(LiveIn(old, cursor))) * 10 < c * 7
  /\ \A i \in DOMAIN slots : slots[i] # Tomb
  /\ \A i \in DOMAIN slots, j \in LiveIn(old, cursor) :
       IsLive(slots[i]) => slots[i].key # old[j].key

\* Reachable and LenCountsLive need OnPath, which speaks of offsets, and what
\* holds half-way through a growth.
HashIInv ==
  /\ TypeOK
  /\ Distinct(slots) /\ Distinct(old) /\ OnPath
  /\ len = Cardinality(LiveIn(slots, 0)) /\ len * 10 < cap * 7
  /\ adding = None => old = <<>> /\ cursor = 0
  /\ adding # None => Growth

\* What TypeOK says of the slots of a probe.
LEMMA Slots ==
  ASSUME TypeOK, NEW k \in Key, NEW d \in Offsets
  PROVE  /\ cap \in Nat \ {0} /\ DOMAIN slots = 0..(cap - 1)
         /\ Probe(k, d, cap) \in DOMAIN slots
         /\ Slot(k, d) \in Entry \cup {Empty, Tomb}
         /\ IsLive(Slot(k, d)) <=> Slot(k, d) \in Entry
<1>1. cap \in Nat \ {0} /\ slots \in [0..(cap - 1) -> Entry \cup {Empty, Tomb}]
  BY DEF TypeOK
<1>2. Probe(k, d, cap) \in 0..(cap - 1)
  BY <1>1, ProbeInRange DEF Offsets
<1>. QED BY <1>1, <1>2, TableAssumption DEF Slot, IsLive

\* The live slots of an array are finitely many.
LEMMA LiveFinite ==
  ASSUME NEW c \in Nat, NEW S, NEW a \in [0..(c - 1) -> S], NEW from
  PROVE  IsFiniteSet(LiveIn(a, from)) /\ Cardinality(LiveIn(a, from)) \in Nat
         /\ Cardinality(LiveIn(a, from)) <= c
<1>1. IsFiniteSet(0..(c - 1)) /\ Cardinality(0..(c - 1)) = c
  BY FS_Interval
<1>2. LiveIn(a, from) \in SUBSET (0..(c - 1))
  BY DEF LiveIn
<1>. QED BY <1>1, <1>2, FS_Subset, FS_CardinalityType

\* A key with a live slot is found there; one without meets an empty slot or
\* has no stop at all.
LEMMA StopOfKey ==
  ASSUME HashIInv, NEW k \in Key, Stops(k) # {}
  PROVE  /\ FirstOf(Stops(k)) \in Offsets
         /\ \A j \in 0..(FirstOf(Stops(k)) - 1) : Slot(k, j) # Empty
         /\ \/ /\ Slot(k, FirstOf(Stops(k))) \in Entry
               /\ Slot(k, FirstOf(Stops(k))).key = k
            \/ /\ Slot(k, FirstOf(Stops(k))) = Empty
               /\ \A i \in DOMAIN slots : IsLive(slots[i]) => slots[i].key # k
<1> DEFINE f == FirstOf(Stops(k))
<1>1. cap \in Nat \ {0}
  BY DEF HashIInv, TypeOK
<1>2. Stops(k) \in SUBSET Nat
  BY <1>1 DEF Stops, Offsets
<1>3. f \in Stops(k) /\ \A j \in Stops(k) : f <= j
  BY <1>2, FirstOfIsLeast
<1> HIDE DEF f
<1>4. f \in Offsets /\ (Slot(k, f) = Empty \/ (IsLive(Slot(k, f)) /\ Slot(k, f).key = k))
  BY <1>3 DEF Stops
<1>5. \A j \in 0..(f - 1) : j \in Offsets /\ j \notin Stops(k)
  BY <1>1, <1>3, <1>4 DEF Offsets
<1>6. \A j \in 0..(f - 1) : Slot(k, j) # Empty
  BY <1>5 DEF Stops
<1>7. ASSUME Slot(k, f) = Empty, NEW i \in DOMAIN slots, IsLive(slots[i]), slots[i].key = k
      PROVE  FALSE
  <2>1. i \in 0..(cap - 1)
    BY <1>7 DEF HashIInv, TypeOK
  <2>2. PICK d \in 0..(cap - 1) : Probe(k, d, cap) = i
    BY <1>1, <2>1, ProbeAll
  <2>3. d \in Offsets /\ Slot(k, d) = slots[i]
    BY <2>2 DEF Offsets, Slot
  <2>4. d \in Stops(k)
    BY <1>7, <2>3 DEF Stops
  <2>5. f # d
    BY <1>7, <2>3 DEF IsLive
  <2>6. f \in 0..(d - 1)
    BY <1>1, <1>3, <1>4, <2>3, <2>4, <2>5 DEF Offsets
  <2>. QED BY <1>7, <2>3, <2>6 DEF HashIInv, OnPath
<1>8. TypeOK
  BY DEF HashIInv
<1>9. IsLive(Slot(k, f)) => Slot(k, f) \in Entry
  BY <1>4, <1>8, Slots
<1>. QED BY <1>4, <1>6, <1>7, <1>9 DEF f
-----------------------------------------------------------------------------
(* Putting an entry into its slot *)

\* What ht_set's own probe and the loop of ht_resize do alike: the entry goes
\* where its probe meets its key, or else, its key being nowhere, to a slot
\* that is not live, with no empty slot before either.
Puts(e) ==
  \E i \in Offsets :
    /\ slots' = [slots EXCEPT ![Probe(e.key, i, cap)] = e]
    /\ \A j \in 0..(i - 1) : Slot(e.key, j) # Empty
    /\ \/ Slot(e.key, i) \in Entry /\ Slot(e.key, i).key = e.key /\ len' = len
       \/ /\ ~IsLive(Slot(e.key, i)) /\ len' = len + 1
          /\ \A n \in DOMAIN slots : IsLive(slots[n]) => slots[n].key # e.key

\* Place does that when its probe has an end.
LEMMA PlacePuts ==
  ASSUME HashIInv, NEW e \in Entry, Place(e), Stops(e.key) # {}
  PROVE  Puts(e) /\ UNCHANGED looping
<1> DEFINE k == e.key
           stop == FirstOf(Stops(k))
           tombs == {i \in Offsets : i < stop /\ Slot(k, i) = Tomb}
           i == IF Slot(k, stop) = Empty /\ tombs # {} THEN FirstOf(tombs) ELSE stop
<1>1. k \in Key /\ cap \in Nat \ {0}
  BY DEF Entry, HashIInv, TypeOK
<1>2. /\ slots' = [slots EXCEPT ![Probe(k, i, cap)] = e]
      /\ len' = IF Slot(k, stop) = Empty THEN len + 1 ELSE len
      /\ UNCHANGED looping
  BY DEF Place
<1>3. /\ stop \in Offsets
      /\ \A j \in 0..(stop - 1) : Slot(k, j) # Empty
      /\ \/ Slot(k, stop) \in Entry /\ Slot(k, stop).key = k
         \/ /\ Slot(k, stop) = Empty
            /\ \A n \in DOMAIN slots : IsLive(slots[n]) => slots[n].key # k
  BY <1>1, StopOfKey
<1>4. tombs \in SUBSET Nat
  BY <1>1 DEF Offsets
<1>5. tombs # {} => FirstOf(tombs) \in tombs
  BY <1>4, FirstOfIsLeast
<1> HIDE DEF stop
<1>6. CASE Slot(k, stop) = Empty /\ tombs # {}
  <2>1. i \in Offsets /\ i < stop /\ Slot(k, i) = Tomb
    BY <1>5, <1>6
  <2>2. \A j \in 0..(i - 1) : j \in 0..(stop - 1)
    BY <1>1, <1>3, <2>1 DEF Offsets
  <2>3. ~IsLive(Slot(k, i))
    BY <2>1 DEF IsLive
  <2>4. \A n \in DOMAIN slots : IsLive(slots[n]) => slots[n].key # k
    BY <1>3, <1>6, TableAssumption
  <2>. QED BY <1>2, <1>3, <1>6, <2>1, <2>2, <2>3, <2>4 DEF Puts
<1>7. CASE ~(Slot(k, stop) = Empty /\ tombs # {})
  <2>1. i = stop
    BY <1>7
  <2>2. CASE Slot(k, stop) = Empty
    <3>1. \A n \in DOMAIN slots : IsLive(slots[n]) => slots[n].key # k
      BY <1>3, <2>2, TableAssumption
    <3>. QED BY <1>2, <1>3, <2>1, <2>2, <3>1 DEF Puts, IsLive
  <2>3. CASE Slot(k, stop) # Empty
    BY <1>2, <1>3, <2>1, <2>3 DEF Puts
  <2>. QED BY <2>2, <2>3
<1>. QED BY <1>2, <1>6, <1>7

\* The array stays what the invariant says of it, and holds the entry instead
\* of what it held under its key.
LEMMA PutKeeps ==
  ASSUME HashIInv, NEW e \in Entry, Puts(e), cap' = cap
  PROVE  /\ slots' \in [0..(cap - 1) -> Entry \cup {Empty, Tomb}]
         /\ Distinct(slots') /\ OnPath'
         /\ len' = Cardinality(LiveIn(slots', 0)) /\ len' \in {len, len + 1} /\ len' \in Nat
         /\ \A n \in DOMAIN slots : slots[n] # Tomb => slots'[n] # Tomb
         /\ \A f : f \in Entries(slots', 0) <=>
                     f = e \/ (f \in Entries(slots, 0) /\ f.key # e.key)
<1> DEFINE k == e.key
<1>1. /\ k \in Key /\ cap \in Nat \ {0} /\ TypeOK /\ IsLive(e) /\ len \in Nat
      /\ slots \in [0..(cap - 1) -> Entry \cup {Empty, Tomb}] /\ DOMAIN slots = 0..(cap - 1)
      /\ \A n \in DOMAIN slots : IsLive(slots[n]) => slots[n] \in Entry
  BY TableAssumption DEF Entry, HashIInv, TypeOK, IsLive
<1>2. PICK i \in Offsets :
        /\ slots' = [slots EXCEPT ![Probe(k, i, cap)] = e]
        /\ \A j \in 0..(i - 1) : Slot(k, j) # Empty
        /\ \/ Slot(k, i) \in Entry /\ Slot(k, i).key = k /\ len' = len
           \/ /\ ~IsLive(Slot(k, i)) /\ len' = len + 1
              /\ \A n \in DOMAIN slots : IsLive(slots[n]) => slots[n].key # k
  BY DEF Puts
<1> DEFINE p == Probe(k, i, cap)
<1>3. p \in DOMAIN slots
  BY <1>1, Slots
<1>4. /\ slots' \in [0..(cap - 1) -> Entry \cup {Empty, Tomb}] /\ DOMAIN slots' = DOMAIN slots
      /\ slots'[p] = e /\ \A n \in DOMAIN slots : n # p => slots'[n] = slots[n]
  BY <1>1, <1>2, <1>3
<1> HIDE DEF p
<1>5. \/ slots[p] \in Entry /\ IsLive(slots[p]) /\ slots[p].key = k /\ len' = len
      \/ /\ ~IsLive(slots[p]) /\ len' = len + 1
         /\ \A n \in DOMAIN slots : IsLive(slots[n]) => slots[n].key # k
  BY <1>2, TableAssumption DEF Slot, IsLive, p
<1>6. \A n \in DOMAIN slots : n # p /\ IsLive(slots[n]) => slots[n].key # k
  BY <1>3, <1>5 DEF HashIInv, Distinct
<1>7. Distinct(slots')
  <2> SUFFICES ASSUME NEW m \in DOMAIN slots, NEW n \in DOMAIN slots,
                      IsLive(slots'[m]), IsLive(slots'[n]), slots'[m].key = slots'[n].key
               PROVE  m = n
    BY <1>4 DEF Distinct
  <2>. QED BY <1>4, <1>6 DEF HashIInv, Distinct
<1>8. OnPath'
  <2> SUFFICES ASSUME NEW q \in Key, NEW d \in 0..(cap - 1),
                      IsLive(slots'[Probe(q, d, cap)]), slots'[Probe(q, d, cap)].key = q,
                      NEW j \in 0..(d - 1)
               PROVE  slots'[Probe(q, j, cap)] # Empty
    BY DEF OnPath, Slot, Offsets
  <2>1. /\ d \in Offsets /\ j \in Offsets /\ j \in 0..(cap - 1)
        /\ Probe(q, d, cap) \in DOMAIN slots /\ Probe(q, j, cap) \in DOMAIN slots
    <3>1. d \in Offsets /\ j \in Offsets /\ j \in 0..(cap - 1)
      BY <1>1 DEF Offsets
    <3>. QED BY <1>1, <3>1, Slots
  <2>2. slots[Probe(q, j, cap)] # Empty => slots'[Probe(q, j, cap)] # Empty
    BY <1>1, <1>4, <2>1 DEF IsLive
  <2>3. CASE Probe(q, d, cap) = p
    <3>1. q = k
      BY <1>4, <2>3
    <3>2. d = i
      BY <1>1, <2>1, <2>3, <3>1, ProbeOnce DEF p, Offsets
    <3>. QED BY <1>2, <2>2, <3>1, <3>2 DEF Slot
  <2>4. CASE Probe(q, d, cap) # p
    <3>1. slots'[Probe(q, d, cap)] = slots[Probe(q, d, cap)]
      BY <1>4, <2>1, <2>4
    <3>2. Slot(q, j) # Empty
      BY <2>1, <3>1 DEF HashIInv, OnPath, Slot
    <3>. QED BY <2>2, <3>2 DEF Slot
  <2>. QED BY <2>3, <2>4
<1>9. len' = Cardinality(LiveIn(slots', 0)) /\ len' \in {len, len + 1} /\ len' \in Nat
  <2>1. LiveIn(slots', 0) = LiveIn(slots, 0) \cup {p}
    BY <1>1, <1>3, <1>4 DEF LiveIn
  <2>2. p \in LiveIn(slots, 0) <=> IsLive(slots[p])
    BY <1>1, <1>3 DEF LiveIn
  <2>3. IsFiniteSet(LiveIn(slots, 0))
    BY <1>1, LiveFinite
  <2>4. Cardinality(LiveIn(slots', 0)) = IF IsLive(slots[p]) THEN len ELSE len + 1
    BY <2>1, <2>2, <2>3, FS_AddElement DEF HashIInv
  <2>. QED BY <1>1, <1>5, <2>4
<1>10. \A n \in DOMAIN slots : slots[n] # Tomb => slots'[n] # Tomb
  BY <1>1, <1>4 DEF IsLive
<1>11. ASSUME NEW f
       PROVE  f \in Entries(slots', 0) <=> f = e \/ (f \in Entries(slots, 0) /\ f.key # e.key)
  <2>1. ASSUME NEW a
        PROVE  a = slots \/ a = slots' =>
                 (f \in Entries(a, 0) <=> \E n \in DOMAIN slots : IsLive(a[n]) /\ a[n] = f)
    BY <1>1, <1>4 DEF Entries
  <2>. QED BY <1>1, <1>3, <1>4, <1>5, <1>6, <2>1
<1>. QED BY <1>4, <1>7, <1>8, <1>9, <1>10, <1>11

-----------------------------------------------------------------------------
(* Every step *)

\* An array of no slots.
LEMMA NoSlots ==
  ASSUME NEW S
  PROVE  <<>> \in [0..(0 - 1) -> S] /\ LiveIn(<<>>, 0) = {} /\ Distinct(<<>>)
<1>1. DOMAIN <<>> = {}
  OBVIOUS
<1>2. 0..(0 - 1) = {}
  OBVIOUS
<1>. QED BY <1>1, <1>2 DEF LiveIn, Distinct

\* The table as ht_init leaves it.
LEMMA InitHash == Init => HashIInv
<1> SUFFICES ASSUME Init PROVE HashIInv
  OBVIOUS
<1>1. cap \in Nat \ {0} /\ DOMAIN slots = 0..(cap - 1) /\ \A i \in DOMAIN slots : slots[i] = Empty
  BY TableAssumption DEF Init
<1>2. TypeOK
  BY <1>1, NoSlots DEF Init, TypeOK
<1>3. \A i \in DOMAIN slots : ~IsLive(slots[i])
  BY <1>1 DEF IsLive
<1>4. LiveIn(slots, 0) = {}
  BY <1>3 DEF LiveIn
<1>5. OnPath
  <2> SUFFICES ASSUME NEW k \in Key, NEW d \in Offsets PROVE ~IsLive(Slot(k, d))
    BY DEF OnPath
  <2>. QED BY <1>2, <1>3, Slots DEF Slot
<1>. QED BY <1>1, <1>2, <1>3, <1>4, <1>5, NoSlots, FS_EmptySet DEF HashIInv, Distinct, Init

\* ht_set below the load factor.
LEMMA SetStep ==
  ASSUME HashIInv, NEW k \in Key, NEW v \in Val, HtSet(k, v)
  PROVE  HashIInv'
<1> DEFINE e == [key |-> k, val |-> v]
<1>1. e \in Entry /\ e.key = k /\ Place(e) /\ (len + 1) * 10 < cap * 7
      /\ UNCHANGED <<cap, old, cursor, adding>> /\ adding = None
  BY DEF Entry, HtSet, Idle, MustGrow, HashIInv, TypeOK
<1> HIDE DEF e
<1>2. CASE Stops(k) = {}
  <2>1. looping' = TRUE /\ UNCHANGED <<slots, len>>
    BY <1>1, <1>2 DEF Place
  <2>. QED BY <1>1, <2>1 DEF HashIInv, TypeOK, Distinct, OnPath, Offsets, Slot, LiveIn, Growth
<1>3. CASE Stops(k) # {}
  <2>1. Puts(e) /\ UNCHANGED looping
    BY <1>1, <1>3, PlacePuts
  <2>2. /\ slots' \in [0..(cap - 1) -> Entry \cup {Empty, Tomb}]
        /\ Distinct(slots') /\ OnPath'
        /\ len' = Cardinality(LiveIn(slots', 0)) /\ len' \in {len, len + 1} /\ len' \in Nat
    BY <1>1, <2>1, PutKeeps
  <2>3. cap \in Nat /\ len \in Nat
    BY DEF HashIInv, TypeOK
  <2>4. len' * 10 < cap' * 7
    BY <1>1, <2>2, <2>3
  <2>. QED BY <1>1, <2>1, <2>2, <2>4 DEF HashIInv, TypeOK, Distinct, LiveIn
<1>. QED BY <1>2, <1>3

\* ht_del: a tombstone keeps every probe going.
LEMMA DelStep ==
  ASSUME HashIInv, NEW k \in Key, HtDel(k)
  PROVE  HashIInv'
<1>1. UNCHANGED <<cap, old, cursor, adding>> /\ adding = None /\ TypeOK
  BY DEF HtDel, Idle, HashIInv
<1>2. CASE UNCHANGED <<slots, len>>
  <2>1. looping' \in BOOLEAN
    BY <1>1 DEF HtDel, TypeOK
  <2>. QED BY <1>1, <1>2, <2>1 DEF HashIInv, TypeOK, Distinct, OnPath, Offsets, Slot, LiveIn, Growth
<1>3. CASE ~UNCHANGED <<slots, len>>
  <2> DEFINE p == Probe(k, FirstOf(Stops(k)), cap)
  <2>1. /\ Stops(k) # {} /\ Slot(k, FirstOf(Stops(k))) # Empty
        /\ slots' = [slots EXCEPT ![p] = Tomb] /\ len' = len - 1 /\ UNCHANGED looping
    BY <1>3 DEF HtDel
  <2>2. FirstOf(Stops(k)) \in Offsets /\ Slot(k, FirstOf(Stops(k))) \in Entry
    BY <2>1, StopOfKey
  <2>3. p \in DOMAIN slots /\ slots[p] \in Entry /\ IsLive(slots[p])
    BY <1>1, <2>2, Slots DEF Slot
  <2> HIDE DEF p
  <2>4. /\ cap \in Nat \ {0} /\ len \in Nat
        /\ slots \in [0..(cap - 1) -> Entry \cup {Empty, Tomb}] /\ DOMAIN slots = 0..(cap - 1)
    BY <1>1 DEF TypeOK
  <2>5. /\ slots' \in [0..(cap - 1) -> Entry \cup {Empty, Tomb}] /\ DOMAIN slots' = DOMAIN slots
        /\ slots'[p] = Tomb /\ \A n \in DOMAIN slots : n # p => slots'[n] = slots[n]
    BY <2>1, <2>3, <2>4
  <2>6. Distinct(slots')
    BY <2>5 DEF HashIInv, Distinct, IsLive
  <2>7. OnPath'
    <3> SUFFICES ASSUME NEW q \in Key, NEW d \in 0..(cap - 1),
                        IsLive(slots'[Probe(q, d, cap)]), slots'[Probe(q, d, cap)].key = q,
                        NEW j \in 0..(d - 1)
                 PROVE  slots'[Probe(q, j, cap)] # Empty
      BY <1>1 DEF OnPath, Slot, Offsets
    <3>1. d \in Offsets /\ j \in Offsets
      BY <2>4 DEF Offsets
    <3>2. Probe(q, d, cap) \in DOMAIN slots /\ Probe(q, j, cap) \in DOMAIN slots
      BY <1>1, <3>1, Slots
    <3>3. slots'[Probe(q, d, cap)] = slots[Probe(q, d, cap)]
      BY <2>5, <3>2 DEF IsLive
    <3>4. Slot(q, j) # Empty
      BY <3>1, <3>3 DEF HashIInv, OnPath, Slot
    <3>. QED BY <2>5, <3>2, <3>4, TableAssumption DEF Slot
  <2>8. len' = Cardinality(LiveIn(slots', 0)) /\ len' \in Nat
    <3>1. LiveIn(slots', 0) = LiveIn(slots, 0) \ {p} /\ p \in LiveIn(slots, 0)
      BY <2>3, <2>4, <2>5 DEF LiveIn, IsLive
    <3>2. IsFiniteSet(LiveIn(slots, 0))
      BY <2>4, LiveFinite
    <3>3. Cardinality(LiveIn(slots', 0)) = len - 1
      BY <3>1, <3>2, FS_RemoveElement DEF HashIInv
    <3>4. IsFiniteSet(LiveIn(slots', 0))
      BY <3>1, <3>2, FS_RemoveElement
    <3>. QED BY <2>1, <3>3, <3>4, FS_CardinalityType
  <2>9. len' * 10 < cap' * 7
    BY <1>1, <2>1, <2>4 DEF HashIInv
  <2>. QED BY <1>1, <2>1, <2>5, <2>6, <2>7, <2>8, <2>9 DEF HashIInv, TypeOK, Distinct, LiveIn
<1>. QED BY <1>2, <1>3

\* ht_resize allocates: the new array is empty, the old one is all to move.
LEMMA GrowStep ==
  ASSUME HashIInv, NEW k \in Key, NEW v \in Val, Grow(k, v)
  PROVE  HashIInv'
<1>1. /\ old' = slots /\ cursor' = 0 /\ cap' = 2 * cap /\ len' = 0 /\ UNCHANGED looping
      /\ slots' = [i \in 0..(2 * cap - 1) |-> Empty] /\ adding' \in Entry
  BY DEF Grow, Entry
<1>2. cap \in Nat \ {0} /\ slots \in [0..(cap - 1) -> Entry \cup {Empty, Tomb}]
  BY DEF HashIInv, TypeOK
<1>3. \A i \in DOMAIN slots' : slots'[i] = Empty /\ slots'[i] # Tomb /\ ~IsLive(slots'[i])
  BY <1>1, TableAssumption DEF IsLive
<1>4. cap' \in Nat \ {0} /\ cap' \div 2 = cap
  BY <1>1, <1>2
<1>5. slots' \in [0..(cap' - 1) -> Entry \cup {Empty, Tomb}] /\ DOMAIN slots' = 0..(cap' - 1)
  BY <1>1
<1>6. TypeOK'
  BY <1>1, <1>2, <1>4, <1>5 DEF HashIInv, TypeOK
<1>7. LiveIn(slots', 0) = {}
  BY <1>3 DEF LiveIn
<1>8. Distinct(slots') /\ Distinct(old')
  BY <1>1, <1>3 DEF Distinct, HashIInv
<1>9. OnPath'
  <2> SUFFICES ASSUME NEW q \in Key, NEW d \in 0..(cap' - 1)
               PROVE  ~IsLive(slots'[Probe(q, d, cap')])
    BY DEF OnPath, Offsets, Slot
  <2>. QED BY <1>3, <1>4, <1>5, ProbeInRange
<1>10. len' = Cardinality(LiveIn(slots', 0)) /\ len' * 10 < cap' * 7
  <2>1. Cardinality(LiveIn(slots', 0)) = 0
    BY <1>7, FS_EmptySet
  <2>2. 0 < (2 * cap) * 7
    BY <1>2
  <2>. QED BY <1>1, <2>1, <2>2
<1>11. Growth'
  <2>1. (len' + Cardinality(LiveIn(old', cursor'))) * 10 < cap * 7
    BY <1>1 DEF HashIInv, TypeOK
  <2>. QED BY <1>1, <1>2, <1>3, <2>1 DEF Growth
<1>. QED BY <1>1, <1>6, <1>8, <1>9, <1>10, <1>11, TableAssumption DEF HashIInv, LiveIn, Distinct

\* While the table grows there is room in the new array.
LEMMA MoveIsPut ==
  ASSUME HashIInv, MoveEntry, IsLive(old[cursor])
  PROVE  /\ old[cursor] \in Entry /\ cursor \in LiveIn(old, cursor)
         /\ Puts(old[cursor]) /\ len' = len + 1
<1> DEFINE e == old[cursor]
           room == {i \in Offsets : ~IsLive(Slot(e.key, i))}
           i == FirstOf(room)
<1>1. /\ slots' = [slots EXCEPT ![Probe(e.key, i, cap)] = e] /\ len' = len + 1
      /\ cursor \in DOMAIN old /\ adding # None
  BY DEF MoveEntry
<1>2. PICK c \in Nat \ {0} :
        /\ cap = 2 * c /\ old \in [0..(c - 1) -> Entry \cup {Empty, Tomb}] /\ cursor \in 0..c
        /\ (len + Cardinality(LiveIn(old, cursor))) * 10 < c * 7
  BY <1>1 DEF HashIInv, Growth
<1>3. /\ TypeOK /\ cap \in Nat \ {0} /\ len \in Nat /\ DOMAIN slots = 0..(cap - 1)
      /\ slots \in [0..(cap - 1) -> Entry \cup {Empty, Tomb}]
  BY DEF HashIInv, TypeOK
<1>4. e \in Entry /\ e.key \in Key /\ cursor \in LiveIn(old, cursor)
  BY <1>1, <1>2 DEF IsLive, Entry, LiveIn
<1>5. \E n \in DOMAIN slots : ~IsLive(slots[n])
  <2> SUFFICES ASSUME \A n \in DOMAIN slots : IsLive(slots[n]) PROVE FALSE
    OBVIOUS
  <2>1. LiveIn(slots, 0) = 0..(cap - 1)
    BY <1>3 DEF LiveIn
  <2>2. len = cap
    BY <1>3, <2>1, FS_Interval DEF HashIInv
  <2>3. IsFiniteSet(LiveIn(old, cursor)) /\ Cardinality(LiveIn(old, cursor)) \in Nat
    BY <1>2, LiveFinite
  <2>4. Cardinality(LiveIn(old, cursor)) # 0
    BY <1>4, <2>3, FS_EmptySet
  <2>. QED BY <1>2, <1>3, <2>2, <2>3, <2>4
<1> HIDE DEF e
<1>6. PICK d \in Offsets : ~IsLive(Slot(e.key, d))
  <2>1. PICK n \in 0..(cap - 1) : ~IsLive(slots[n])
    BY <1>3, <1>5
  <2>2. \E d \in 0..(cap - 1) : Probe(e.key, d, cap) = n
    BY <1>3, <1>4, ProbeAll
  <2>. QED BY <2>1, <2>2 DEF Slot, Offsets
<1>7. room \in SUBSET Nat /\ room # {}
  BY <1>3, <1>6 DEF Offsets
<1>8. i \in room /\ \A j \in room : i <= j
  BY <1>7, FirstOfIsLeast
<1> HIDE DEF i
<1>9. \A j \in 0..(i - 1) : j \in Offsets /\ j \notin room
  BY <1>3, <1>8 DEF Offsets
<1>10. \A j \in 0..(i - 1) : Slot(e.key, j) # Empty
  BY <1>9 DEF IsLive
<1>11. \A n \in DOMAIN slots : IsLive(slots[n]) => slots[n].key # e.key
  BY <1>1, <1>4 DEF HashIInv, Growth, e
<1>12. Puts(e)
  BY <1>1, <1>8, <1>10, <1>11 DEF Puts
<1>. QED BY <1>1, <1>4, <1>12 DEF e

\* One round of the loop of ht_resize.
LEMMA MoveStep ==
  ASSUME HashIInv, MoveEntry
  PROVE  HashIInv'
<1>1. /\ UNCHANGED <<cap, old, adding, looping>> /\ cursor' = cursor + 1
      /\ cursor \in DOMAIN old /\ adding # None
  BY DEF MoveEntry
<1>2. PICK c \in Nat \ {0} :
        /\ cap = 2 * c /\ old \in [0..(c - 1) -> Entry \cup {Empty, Tomb}] /\ cursor \in 0..c
        /\ (len + Cardinality(LiveIn(old, cursor))) * 10 < c * 7
  BY <1>1 DEF HashIInv, Growth
<1>3. /\ TypeOK /\ cap \in Nat \ {0} /\ len \in Nat /\ DOMAIN slots = 0..(cap - 1)
      /\ slots \in [0..(cap - 1) -> Entry \cup {Empty, Tomb}]
      /\ \A n \in DOMAIN slots : slots[n] # Tomb
  BY <1>1 DEF HashIInv, TypeOK, Growth
<1>4. cursor' \in 0..c /\ DOMAIN old = 0..(c - 1) /\ cursor \in Nat
  BY <1>1, <1>2
<1>5. CASE ~IsLive(old[cursor])
  <2>1. UNCHANGED <<slots, len>>
    BY <1>5 DEF MoveEntry
  <2>2. LiveIn(old, cursor') = LiveIn(old, cursor)
    BY <1>1, <1>4, <1>5 DEF LiveIn
  <2>3. TypeOK' /\ OnPath'
    BY <1>1, <1>3, <1>4, <2>1 DEF HashIInv, TypeOK, OnPath, Offsets, Slot
  <2>4. Growth'
    BY <1>1, <1>2, <1>4, <2>1, <2>2 DEF HashIInv, Growth
  <2>. QED BY <1>1, <2>1, <2>3, <2>4 DEF HashIInv, LiveIn, Distinct
<1>6. CASE IsLive(old[cursor])
  <2> DEFINE e == old[cursor]
  <2>1. e \in Entry /\ cursor \in LiveIn(old, cursor) /\ Puts(e) /\ len' = len + 1
    BY <1>6, MoveIsPut
  <2>2. /\ slots' \in [0..(cap - 1) -> Entry \cup {Empty, Tomb}]
        /\ Distinct(slots') /\ OnPath' /\ len' = Cardinality(LiveIn(slots', 0))
        /\ \A n \in DOMAIN slots : slots[n] # Tomb => slots'[n] # Tomb
        /\ \A f : f \in Entries(slots', 0) <=> f = e \/ (f \in Entries(slots, 0) /\ f.key # e.key)
    BY <1>1, <2>1, PutKeeps
  <2>3. DOMAIN slots' = 0..(cap - 1)
    BY <2>2
  <2>4. TypeOK'
    BY <1>1, <1>3, <1>4, <2>1, <2>2 DEF HashIInv, TypeOK
  <2>5. LiveIn(old, cursor') = LiveIn(old, cursor) \ {cursor}
    BY <1>1, <1>4 DEF LiveIn
  <2>6. IsFiniteSet(LiveIn(old, cursor)) /\ Cardinality(LiveIn(old, cursor)) \in Nat
    BY <1>2, LiveFinite
  <2>7. Cardinality(LiveIn(old, cursor')) = Cardinality(LiveIn(old, cursor)) - 1
    BY <2>1, <2>5, <2>6, FS_RemoveElement
  <2>8. (len' + Cardinality(LiveIn(old, cursor'))) * 10 < c * 7
    BY <1>2, <1>3, <2>1, <2>6, <2>7
  <2>9. len' * 10 < cap' * 7
    <3>1. IsFiniteSet(LiveIn(old, cursor')) /\ Cardinality(LiveIn(old, cursor')) \in Nat
      BY <1>2, LiveFinite
    <3>. QED BY <1>1, <1>2, <1>3, <2>1, <2>8, <3>1
  <2>10. ASSUME NEW i \in DOMAIN slots', NEW j \in LiveIn(old, cursor'), IsLive(slots'[i])
         PROVE  slots'[i].key # old[j].key
    <3>1. j \in DOMAIN old /\ IsLive(old[j]) /\ j # cursor /\ j \in LiveIn(old, cursor)
      BY <2>5, <2>10 DEF LiveIn
    <3>2. e.key # old[j].key
      BY <1>1, <1>6, <3>1 DEF HashIInv, Distinct
    <3>3. slots'[i] \in Entries(slots', 0)
      BY <2>3, <2>10 DEF Entries
    <3>4. slots'[i] = e \/ \E n \in DOMAIN slots : IsLive(slots[n]) /\ slots[n] = slots'[i]
      BY <2>2, <3>3 DEF Entries
    <3>. QED BY <1>1, <3>1, <3>2, <3>4 DEF HashIInv, Growth
  <2>11. Growth'
    BY <1>1, <1>2, <1>3, <1>4, <2>2, <2>3, <2>8, <2>10 DEF Growth
  <2>. QED BY <1>1, <2>2, <2>4, <2>9, <2>11 DEF HashIInv, LiveIn, Distinct
<1>. QED BY <1>5, <1>6

\* Nothing is left to move when the cursor is past the old array.
LEMMA AllMoved ==
  ASSUME HashIInv, Grown
  PROVE  LiveIn(old, cursor) = {} /\ (len + 1) * 10 < cap * 7
<1>1. adding # None /\ cursor \notin DOMAIN old
  BY DEF Grown
<1>2. PICK c \in Nat \ {0} :
        /\ cap = 2 * c /\ old \in [0..(c - 1) -> Entry \cup {Empty, Tomb}] /\ cursor \in 0..c
        /\ (len + Cardinality(LiveIn(old, cursor))) * 10 < c * 7
  BY <1>1 DEF HashIInv, Growth
<1>3. cursor = c /\ DOMAIN old = 0..(c - 1)
  BY <1>1, <1>2
<1>4. LiveIn(old, cursor) = {}
  BY <1>3 DEF LiveIn
<1>5. Cardinality(LiveIn(old, cursor)) = 0 /\ len \in Nat
  BY <1>4, FS_EmptySet DEF HashIInv, TypeOK
<1>6. len * 10 < c * 7 /\ cap = 2 * c /\ c \in Nat \ {0}
  BY <1>2, <1>5
<1>7. (len + 1) * 10 < cap * 7
  BY <1>5, <1>6
<1>. QED BY <1>4, <1>7

\* ht_set goes on after ht_resize.
LEMMA GrownStep ==
  ASSUME HashIInv, Grown
  PROVE  HashIInv'
<1>1. /\ adding \in Entry /\ Place(adding) /\ adding' = None /\ old' = <<>> /\ cursor' = 0
      /\ UNCHANGED cap
  BY DEF Grown, HashIInv, TypeOK
<1>2. (len + 1) * 10 < cap * 7 /\ len \in Nat /\ cap \in Nat \ {0}
  BY AllMoved DEF HashIInv, TypeOK
<1>3. \E c \in {0, cap' \div 2} : old' \in [0..(c - 1) -> Entry \cup {Empty, Tomb}]
  BY <1>1, NoSlots
<1>4. CASE Stops(adding.key) = {}
  <2>1. looping' = TRUE /\ UNCHANGED <<slots, len>>
    BY <1>1, <1>4 DEF Place
  <2>2. TypeOK'
    BY <1>1, <1>3, <2>1 DEF HashIInv, TypeOK
  <2>. QED BY <1>1, <2>1, <2>2, NoSlots DEF HashIInv, Distinct, OnPath, Offsets, Slot, LiveIn
<1>5. CASE Stops(adding.key) # {}
  <2>1. Puts(adding) /\ UNCHANGED looping
    BY <1>1, <1>5, PlacePuts
  <2>2. /\ slots' \in [0..(cap - 1) -> Entry \cup {Empty, Tomb}]
        /\ Distinct(slots') /\ OnPath'
        /\ len' = Cardinality(LiveIn(slots', 0)) /\ len' \in {len, len + 1} /\ len' \in Nat
    BY <1>1, <2>1, PutKeeps
  <2>3. TypeOK'
    BY <1>1, <1>3, <2>1, <2>2 DEF HashIInv, TypeOK
  <2>4. len' * 10 < cap' * 7
    BY <1>1, <1>2, <2>2
  <2>. QED BY <1>1, <2>2, <2>3, <2>4, NoSlots DEF HashIInv
<1>. QED BY <1>4, <1>5

\* Nothing of the table changes.
LEMMA SameTable ==
  ASSUME HashIInv, UNCHANGED <<cap, slots, len, old, cursor, adding>>, looping' \in BOOLEAN
  PROVE  HashIInv'
<1>1. TypeOK' /\ Distinct(slots)' /\ Distinct(old)'
  BY DEF HashIInv, TypeOK, Distinct
<1>2. OnPath'
  BY DEF HashIInv, OnPath, Offsets, Slot
<1>3. adding # None => Growth'
  BY DEF HashIInv, Growth, LiveIn
<1>. QED BY <1>1, <1>2, <1>3 DEF HashIInv, LiveIn

\* Every action keeps the invariant.
LEMMA HashStep == HashIInv /\ [Next]_vars => HashIInv'
<1> SUFFICES ASSUME HashIInv, [Next]_vars PROVE HashIInv'
  OBVIOUS
<1>1. ASSUME NEW k \in Key, HtGet(k) PROVE HashIInv'
  BY <1>1, SameTable DEF HtGet
<1>2. CASE UNCHANGED vars
  BY <1>2, SameTable DEF vars, HashIInv, TypeOK
<1>. QED BY <1>1, <1>2, SetStep, DelStep, GrowStep, MoveStep, GrownStep DEF Next

\* The invariant holds in every state.
LEMMA HashAlways == Spec => []HashIInv
<1>. QED BY InitHash, HashStep, PTL DEF Spec

-----------------------------------------------------------------------------
(* Theorems about every state *)

\* Array, array moved from and counters keep their types.
THEOREM TypeCorrect == Spec => []TypeOK
<1>1. HashIInv => TypeOK
  BY DEF HashIInv
<1>. QED BY <1>1, HashAlways, PTL

\* Whatever ht_set, ht_del and ht_resize did before, a live entry is met by
\* the probe for its key before an empty slot, and no other entry has the key.
THEOREM EntriesReachable == Spec => []Reachable
<1>1. ASSUME HashIInv PROVE Reachable
  <2> SUFFICES ASSUME NEW i \in DOMAIN slots, IsLive(slots[i])
               PROVE  /\ Probe(slots[i].key, FirstOf(Stops(slots[i].key)), cap) = i
                      /\ \A j \in DOMAIN slots :
                           IsLive(slots[j]) /\ slots[j].key = slots[i].key => j = i
    BY DEF Reachable
  <2> DEFINE k == slots[i].key
             f == FirstOf(Stops(k))
  <2>1. TypeOK /\ Distinct(slots)
    BY <1>1 DEF HashIInv
  <2>2. cap \in Nat \ {0} /\ i \in 0..(cap - 1) /\ k \in Key
    BY <2>1 DEF TypeOK, IsLive, Entry
  <2>3. PICK d \in 0..(cap - 1) : Probe(k, d, cap) = i
    BY <2>2, ProbeAll
  <2>4. Stops(k) # {}
    BY <2>3 DEF Stops, Offsets, Slot
  <2>5. f \in Offsets /\ Slot(k, f) \in Entry /\ Slot(k, f).key = k
    BY <1>1, <2>2, <2>4, StopOfKey
  <2> HIDE DEF f
  <2>6. Probe(k, f, cap) \in DOMAIN slots /\ IsLive(Slot(k, f))
    BY <2>1, <2>2, <2>5, Slots
  <2>7. Probe(k, f, cap) = i
    BY <2>1, <2>5, <2>6 DEF Distinct, Slot
  <2>. QED BY <2>1, <2>7 DEF Distinct, f
<1>. QED BY <1>1, HashAlways, PTL

\* The count that ht_maybe_grow compares with the capacity is the number of
\* live slots, and growth keeps it below the load factor.
THEOREM LoadIsCounted == Spec => []LenCountsLive
<1>1. ASSUME HashIInv PROVE LenCountsLive
  <2>1. LiveIn(slots, 0) = {i \in DOMAIN slots : IsLive(slots[i])}
    BY <1>1 DEF HashIInv, TypeOK, LiveIn
  <2>. QED BY <1>1, <2>1 DEF HashIInv, LenCountsLive
<1>. QED BY <1>1, HashAlways, PTL

-----------------------------------------------------------------------------
(* The table is a map *)

\* The map that a set of entries stands for.
MapOf(E) == [k \in Key |-> IF \E e \in E : e.key = k THEN (CHOOSE e \in E : e.key = k).val ELSE None]

\* No two entries of a set have a key in common.
OnePerKey(E) == E \in SUBSET Entry /\ \A e, f \in E : e.key = f.key => e = f

\* What a set of entries, one for a key, says of a key.
LEMMA MapAt ==
  ASSUME NEW E, OnePerKey(E), NEW k \in Key
  PROVE  /\ \A e \in E : e.key = k => MapOf(E)[k] = e.val
         /\ (\A e \in E : e.key # k) => MapOf(E)[k] = None
<1>1. ASSUME NEW e \in E, e.key = k PROVE MapOf(E)[k] = e.val
  <2>1. (CHOOSE f \in E : f.key = k) \in E /\ (CHOOSE f \in E : f.key = k).key = k
    BY <1>1
  <2>2. (CHOOSE f \in E : f.key = k) = e
    BY <1>1, <2>1 DEF OnePerKey
  <2>. QED BY <1>1, <2>2 DEF MapOf
<1>2. ASSUME \A e \in E : e.key # k PROVE MapOf(E)[k] = None
  BY <1>2 DEF MapOf
<1>. QED BY <1>1, <1>2

\* Replacing the entry of a key changes the map there.
LEMMA MapPut ==
  ASSUME NEW E, NEW F, OnePerKey(E), OnePerKey(F), NEW e \in Entry,
         \A f : f \in F <=> f = e \/ (f \in E /\ f.key # e.key)
  PROVE  MapOf(F) = [MapOf(E) EXCEPT ![e.key] = e.val]
<1>1. e.key \in Key
  BY DEF Entry
<1>2. MapOf(F)[e.key] = e.val
  BY <1>1, MapAt
<1>3. ASSUME NEW k \in Key, k # e.key PROVE MapOf(F)[k] = MapOf(E)[k]
  <2>1. CASE \E f \in E : f.key = k
    BY <1>3, <2>1, MapAt
  <2>2. CASE \A f \in E : f.key # k
    <3>1. \A f \in F : f.key # k
      BY <1>3, <2>2
    <3>. QED BY <2>2, <3>1, MapAt
  <2>. QED BY <2>1, <2>2
<1>. QED BY <1>1, <1>2, <1>3 DEF MapOf

\* Taking it out empties the map there.
LEMMA MapDel ==
  ASSUME NEW E, NEW F, OnePerKey(E), OnePerKey(F), NEW k \in Key,
         \A f : f \in F <=> f \in E /\ f.key # k
  PROVE  MapOf(F) = [MapOf(E) EXCEPT ![k] = None]
<1>1. MapOf(F)[k] = None
  BY MapAt
<1>2. ASSUME NEW q \in Key, q # k PROVE MapOf(F)[q] = MapOf(E)[q]
  <2>1. CASE \E f \in E : f.key = q
    BY <1>2, <2>1, MapAt
  <2>2. CASE \A f \in E : f.key # q
    <3>1. \A f \in F : f.key # q
      BY <2>2
    <3>. QED BY <2>2, <3>1, MapAt
  <2>. QED BY <2>1, <2>2
<1>3. \A S : MapOf(S) = [q \in Key |-> MapOf(S)[q]]
  BY DEF MapOf
<1> DEFINE before == MapOf(E)
           after == MapOf(F)
<1> HIDE DEF before, after
<1>4. before = [q \in Key |-> before[q]] /\ after = [q \in Key |-> after[q]]
  BY <1>3 DEF before, after
<1>5. after[k] = None /\ \A q \in Key : q # k => after[q] = before[q]
  BY <1>1, <1>2 DEF before, after
<1>6. after = [before EXCEPT ![k] = None]
  BY <1>4, <1>5
<1>. QED BY <1>6 DEF before, after

\* Between calls, and half-way through a growth, no key has two entries.
LEMMA EntriesOnePerKey ==
  ASSUME HashIInv
  PROVE  /\ OnePerKey(AllEntries) /\ Contents = MapOf(AllEntries)
         /\ adding = None => AllEntries = Entries(slots, 0)
<1>1. Contents = MapOf(AllEntries)
  BY DEF Contents, MapOf
<1>2. adding = None => AllEntries = Entries(slots, 0)
  <2>1. DOMAIN <<>> = {}
    OBVIOUS
  <2>. QED BY <2>1 DEF HashIInv, AllEntries, Entries
<1>3. ASSUME NEW e \in AllEntries
      PROVE  /\ e \in Entry
             /\ \/ \E i \in DOMAIN slots : IsLive(slots[i]) /\ slots[i] = e
                \/ adding # None /\ \E j \in LiveIn(old, cursor) : IsLive(old[j]) /\ old[j] = e /\ j \in DOMAIN old
  <2>1. CASE e \in Entries(slots, 0)
    BY <2>1 DEF Entries, HashIInv, TypeOK, IsLive
  <2>2. CASE e \notin Entries(slots, 0)
    <3>1. adding # None /\ e \in Entries(old, cursor)
      BY <1>2, <2>2 DEF AllEntries
    <3>2. PICK j \in DOMAIN old : j >= cursor /\ IsLive(old[j]) /\ old[j] = e
      BY <3>1 DEF Entries
    <3>3. old[j] \in Entry
      BY <3>2 DEF HashIInv, TypeOK, IsLive
    <3>. QED BY <3>1, <3>2, <3>3 DEF LiveIn
  <2>. QED BY <2>1, <2>2
<1>4. ASSUME NEW e \in AllEntries, NEW f \in AllEntries, e.key = f.key PROVE e = f
  BY <1>3, <1>4 DEF HashIInv, Growth, Distinct
<1>. QED BY <1>1, <1>2, <1>3, <1>4 DEF OnePerKey

\* ht_get answers, when it does, what the table holds for the key.
THEOREM GetsAnswer == Spec => []GetsAreContents
<1>1. ASSUME HashIInv PROVE GetsAreContents
  <2> SUFFICES ASSUME Idle, NEW k \in Key, Stops(k) # {} PROVE Gets(k) = Contents[k]
    BY DEF GetsAreContents
  <2> DEFINE f == FirstOf(Stops(k))
  <2>1. /\ OnePerKey(AllEntries) /\ Contents = MapOf(AllEntries)
        /\ AllEntries = Entries(slots, 0)
    BY <1>1, EntriesOnePerKey DEF Idle
  <2>2. /\ f \in Offsets
        /\ \/ Slot(k, f) \in Entry /\ Slot(k, f).key = k
           \/ /\ Slot(k, f) = Empty
              /\ \A i \in DOMAIN slots : IsLive(slots[i]) => slots[i].key # k
    BY <1>1, StopOfKey
  <2>3. Gets(k) = IF Slot(k, f) = Empty THEN None ELSE Slot(k, f).val
    BY DEF Gets
  <2> HIDE DEF f
  <2>4. CASE Slot(k, f) \in Entry /\ Slot(k, f).key = k
    <3>1. Probe(k, f, cap) \in 0..(cap - 1) /\ DOMAIN slots = 0..(cap - 1) /\ IsLive(Slot(k, f))
      BY <1>1, <2>2, <2>4, Slots DEF HashIInv
    <3>2. Slot(k, f) \in Entries(slots, 0)
      BY <3>1 DEF Entries, Slot
    <3>. QED BY <2>1, <2>3, <2>4, <3>2, MapAt, TableAssumption
  <2>5. CASE /\ Slot(k, f) = Empty
             /\ \A i \in DOMAIN slots : IsLive(slots[i]) => slots[i].key # k
    <3>1. \A e \in Entries(slots, 0) : e.key # k
      BY <2>5 DEF Entries
    <3>. QED BY <2>1, <2>3, <2>5, <3>1, MapAt
  <2>. QED BY <2>2, <2>4, <2>5
<1>. QED BY <1>1, HashAlways, PTL

\* What the steps of the map need of the states on both of their sides.
MapIInv ==
  /\ HashIInv
  /\ OnePerKey(AllEntries) /\ Contents = MapOf(AllEntries)
  /\ adding = None => AllEntries = Entries(slots, 0)

\* Entries in flight included, there is one for a key in every state.
LEMMA MapAlways == Spec => []MapIInv
<1>1. HashIInv => MapIInv
  BY EntriesOnePerKey DEF MapIInv
<1>. QED BY <1>1, HashAlways, PTL

\* ht_set that returns is Set of the map, one that does not changes nothing.
LEMMA PlaceIsSet ==
  ASSUME MapIInv, MapIInv', NEW e \in Entry, Place(e), cap' = cap,
         AllEntries = Entries(slots, 0), adding' = None
  PROVE  /\ Stops(e.key) # {} => Map!Set(e.key, e.val)
         /\ Stops(e.key) = {} => UNCHANGED Contents /\ looping'
<1>1. /\ OnePerKey(AllEntries) /\ Contents = MapOf(AllEntries) /\ HashIInv
      /\ OnePerKey(AllEntries') /\ Contents' = MapOf(AllEntries') /\ AllEntries' = Entries(slots', 0)
  BY DEF MapIInv, OnePerKey, MapOf, Entries
<1>2. ASSUME Stops(e.key) # {} PROVE Map!Set(e.key, e.val)
  <2>1. \A f : f \in AllEntries' <=> f = e \/ (f \in AllEntries /\ f.key # e.key)
    BY <1>1, <1>2, PlacePuts, PutKeeps
  <2>. QED BY <1>1, <2>1, MapPut DEF Map!Set
<1>3. ASSUME Stops(e.key) = {} PROVE UNCHANGED Contents /\ looping'
  <2>1. looping' = TRUE /\ UNCHANGED slots
    BY <1>3 DEF Place
  <2>. QED BY <1>1, <2>1
<1>. QED BY <1>2, <1>3

\* ht_set is the Set of the map, unless its probe finds no free slot.
LEMMA SetIsSet ==
  ASSUME MapIInv, MapIInv', NEW k \in Key, NEW v \in Val, HtSet(k, v)
  PROVE  Map!Set(k, v) \/ (UNCHANGED Contents /\ looping')
<1> DEFINE e == [key |-> k, val |-> v]
<1>1. e \in Entry /\ e.key = k /\ e.val = v
  BY DEF Entry
<1>2. Place(e) /\ cap' = cap /\ adding = None /\ adding' = None
  BY DEF HtSet, Idle
<1>3. AllEntries = Entries(slots, 0)
  BY <1>2 DEF MapIInv
<1> HIDE DEF e
<1>. QED BY <1>1, <1>2, <1>3, PlaceIsSet

\* The ht_set that grew the table first takes effect once it has grown.
LEMMA GrownIsSet ==
  ASSUME MapIInv, MapIInv', Grown
  PROVE  /\ adding.key \in Key /\ adding.val \in Val
         /\ Map!Set(adding.key, adding.val) \/ (UNCHANGED Contents /\ looping')
<1>1. adding \in Entry /\ Place(adding) /\ cap' = cap /\ adding' = None /\ HashIInv
  BY DEF Grown, MapIInv, HashIInv, TypeOK
<1>2. LiveIn(old, cursor) = {}
  BY <1>1, AllMoved
<1>3. Entries(old, cursor) = {}
  BY <1>2 DEF Entries, LiveIn
<1>4. AllEntries = Entries(slots, 0)
  BY <1>3 DEF AllEntries
<1>. QED BY <1>1, <1>4, PlaceIsSet DEF Entry

\* ht_del is its Del.
LEMMA DelIsDel ==
  ASSUME MapIInv, MapIInv', NEW k \in Key, HtDel(k)
  PROVE  Map!Del(k) \/ (UNCHANGED Contents /\ looping')
<1>1. /\ OnePerKey(AllEntries) /\ Contents = MapOf(AllEntries) /\ HashIInv
      /\ OnePerKey(AllEntries') /\ Contents' = MapOf(AllEntries')
      /\ AllEntries = Entries(slots, 0) /\ AllEntries' = Entries(slots', 0)
  BY DEF MapIInv, OnePerKey, MapOf, Entries, HtDel, Idle
<1>2. CASE Stops(k) = {}
  <2>1. looping' = TRUE /\ UNCHANGED slots
    BY <1>2 DEF HtDel
  <2>. QED BY <1>1, <2>1
<1>3. CASE Stops(k) # {}
  <2> DEFINE f == FirstOf(Stops(k))
             p == Probe(k, f, cap)
  <2>1. /\ f \in Offsets
        /\ \/ Slot(k, f) \in Entry /\ Slot(k, f).key = k
           \/ /\ Slot(k, f) = Empty
              /\ \A i \in DOMAIN slots : IsLive(slots[i]) => slots[i].key # k
    BY <1>1, <1>3, StopOfKey
  <2>2. IF Slot(k, f) = Empty THEN UNCHANGED slots ELSE slots' = [slots EXCEPT ![p] = Tomb]
    BY <1>3 DEF HtDel
  <2> HIDE DEF f
  <2>3. CASE Slot(k, f) = Empty
    <3>1. \A i \in DOMAIN slots : IsLive(slots[i]) => slots[i].key # k
      BY <2>1, <2>3, TableAssumption
    <3>2. \A e : e \in AllEntries' <=> e \in AllEntries /\ e.key # k
      BY <1>1, <2>2, <2>3, <3>1 DEF Entries
    <3>. QED BY <1>1, <3>2, MapDel DEF Map!Del
  <2>4. CASE Slot(k, f) \in Entry /\ Slot(k, f).key = k
    <3>1. /\ p \in DOMAIN slots /\ IsLive(slots[p]) /\ slots[p].key = k
          /\ cap \in Nat /\ DOMAIN slots = 0..(cap - 1)
      BY <1>1, <2>1, <2>4, Slots DEF HashIInv, Slot
    <3>2. slots' = [slots EXCEPT ![p] = Tomb]
      BY <2>2, <2>4, TableAssumption
    <3> HIDE DEF p
    <3>3. /\ DOMAIN slots' = DOMAIN slots /\ ~IsLive(slots'[p])
          /\ \A n \in DOMAIN slots : n # p => slots'[n] = slots[n]
      BY <1>1, <3>1, <3>2 DEF IsLive, HashIInv, TypeOK
    <3>4. \A n \in DOMAIN slots : IsLive(slots[n]) /\ slots[n].key = k => n = p
      BY <1>1, <3>1 DEF HashIInv, Distinct
    <3>5. ASSUME NEW e
          PROVE  /\ e \in AllEntries <=> \E n \in DOMAIN slots : IsLive(slots[n]) /\ slots[n] = e
                 /\ e \in AllEntries' <=> \E n \in DOMAIN slots : IsLive(slots'[n]) /\ slots'[n] = e
      BY <1>1, <3>1, <3>3 DEF Entries
    <3>6. \A e : e \in AllEntries' <=> e \in AllEntries /\ e.key # k
      BY <3>1, <3>3, <3>4, <3>5
    <3>. QED BY <1>1, <3>6, MapDel DEF Map!Del
  <2>. QED BY <2>1, <2>3, <2>4
<1>. QED BY <1>2, <1>3

\* Neither the new array nor the entries moved into it show in the map.
LEMMA GrowthHidden ==
  ASSUME MapIInv, MapIInv', MoveEntry \/ \E k \in Key, v \in Val : Grow(k, v)
  PROVE  UNCHANGED Contents
<1>1. Contents = MapOf(AllEntries) /\ Contents' = MapOf(AllEntries') /\ HashIInv
  BY DEF MapIInv, MapOf
<1>2. CASE \E k \in Key, v \in Val : Grow(k, v)
  <2>1. /\ adding = None /\ old' = slots /\ cursor' = 0
        /\ slots' = [i \in 0..(2 * cap - 1) |-> Empty]
    BY <1>2 DEF Grow, Idle
  <2>2. Entries(slots', 0) = {}
    BY <2>1 DEF Entries, IsLive
  <2>3. AllEntries' = Entries(slots, 0)
    BY <2>1, <2>2 DEF AllEntries, Entries
  <2>. QED BY <1>1, <2>1, <2>3 DEF MapIInv
<1>3. CASE MoveEntry /\ ~IsLive(old[cursor])
  <2>1. UNCHANGED <<slots, old>> /\ cursor' = cursor + 1
    BY <1>3 DEF MoveEntry
  <2>2. \E c \in Nat : old \in [0..(c - 1) -> Entry \cup {Empty, Tomb}] /\ cursor \in 0..c
    BY <1>3 DEF MoveEntry, HashIInv, Growth, MapIInv
  <2>3. \A j \in DOMAIN old : IsLive(old[j]) => (j >= cursor <=> j >= cursor + 1)
    BY <1>3, <2>2
  <2>4. Entries(old, cursor + 1) = Entries(old, cursor)
    BY <2>3 DEF Entries
  <2>. QED BY <1>1, <2>1, <2>4 DEF AllEntries, Entries
<1>4. CASE MoveEntry /\ IsLive(old[cursor])
  <2> DEFINE e == old[cursor]
  <2>1. /\ UNCHANGED old /\ cursor' = cursor + 1 /\ cap' = cap /\ adding # None
        /\ cursor \in DOMAIN old
    BY <1>4 DEF MoveEntry
  <2>2. e \in Entry /\ Puts(e) /\ cursor \in LiveIn(old, cursor)
    BY <1>1, <1>4, MoveIsPut
  <2>3. \A f : f \in Entries(slots', 0) <=> f = e \/ (f \in Entries(slots, 0) /\ f.key # e.key)
    BY <1>1, <2>1, <2>2, PutKeeps
  <2>4. \A f \in Entries(slots, 0) : f.key # e.key
    BY <1>1, <2>1, <2>2 DEF Entries, HashIInv, Growth
  <2>5. \E c \in Nat : old \in [0..(c - 1) -> Entry \cup {Empty, Tomb}] /\ cursor \in 0..c
    BY <1>1, <2>1 DEF HashIInv, Growth
  <2>6. \A j \in DOMAIN old : j >= cursor <=> j = cursor \/ j >= cursor + 1
    BY <2>5
  <2>7. \A f : f \in Entries(old, cursor) <=> f = e \/ f \in Entries(old, cursor + 1)
    BY <1>4, <2>1, <2>6 DEF Entries
  <2>8. AllEntries' = Entries(slots', 0) \cup Entries(old, cursor + 1)
    BY <2>1 DEF AllEntries, Entries
  <2>9. AllEntries' = AllEntries
    BY <2>3, <2>4, <2>7, <2>8 DEF AllEntries
  <2>. QED BY <1>1, <2>9
<1>. QED BY <1>2, <1>3, <1>4

\* ht_init makes the empty map.
LEMMA InitIsEmptyMap == Init => Map!Init
<1> SUFFICES ASSUME Init PROVE Map!Init
  OBVIOUS
<1>1. \A i \in DOMAIN slots : ~IsLive(slots[i])
  BY DEF Init, IsLive
<1>2. DOMAIN <<>> = {}
  OBVIOUS
<1>3. AllEntries = {}
  BY <1>1, <1>2 DEF AllEntries, Entries, Init
<1>. QED BY <1>3 DEF Contents, Map!Init

\* What IsAMap says of a step.
CallStep ==
  /\ adding' # None => UNCHANGED Contents
  /\ Grown /\ ~looping' => Map!Set(adding.key, adding.val)
  /\ \A k \in Key :
       /\ HtDel(k) /\ ~looping' => Map!Del(k)
       /\ \A v \in Val : HtSet(k, v) /\ ~looping' => Map!Set(k, v)

\* Every action is one of the map or leaves it alone.
LEMMA MapStep ==
  ASSUME MapIInv, MapIInv', [Next]_vars
  PROVE  [Map!Next]_Contents /\ [CallStep]_vars
<1>1. UNCHANGED <<slots, old, cursor>> => UNCHANGED Contents
  BY DEF MapIInv, MapOf, AllEntries, Entries
<1>2. Grown /\ ~looping' => Map!Set(adding.key, adding.val)
  BY GrownIsSet
<1>3. \A k \in Key :
        /\ HtDel(k) /\ ~looping' => Map!Del(k)
        /\ \A v \in Val : HtSet(k, v) /\ ~looping' => Map!Set(k, v)
  BY DelIsDel, SetIsSet
<1>4. CASE UNCHANGED vars
  BY <1>1, <1>4 DEF vars
<1>5. ASSUME NEW k \in Key, HtGet(k) PROVE UNCHANGED Contents /\ adding' = None
  BY <1>1, <1>5 DEF HtGet, Idle
<1>6. ASSUME NEW k \in Key, HtDel(k) PROVE [Map!Next]_Contents /\ adding' = None
  BY <1>6, DelIsDel DEF Map!Next, HtDel, Idle
<1>7. ASSUME NEW k \in Key, NEW v \in Val, HtSet(k, v)
      PROVE  [Map!Next]_Contents /\ adding' = None
  BY <1>7, SetIsSet DEF Map!Next, HtSet, Idle
<1>8. ASSUME Grown PROVE [Map!Next]_Contents /\ adding' = None
  BY <1>8, GrownIsSet DEF Map!Next, Grown
<1>9. ASSUME MoveEntry \/ \E k \in Key, v \in Val : Grow(k, v) PROVE UNCHANGED Contents
  BY <1>9, GrowthHidden
<1>10. [Map!Next]_Contents
  BY <1>4, <1>5, <1>6, <1>7, <1>8, <1>9 DEF Next
<1>11. Next => (adding' # None => UNCHANGED Contents)
  BY <1>5, <1>6, <1>7, <1>8, <1>9 DEF Next
<1>. QED BY <1>2, <1>3, <1>4, <1>10, <1>11 DEF CallStep

\* The table implements a map: a call of hash.c that returns does to the map
\* what its name says and to no other key, and neither collisions nor
\* tombstones nor a growth in between show.
THEOREM ImplementsMap == Spec => IsAMap
<1>1. Init => Map!Init
  BY InitIsEmptyMap
<1>2. MapIInv /\ MapIInv' /\ [Next]_vars => [Map!Next]_Contents /\ [CallStep]_vars
  BY MapStep
<1>3. Spec => Map!Spec
  BY <1>1, <1>2, MapAlways, PTL DEF Spec, Map!Spec
<1>4. Spec => [][CallStep]_vars
  BY <1>2, MapAlways, PTL DEF Spec
<1>. QED BY <1>3, <1>4 DEF IsAMap, CallStep
=============================================================================
