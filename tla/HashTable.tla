----------------------------- MODULE HashTable -----------------------------
(***************************************************************************)
(* The open-addressed table of hash.c behind the primary and the secondary *)
(* indexes: linear probing, tombstones, and growth by moving every live    *)
(* entry to an array twice as long before ht_set inserts.                  *)
(*                                                                         *)
(* A probe follows the slots from the home of a key, wrapping at the end,  *)
(* until it finds the key or an empty slot.  A table without an empty slot *)
(* makes the probe for an absent key run for ever: `looping'.              *)
(***************************************************************************)
EXTENDS Naturals, FiniteSets

CONSTANTS
  Key, Val,
  Hash,        \* fnv1a_32 of each key
  InitialCap,  \* the slots ht_init allocates
  None, Empty, Tomb

Entry == [key : Key, val : Val]

ASSUME TableAssumption ==
  /\ Hash \in [Key -> Nat] /\ InitialCap \in Nat \ {0}
  /\ None \notin Val /\ None \notin Entry
  /\ Empty # Tomb /\ Empty \notin Entry /\ Tomb \notin Entry

VARIABLES
  cap, slots,   \* the array in use: state and entry of each of its slots
  len,          \* live entries, as the table counts them
  old, cursor,  \* the array being moved from and its first slot not yet moved
  adding,       \* the entry ht_set adds once the table has grown, or None
  looping       \* some call is in a probe that cannot end

vars == <<cap, slots, len, old, cursor, adding, looping>>

\* The i-th slot a probe for key k looks at in an array of c slots.
Probe(k, i, c) ==
  LET p == (Hash[k] % c) + i IN IF p < c THEN p ELSE p - c

IsLive(s) == s \notin {Empty, Tomb}

Slot(k, i) == slots[Probe(k, i, cap)]
Offsets == 0..(cap - 1)
HasEmpty == \E i \in DOMAIN slots : slots[i] = Empty

\* The offsets at which a probe for k stops, of which the first counts.
Stops(k) == {i \in Offsets : Slot(k, i) = Empty \/ (IsLive(Slot(k, i)) /\ Slot(k, i).key = k)}

FirstOf(S) == CHOOSE i \in S : \A j \in S : i <= j

\* ht_get: the value, None, or no answer when the probe has no end.
Gets(k) == LET s == Slot(k, FirstOf(Stops(k))) IN IF s = Empty THEN None ELSE s.val

Idle == adding = None /\ ~looping

Init ==
  /\ cap = InitialCap /\ slots = [i \in 0..(InitialCap - 1) |-> Empty] /\ len = 0
  /\ old = <<>> /\ cursor = 0 /\ adding = None /\ looping = FALSE

-----------------------------------------------------------------------------
\* Mutant of Place: a tombstone is taken before the key is looked for.
PlaceEarly(e) ==
  LET room == {i \in Offsets : ~IsLive(Slot(e.key, i))}
      i == FirstOf(IF room # {} THEN room ELSE Stops(e.key))
  IN /\ slots' = [slots EXCEPT ![Probe(e.key, i, cap)] = e]
     /\ len' = IF Slot(e.key, i) = Empty THEN len + 1 ELSE len
     /\ UNCHANGED looping

\* Mutant of Place: the insertion is not counted.
PlaceUncounted(e) ==
  LET stop == FirstOf(Stops(e.key))
      tombs == {i \in Offsets : i < stop /\ Slot(e.key, i) = Tomb}
      i == IF Slot(e.key, stop) = Empty /\ tombs # {} THEN FirstOf(tombs) ELSE stop
  IN /\ slots' = [slots EXCEPT ![Probe(e.key, i, cap)] = e]
     /\ UNCHANGED <<len, looping>>

\* The probe of ht_set: update the entry of the key, or else insert it at the
\* first tombstone met on the way to the empty slot, or there.
Place(e) ==
  LET stop == FirstOf(Stops(e.key))
      tombs == {i \in Offsets : i < stop /\ Slot(e.key, i) = Tomb}
      i == IF Slot(e.key, stop) = Empty /\ tombs # {} THEN FirstOf(tombs) ELSE stop
  IN IF Stops(e.key) = {}
     THEN looping' = TRUE /\ UNCHANGED <<slots, len>>
     ELSE /\ slots' = [slots EXCEPT ![Probe(e.key, i, cap)] = e]
          /\ len' = IF Slot(e.key, stop) = Empty THEN len + 1 ELSE len
          /\ UNCHANGED looping

\* ht_maybe_grow: load factor ~ 0.7.
MustGrow == (len + 1) * 10 >= cap * 7

HtSet(k, v) ==
  /\ Idle /\ ~MustGrow
  /\ Place([key |-> k, val |-> v])
  /\ UNCHANGED <<cap, old, cursor, adding>>

\* Mutant of Grow: the count of live entries is not started again.
GrowKeepsLen(k, v) ==
  /\ Idle /\ MustGrow
  /\ old' = slots /\ cursor' = 0
  /\ cap' = 2 * cap /\ slots' = [i \in 0..(2 * cap - 1) |-> Empty]
  /\ adding' = [key |-> k, val |-> v]
  /\ UNCHANGED <<len, looping>>

\* ht_set finds the table too full: ht_resize allocates the next array.
Grow(k, v) ==
  /\ Idle /\ MustGrow
  /\ old' = slots /\ cursor' = 0
  /\ cap' = 2 * cap /\ slots' = [i \in 0..(2 * cap - 1) |-> Empty] /\ len' = 0
  /\ adding' = [key |-> k, val |-> v]
  /\ UNCHANGED looping

\* Mutant of MoveEntry: the home slot is taken without a probe.
MoveEntryHome ==
  /\ adding # None /\ cursor \in DOMAIN old
  /\ IF IsLive(old[cursor])
     THEN /\ slots' = [slots EXCEPT ![Probe(old[cursor].key, 0, cap)] = old[cursor]]
          /\ len' = len + 1
     ELSE UNCHANGED <<slots, len>>
  /\ cursor' = cursor + 1
  /\ UNCHANGED <<cap, old, adding, looping>>

\* One round of the loop of ht_resize: a live entry goes to the first slot
\* of its probe that is not live, tombstones are left behind.
MoveEntry ==
  /\ adding # None /\ cursor \in DOMAIN old
  /\ IF IsLive(old[cursor])
     THEN LET e == old[cursor]
              room == {i \in Offsets : ~IsLive(Slot(e.key, i))}
          IN /\ slots' = [slots EXCEPT ![Probe(e.key, FirstOf(room), cap)] = e]
             /\ len' = len + 1
     ELSE UNCHANGED <<slots, len>>
  /\ cursor' = cursor + 1
  /\ UNCHANGED <<cap, old, adding, looping>>

\* ht_resize is done and ht_set goes on with its own probe.
Grown ==
  /\ adding # None /\ cursor \notin DOMAIN old
  /\ Place(adding)
  /\ adding' = None /\ old' = <<>> /\ cursor' = 0
  /\ UNCHANGED cap

\* ht_get writes nothing and returns, or never does.
HtGet(k) ==
  /\ Idle
  /\ looping' = (Stops(k) = {})
  /\ UNCHANGED <<cap, slots, len, old, cursor, adding>>

\* Mutant of HtDel: the slot is emptied.
HtDelEmpties(k) ==
  /\ Idle
  /\ LET stop == FirstOf(Stops(k))
     IN IF Stops(k) = {} THEN looping' = TRUE /\ UNCHANGED <<slots, len>>
        ELSE /\ IF Slot(k, stop) = Empty THEN UNCHANGED <<slots, len>>
                ELSE slots' = [slots EXCEPT ![Probe(k, stop, cap)] = Empty] /\ len' = len - 1
             /\ UNCHANGED looping
  /\ UNCHANGED <<cap, old, cursor, adding>>

HtDel(k) ==
  /\ Idle
  /\ LET stop == FirstOf(Stops(k))
     IN IF Stops(k) = {} THEN looping' = TRUE /\ UNCHANGED <<slots, len>>
        ELSE /\ IF Slot(k, stop) = Empty THEN UNCHANGED <<slots, len>>
                ELSE slots' = [slots EXCEPT ![Probe(k, stop, cap)] = Tomb] /\ len' = len - 1
             /\ UNCHANGED looping
  /\ UNCHANGED <<cap, old, cursor, adding>>

Next ==
  \/ \E k \in Key : HtGet(k) \/ HtDel(k) \/ \E v \in Val : HtSet(k, v) \/ Grow(k, v)
  \/ MoveEntry \/ Grown

Spec == Init /\ [][Next]_vars

-----------------------------------------------------------------------------
TypeOK ==
  /\ cap \in Nat \ {0} /\ slots \in [0..(cap - 1) -> Entry \cup {Empty, Tomb}] /\ len \in Nat
  /\ cursor \in Nat /\ adding \in Entry \cup {None} /\ looping \in BOOLEAN
  /\ \E c \in {0, cap \div 2} : old \in [0..(c - 1) -> Entry \cup {Empty, Tomb}]

\* The live entries of an array from slot `from' on.
Entries(a, from) == {a[i] : i \in {j \in DOMAIN a : j >= from /\ IsLive(a[j])}}

\* The entries of the table, on either side of a move.
AllEntries == Entries(slots, 0) \cup Entries(old, cursor)

\* Whatever insertions, updates and deletions came before, every live entry
\* is met by the probe for its key before an empty slot, and once.
Reachable ==
  \A i \in DOMAIN slots : IsLive(slots[i]) =>
    LET k == slots[i].key
    IN /\ Probe(k, FirstOf(Stops(k)), cap) = i
       /\ \A j \in DOMAIN slots : IsLive(slots[j]) /\ slots[j].key = k => j = i

\* The count that decides when to grow is the number of live slots, so
\* growth keeps the live ones below the load factor.
LenCountsLive ==
  /\ len = Cardinality({i \in DOMAIN slots : IsLive(slots[i])})
  /\ len * 10 < cap * 7

\* hash.c: load factor ~ 0.7, so that every probe meets an empty slot.
CallsReturn == ~looping

Contents ==
  [k \in Key |->
     IF \E e \in AllEntries : e.key = k THEN (CHOOSE e \in AllEntries : e.key = k).val ELSE None]

\* A get that returns answers what the table holds.
GetsAreContents ==
  Idle => \A k \in Key : Stops(k) # {} => Gets(k) = Contents[k]

Map == INSTANCE KeyMap WITH content <- Contents

\* The table is a map: a call that returns has done to the map what its name
\* says, and to no other key; growth, tombstones and collisions do not show.
IsAMap ==
  /\ Map!Spec
  /\ [][ /\ adding' # None => UNCHANGED Contents
         /\ Grown /\ ~looping' => Map!Set(adding.key, adding.val)
         /\ \A k \in Key :
              /\ HtDel(k) /\ ~looping' => Map!Del(k)
              /\ \A v \in Val : HtSet(k, v) /\ ~looping' => Map!Set(k, v) ]_vars
=============================================================================
