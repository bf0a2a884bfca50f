----------------------------- MODULE DurableMap -----------------------------
(***************************************************************************)
(* What microdb promises its callers across crashes: a map, of which a     *)
(* suffix of the operations is still at risk.  A crash keeps some prefix   *)
(* of the operations at risk, in their order, and everything before them.  *)
(* The promise lapses in the situations that clear `sound' and is void     *)
(* until something restores it; MicroDB says exactly which they are.       *)
(***************************************************************************)
EXTENDS WalRecords

VARIABLES
  stable,   \* the map every crash preserves
  pending,  \* the operations since, in order
  sound     \* the promise holds

vars == <<stable, pending, sound>>

Init == stable = EmptyMap /\ pending = <<>> /\ sound = TRUE

\* One more write or delete, at risk until the next flush.
Operate ==
  /\ sound
  /\ \E r \in Rec : pending' = Append(pending, r)
  /\ UNCHANGED <<stable, sound>>

Flush ==
  /\ sound
  /\ stable' = Replayed(stable, pending)
  /\ pending' = <<>>
  /\ UNCHANGED sound

Crash ==
  /\ sound
  /\ \E n \in 0..Len(pending) : stable' = Replayed(stable, FirstRecs(pending, n))
  /\ pending' = <<>>
  /\ UNCHANGED sound

\* The promise lapses, or is void, or is made anew over some map.
Lapse ==
  /\ sound => ~sound'
  /\ stable' \in Map /\ pending' \in Seq(Rec) /\ sound' \in BOOLEAN

Next == Operate \/ Flush \/ Crash \/ Lapse

Spec == Init /\ [][Next]_vars
=============================================================================
