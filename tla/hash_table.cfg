CONSTANTS
  k1 = k1
  k2 = k2
  k3 = k3
  k4 = k4
  v1 = v1
  v2 = v2
  None = None
  Empty = Empty
  Tomb = Tomb
  Key = {k1, k2, k3, k4}
  Val = {v1, v2}
  Hash <- Hashes
  InitialCap = 4
SPECIFICATION Spec
CHECK_DEADLOCK FALSE
INVARIANTS TypeOK Reachable LenCountsLive GetsAreContents
PROPERTY IsAMap
