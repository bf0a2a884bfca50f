CONSTANTS
  a = a
  b = b
  c = c
  d = d
  e = e
  f = f
  Records = {a, b, c, d, e, f}
  RecLen <- Lengths
SPECIFICATION Spec
CHECK_DEADLOCK FALSE
INVARIANTS PagesHold SnapshotComplete AlwaysLoads FailsOnlyForLength
