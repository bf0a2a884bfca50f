CONSTANTS
  k1 = k1
  k2 = k2
  inline = inline
  blob = blob
  None = None
  Key = {k1, k2}
  Val = {inline}
  BlobVal = {}
  Writes <- InlineOnly
  SyncModes = {TRUE}
  SyncEvery = 2
  MaxLog = 2
  MaxUndo = 1
  Faults = {"kill"}
SPECIFICATION Spec
SYMMETRY KeySymmetry
CHECK_DEADLOCK FALSE
INVARIANT EveryValidRecordReplayed
