CONSTANTS
  k1 = k1
  k2 = k2
  inline = inline
  blob = blob
  None = None
  Key = {k1, k2}
  Val = {inline, blob}
  BlobVal = {blob}
  Writes <- BlobBesideInline
  SyncModes = {TRUE}
  SyncEvery = 2
  MaxLog = 2
  MaxUndo = 1
  Faults = {"kill", "power"}
SPECIFICATION Spec
CHECK_DEADLOCK FALSE
INVARIANTS TypeOK IndexIsLog SyncedFilesSafe
PROPERTY Recovers
