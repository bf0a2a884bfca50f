CONSTANTS
  k1 = k1
  k2 = k2
  inline = inline
  blob = blob
  None = None
  Key = {k1}
  Val = {inline, blob}
  BlobVal = {blob}
  Writes <- OneKeyTwoPayloads
  SyncModes = {TRUE, FALSE}
  SyncEvery = 2
  MaxLog = 2
  MaxUndo = 1
  Faults = {"kill", "power", "io"}
SPECIFICATION Spec
CHECK_DEADLOCK FALSE
INVARIANTS IndexIsLog LossWindow SnapshotOverSyncedLog RecoverableBlobs LiveBlobs
PROPERTY Recovers
