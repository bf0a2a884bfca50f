CONSTANTS
  k1 = k1
  k2 = k2
  notes = notes
  tasks = tasks
  text = text
  json = json
  None = None
  Key = {k1, k2}
  Namespace = {notes, tasks}
  ContentType = {text, json}
SPECIFICATION Spec
SYMMETRY Symmetry
CHECK_DEADLOCK FALSE
INVARIANTS TypeOK BucketsCover ListingIsScan ListingWorksIntact
PROPERTY DeletedAll
