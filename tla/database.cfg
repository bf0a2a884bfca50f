CONSTANTS
  note1 = note1
  note2 = note2
  doc = doc
  text = text
  long = long
  None = None
  Key = {note1, note2, doc}
  Documents <- Bodies
  NoteTexts = {text}
  ReplWrites <- Commands
  ReplKeys = {doc}
  Payload = {text, long}
  Listable = {text}
  Routable = {text}
  Val <- Records
  NoteKey <- TwoNotes
  ListRoom = 1
  SyncEvery = 2
  MaxLog = 2
  Faults = {"kill", "power"}
SPECIFICATION Spec
CHECK_DEADLOCK FALSE
INVARIANTS TypeOK AckedSurvives AckedServed NotesInOrder NextNoteIsFree
