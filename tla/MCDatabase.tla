----------------------------- MODULE MCDatabase -----------------------------
(* A small instance of Database for TLC. *)
EXTENDS Database

CONSTANTS note1, note2, doc, text, long

Records == [ns : Namespace, text : Payload]
\* One body that every answer has room for, and one that none has.
Bodies == {<<doc, text>>, <<doc, long>>}
\* SET doc, and WRITE doc into the namespace of the notes.
Commands == {<<doc, [ns |-> "default", text |-> text]>>, <<doc, [ns |-> "notes", text |-> long]>>}
TwoNotes == <<note1, note2>>
=============================================================================
