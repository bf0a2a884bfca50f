----------------------------- MODULE Responses -----------------------------
(* How the server writes one answer (requests.c route_request, handle_get,  *)
(* chunk, handle_post and the writers below them) to a non-blocking socket. *)
(* No caller looks at what write returns, so the bytes for which the socket *)
(* has no room are lost; sendfile stops at the first call that sends        *)
(* nothing, whatever the reason: the socket is full, the peer has left, the *)
(* file is a directory or has become shorter. The peer takes what has       *)
(* arrived in portions of its own choosing, or leaves. A cell stands for a  *)
(* piece of the answer: a header line, or a block of the file or of the JSON*)
(* text.                                                                    *)
EXTENDS Naturals, Sequences, SequencesExt, FiniteSetsExt

CONSTANTS
  FileLen,   \* blocks of the file asked for, as stat counted them
  Piece,     \* blocks of one chunk of a video (256 bytes)
  SendRoom   \* cells the socket has room for

Heads(kind) ==
  CASE kind = "error" -> <<<<"status">>, <<"blank">>>>
    [] kind = "json"  -> <<<<"status">>, <<"type">>, <<"length">>, <<"close">>>>
    [] kind = "file"  -> <<<<"status">>, <<"type", "length", "close">>>>
    [] kind = "video" -> <<<<"status">>, <<"type", "chunked", "close">>>>
Kinds == {"error", "json", "file", "video"}

(* The header of every answer fits an empty socket.                         *)
ASSUME HeadsFit == /\ FileLen \in Nat /\ Piece \in Nat \ {0}
                   /\ SendRoom \in Nat /\ SendRoom >= 4

VARIABLES
  kind,      \* the answer being written, or "none"
  pending,   \* the writes due before the next decision, each a run of cells
  off,       \* blocks of the file read or sent
  pc,        \* "route", "write", "sendfile", "check", "last", "closed", "dead"
  flight,    \* the cells in the socket
  got,       \* the cells the peer has taken
  gone,      \* the peer has left
  full,      \* history: a call found the socket with too little room
  failed     \* history: the file gave less than stat promised

file == <<kind, off>>
wire == <<flight, got, gone>>
marks == <<full, failed>>
vars == <<file, pending, pc, wire, marks>>

Block(i) == <<"block", i>>
Cell(s) == <<s, 0>>
Blocks(i, j) == [k \in 1 .. j - i |-> Block(i + k)]
Cells(names) == [k \in DOMAIN names |-> Cell(names[k])]
Free == SendRoom - Len(flight)

(* The writes of one chunk of a video: its size, its data, its end.         *)
Chunk(i, j) == <<<<Cell("size")>>, Blocks(i, j), <<Cell("crlf")>>>>
PieceEnd(i) == Min({i + Piece, FileLen})

(* The JSON text goes in one write, like a file that is FileLen long.       *)
FirstWrites(k) ==
  LET heads == [i \in DOMAIN Heads(k) |-> Cells(Heads(k)[i])]
  IN  IF k = "json" THEN heads \o <<Blocks(0, FileLen)>> ELSE heads

Init ==
  /\ kind = "none" /\ pending = <<>> /\ off = 0 /\ pc = "route"
  /\ flight = <<>> /\ got = <<>> /\ gone = FALSE
  /\ full = FALSE /\ failed = FALSE

(* The handler chosen by the request's method and path.                     *)
Route ==
  /\ pc = "route"
  /\ kind' \in Kinds
  /\ pending' = FirstWrites(kind')
  /\ pc' = "write"
  /\ UNCHANGED <<off, wire, marks>>

(* One write: the cells for which there is room, the others are dropped.    *)
Write ==
  /\ pc = "write" /\ pending # <<>> /\ ~gone
  /\ LET n == Min({Free, Len(Head(pending))})
     IN  /\ flight' = flight \o SubSeq(Head(pending), 1, n)
         /\ full' = (full \/ n < Len(Head(pending)))
  /\ pending' = Tail(pending)
  /\ UNCHANGED <<file, pc, got, gone, failed>>

(* A write to a peer that has left: the first ones vanish, a later one      *)
(* raises SIGPIPE, which ends the server.                                   *)
WriteVanishes ==
  /\ pc = "write" /\ pending # <<>> /\ gone
  /\ pending' = Tail(pending)
  /\ UNCHANGED <<file, pc, wire, marks>>

BrokenPipe ==
  /\ \/ pc = "write" /\ pending # <<>>
     \/ pc = "sendfile" /\ off < FileLen
     \/ pc = "last"
  /\ gone
  /\ pc' = "dead"
  /\ UNCHANGED <<file, pending, wire, marks>>

Written ==
  /\ pc = "write" /\ pending = <<>>
  /\ pc' = CASE kind = "file" -> "sendfile"
             [] kind = "video" -> "check"
             [] OTHER -> "closed"
  /\ UNCHANGED <<file, pending, wire, marks>>

SendFileAnew ==  \* mutant: every sendfile starts at the first block
  /\ pc = "sendfile" /\ off < FileLen /\ ~gone
  /\ \E n \in 1 .. Min({Free, FileLen - off}) :
       /\ flight' = flight \o Blocks(0, n)
       /\ off' = off + n
  /\ UNCHANGED <<kind, pending, pc, got, gone, marks>>

(* One sendfile takes as much as it likes of what the socket has room for.  *)
SendFile ==
  /\ pc = "sendfile" /\ off < FileLen /\ ~gone
  /\ \E n \in 1 .. Min({Free, FileLen - off}) :
       /\ flight' = flight \o Blocks(off, off + n)
       /\ off' = off + n
  /\ UNCHANGED <<kind, pending, pc, got, gone, marks>>

(* sendfile sends nothing: EAGAIN of a full socket, ECONNRESET of a peer    *)
(* that has left, EINVAL of a directory, 0 of a file that became shorter.   *)
NothingSent ==
  \/ ~gone /\ Free = 0 /\ full' = TRUE /\ UNCHANGED failed
  \/ gone /\ UNCHANGED marks
  \/ failed' = TRUE /\ UNCHANGED full

SendFileRetries ==  \* mutant: it tries again
  /\ pc = "sendfile" /\ off < FileLen /\ NothingSent
  /\ UNCHANGED <<file, pending, pc, wire>>

(* Whatever the reason, the loop ends there.                                *)
SendFileStops ==
  /\ pc = "sendfile" /\ off < FileLen /\ NothingSent
  /\ pc' = "closed"
  /\ UNCHANGED <<file, pending, wire>>

FileSent ==
  /\ pc = "sendfile" /\ off = FileLen
  /\ pc' = "closed"
  /\ UNCHANGED <<file, pending, wire, marks>>

(* chunk: read a piece, ask the socket for an error, write the piece.       *)
NextChunk ==
  /\ pc = "check" /\ off < FileLen
  /\ pending' = Chunk(off, PieceEnd(off))
  /\ off' = PieceEnd(off)
  /\ pc' = "write"
  /\ UNCHANGED <<kind, wire, marks>>

PeerFoundDead ==
  /\ pc = "check" /\ off < FileLen /\ gone
  /\ pc' = "closed"
  /\ UNCHANGED <<file, pending, wire, marks>>

(* The end of the file; a read that fails, or finds the file shorter, ends  *)
(* the answer like it.                                                      *)
EndOfVideo ==
  /\ pc = "check"
  /\ \/ off = FileLen /\ UNCHANGED failed
     \/ off < FileLen /\ failed' = TRUE
  /\ pc' = "last"
  /\ UNCHANGED <<file, pending, wire, full>>

NoLastChunk ==  \* mutant: the terminating chunk is not written
  /\ pc = "last"
  /\ pc' = "closed"
  /\ UNCHANGED <<file, pending, wire, marks>>

LastChunk ==
  /\ pc = "last"
  /\ LET fits == ~gone /\ Free > 0
     IN  /\ flight' = IF fits THEN Append(flight, Cell("last")) ELSE flight
         /\ full' = (full \/ (~gone /\ Free = 0))
  /\ pc' = "closed"
  /\ UNCHANGED <<file, pending, got, gone, failed>>

Server ==
  \/ Route \/ Write \/ WriteVanishes \/ BrokenPipe \/ Written
  \/ SendFile \/ SendFileStops \/ FileSent
  \/ NextChunk \/ PeerFoundDead \/ EndOfVideo \/ LastChunk

Drain ==
  /\ ~gone
  /\ \E n \in 1 .. Len(flight) :
       /\ got' = got \o SubSeq(flight, 1, n)
       /\ flight' = SubSeq(flight, n + 1, Len(flight))
  /\ UNCHANGED <<file, pending, pc, gone, marks>>

PeerLeaves ==
  /\ ~gone /\ pc # "dead"
  /\ gone' = TRUE
  /\ flight' = <<>>
  /\ UNCHANGED <<file, pending, pc, got, marks>>

Next == Server \/ Drain \/ PeerLeaves

(* Nothing is asked of the peer.                                            *)
Spec == Init /\ [][Next]_vars /\ WF_vars(Server)

----------------------------------------------------------------------------
(* The answer as HTTP has it, cell by cell: its header, then the file or the*)
(* JSON text, or the chunks of the file, each with its size before it and a *)
(* line end behind, and the empty last chunk.                               *)
Header(k) ==
  Cells(CASE k = "error" -> <<"status", "blank">>
          [] k = "video" -> <<"status", "type", "chunked", "close">>
          [] OTHER -> <<"status", "type", "length", "close">>)

Chunks(n) == (n + Piece - 1) \div Piece
Pieces == Chunks(FileLen)
VideoCell(j, p) ==
  IF p = 0 THEN Cell("size")
  ELSE IF p <= PieceEnd(j * Piece) - j * Piece THEN Block(j * Piece + p)
  ELSE Cell("crlf")
Video == [i \in 1 .. FileLen + 2 * Pieces |->
            VideoCell((i - 1) \div (Piece + 2), (i - 1) % (Piece + 2))]

Meant(k) ==
  CASE k = "error" -> Header(k)
    [] k = "video" -> Header(k) \o Append(Video, Cell("last"))
    [] OTHER -> Header(k) \o Blocks(0, FileLen)

(* Whatever the peer's pace, what it receives of an answer with a           *)
(* Content-Length is a prefix of that answer: a slow peer may see it cut,   *)
(* never with a gap or a repetition (requests.c:165-174, 491-520).          *)
NoGaps == kind \in Kinds \ {"video"} => IsPrefix(got \o flight, Meant(kind))

(* The answer made of the first n blocks of the file, framed as the whole   *)
(* one is.                                                                  *)
Given(k, n) ==
  CASE k = "file" -> Header(k) \o Blocks(0, n)
    [] k = "video" ->
         Header(k) \o Append(SubSeq(Video, 1, n + 2 * Chunks(n)), Cell("last"))
    [] OTHER -> Meant(k)

(* An answer is closed short only because a call found too little room in   *)
(* the socket, the peer left, or the file gave out; and in the last case the*)
(* peer is sent all that the file gave, and of a video a well-formed stream *)
(* of whole chunks with its end (requests.c:359-389, 509-520).              *)
CutOnlyWhenFull ==
  pc = "closed" /\ ~full /\ ~gone =>
    /\ got \o flight = Given(kind, off)
    /\ kind \in {"file", "video"} /\ off < FileLen => failed

(* A peer that does not read cannot hold the server: every answer comes to  *)
(* its end, complete or not (requests.c:376-388, 511-520).                  *)
Finishes == <>(pc \in {"closed", "dead"})
=============================================================================
