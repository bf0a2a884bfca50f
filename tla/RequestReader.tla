--------------------------- MODULE RequestReader ---------------------------
(* How the server reads one request (io.c readline_stream, requests.c       *)
(* read_incoming and read_body) from a non-blocking socket whose peer sends *)
(* in segments of its own choosing. A request is a sequence of cells: the   *)
(* request line "req", the name and the number of its Content-Length line,  *)
(* another header line, which is its name, the blank line "end", and "data",*)
(* a piece of a body or of a long line. A cell is atomic in a segment, and  *)
(* takes the same room in the reader's buffer and in the string pool.       *)
EXTENDS Naturals, Sequences, FiniteSets, SequencesExt, FiniteSetsExt

CONSTANTS
  Conn,       \* the connections peers may open
  Loads,      \* the request of each connection, in the loads to explore:
              \* functions from Conn to sequences of cell kinds
  BufLen,     \* LINE_BUF_SIZE, and the chunk length read_incoming asks for
  MapRoom,    \* MAX_ENTRIES of the header map
  PoolRoom,   \* the capacity of the client's string pool
  KeyCost,    \* what a key of the server's own takes of it
  Fields,     \* the names of headers the server makes nothing of
  None        \* no connection

(* The header map's names: Content-Length, the two the server puts itself,  *)
(* which a client may send as well, and the others.                         *)
Names == {"name", "BODY", "REQUEST"} \union Fields
Kinds == {"req", "num", "end", "data"} \union Names
Room == 0 .. BufLen - 1

ASSUME RoomAssumption ==
  BufLen \in Nat \ {0} /\ MapRoom \in Nat \ {0} /\ None \notin Conn
ASSUME PoolAssumption == PoolRoom \in Nat /\ KeyCost \in 1..PoolRoom
ASSUME FieldsAssumption ==
  Fields \intersect {"req", "num", "end", "data", "name", "BODY", "REQUEST", "junk"} = {}
ASSUME LoadsAssumption ==
  \A l \in Loads : l \in [Conn -> Seq(Kinds)] /\ \A c \in Conn : l[c] # <<>>

VARIABLES
  request,  \* the request of each connection's peer
  unsent,   \* what the peer has not sent of it yet
  sock,     \* what the kernel holds for the server's next read
  peer,     \* "absent", "open", "shut" (it sends no more), "gone", or "done"
            \* once the server has closed the connection
  cur,      \* the connection being served
  pc,       \* where the server is; "dead" when its process has ended, "astray"
            \* when it has written over its own stack
  buf,      \* line_reader.buffer: cells with their kind and line end
  rpos,     \* line_reader.read_pos
  wpos,     \* line_reader.write_pos
  pos,      \* read_incoming's own pos
  names,    \* the names put in the header map
  entries,  \* its entries: names, and what was misread as a name
  known,    \* whether what REQUEST maps to is the request's first line
  used,     \* the part of the string pool the header lines have taken
  clen,     \* the Content-Length parsed, 0 when there is none
  body      \* what read_body has copied

sockets == <<request, unsent, sock, peer>>
reader == <<buf, rpos, wpos, pos>>
headers == <<names, entries, known, used>>
parsed == <<headers, clen, body>>

(* Every line of a request ends in its last cell.                           *)
Fresh(kind) == [kind |-> kind,
                eol  |-> IF kind \in {"name", "data"} THEN "none" ELSE "newline"]
(* What an uninitialised cell of the reader, a local variable, holds.       *)
Junk == [kind |-> "junk", eol |-> "none"]

(* What follows the blank line.                                             *)
Ends(r) == {i \in DOMAIN r : r[i] = "end"}
Body(r) == IF Ends(r) = {} THEN <<>> ELSE SubSeq(r, Min(Ends(r)) + 1, Len(r))
Lengths == {Len(Body(l[c])) : l \in Loads, c \in Conn}

(* The blank line is a line of its own.                                     *)
ASSUME BlankLines ==
  \A l \in Loads : \A c \in Conn :
    LET e == Min(Ends(l[c]))
    IN  Ends(l[c]) # {} => e = 1 \/ l[c][e - 1] \notin {"name", "data"}

(* The reader and pos are local variables of read_incoming, the header map  *)
(* and the body live as long as the client.                                 *)
FreshReader == /\ buf = [i \in Room |-> Junk]
               /\ rpos = 0 /\ wpos = 0 /\ pos = 0
NothingParsed == /\ names = {} /\ entries = 0 /\ known = FALSE /\ used = 0
                 /\ clen = 0 /\ body = <<>>
ReaderEnds == /\ buf' = [i \in Room |-> Junk]
              /\ rpos' = 0 /\ wpos' = 0 /\ pos' = 0
ClientEnds == /\ names' = {} /\ entries' = 0 /\ known' = FALSE /\ used' = 0
              /\ clen' = 0 /\ body' = <<>>

----------------------------------------------------------------------------
(* The peer of a connection, and the kernel under both.                     *)

PeerSends(c) ==
  /\ peer[c] = "open"
  /\ \E k \in 1 .. Len(unsent[c]) :
       /\ sock' = [sock EXCEPT ![c] = @ \o SubSeq(unsent[c], 1, k)]
       /\ unsent' = [unsent EXCEPT ![c] = SubSeq(@, k + 1, Len(@))]
  /\ UNCHANGED <<request, peer, cur, pc, reader, parsed>>

PeerShuts(c) ==
  /\ peer[c] = "open"
  /\ peer' = [peer EXCEPT ![c] = "shut"]
  /\ UNCHANGED <<request, unsent, sock, cur, pc, reader, parsed>>

PeerLeaves(c) ==
  /\ peer[c] \in {"open", "shut"}
  /\ peer' = [peer EXCEPT ![c] = "gone"]
  /\ UNCHANGED <<request, unsent, sock, cur, pc, reader, parsed>>

----------------------------------------------------------------------------
(* The lines already in the buffer. A line's newline becomes a NUL, but its *)
(* text is taken from pos, which compaction does not move.                  *)

Newlines == {i \in rpos .. wpos - 1 : buf[i].eol = "newline"}
LineEnd == Min(Newlines)
Terminated == [buf EXCEPT ![LineEnd].eol = "nul"]

(* A line that is not blank.                                                *)
Line == /\ pc = "scan" /\ Newlines # {}
        /\ buf[LineEnd].kind # "end" \/ LineEnd > rpos

(* The text at p: the cells up to the first NUL, or up to what follows the  *)
(* buffer in memory.                                                        *)
TextAt(b, p) ==
  LET nuls == {i \in p .. BufLen - 1 : b[i].eol = "nul"}
      cells(last) == [j \in 1 .. last - p + 1 |-> b[p + j - 1].kind]
  IN  IF nuls = {} THEN cells(BufLen - 1) \o <<"junk">> ELSE cells(Min(nuls))

(* What a header line takes of the string pool; junk may hold a NUL.        *)
Costs(text) == IF \E j \in DOMAIN text : text[j] = "junk" THEN 1 .. Len(text) ELSE {Len(text)}

(* The names a header line with this text may be put under; a text that is  *)
(* no header line has a name of no use.                                     *)
NamesRead(text) == IF text[1] = "junk" THEN Names ELSE {text[1]} \intersect Names
Second(text) == IF Len(text) > 1 THEN text[2] ELSE "nothing"
Misread(text) == text[1] \notin Names \/ (text[1] = "name" /\ Second(text) # "num")

(* The values of a Content-Length line: uninitialised cells may read as     *)
(* anything.                                                                *)
LengthsRead(text) ==
  CASE "junk" \in {text[1], Second(text)} -> Lengths \union {0}
    [] text[1] = "name" /\ Second(text) = "num" -> {Len(Body(request[cur]))}
    [] OTHER -> {0}

(* hashmap_put: a name that is there gets the new value, and a full map     *)
(* drops a new name without a word.                                         *)
Kept(name) == name \in names \/ entries < MapRoom
Put(name) ==
  /\ names' = IF Kept(name) THEN names \union {name} ELSE names
  /\ entries' = IF Kept(name) /\ name \notin names THEN entries + 1 ELSE entries

PutHeader(text) ==
  \/ \E name \in NamesRead(text) :
       /\ Put(name)
       /\ clen' \in IF name = "name" /\ Kept(name) THEN LengthsRead(text) ELSE {clen}
       /\ known' = (known /\ name # "REQUEST")
  \/ /\ Misread(text)
     /\ entries' \in {entries, entries + 1} /\ entries' <= MapRoom
     /\ UNCHANGED <<names, clen, known>>

(* The pool gives NULL for what does not fit; a request line is put as NULL.*)
RequestLine ==
  /\ Line /\ pos = 0
  /\ buf' = Terminated
  /\ LET cost == KeyCost + Len(TextAt(buf', 0))
     IN  /\ known' = (cost <= PoolRoom)
         /\ used' = IF cost <= PoolRoom THEN cost ELSE KeyCost
  /\ Put("REQUEST")
  /\ rpos' = LineEnd + 1
  /\ pos' = LineEnd + 1
  /\ UNCHANGED <<sockets, cur, pc, wpos, clen, body>>

HeaderLineFromFront ==  \* mutant: the text taken from the buffer's front, not from pos
  /\ Line /\ pos > 0
  /\ buf' = Terminated
  /\ LET text == TextAt(buf', 0)
     IN  /\ PutHeader(text)
         /\ \E cost \in Costs(text) : used + cost <= PoolRoom /\ used' = used + cost
  /\ rpos' = LineEnd + 1
  /\ pos' = LineEnd + 1
  /\ UNCHANGED <<sockets, cur, pc, wpos, body>>

HeaderLine ==
  /\ Line /\ pos > 0
  /\ buf' = Terminated
  /\ LET text == TextAt(buf', pos)
     IN  /\ PutHeader(text)
         /\ \E cost \in Costs(text) : used + cost <= PoolRoom /\ used' = used + cost
  /\ rpos' = LineEnd + 1
  /\ pos' = LineEnd + 1
  /\ UNCHANGED <<sockets, cur, pc, wpos, body>>

(* A header line the pool has no room for is copied through a null pointer. *)
HeaderOverflows ==
  /\ Line /\ pos > 0
  /\ \E cost \in Costs(TextAt(Terminated, pos)) : used + cost > PoolRoom

BlankLine ==
  /\ pc = "scan" /\ Newlines # {}
  /\ buf[LineEnd].kind = "end" /\ LineEnd = rpos
  /\ buf' = Terminated
  /\ rpos' = LineEnd + 1
  /\ pc' = "body"
  /\ UNCHANGED <<sockets, cur, wpos, pos, parsed>>

CompactKeepsStart ==  \* mutant: read_pos not reset
  /\ pc = "scan" /\ Newlines = {}
  /\ buf' = [i \in Room |-> IF i < wpos - rpos THEN buf[rpos + i] ELSE buf[i]]
  /\ wpos' = wpos - rpos
  /\ pc' = IF wpos' >= BufLen THEN "body" ELSE "fill"
  /\ UNCHANGED <<sockets, cur, rpos, pos, parsed>>

(* No whole line: what is left of the buffer moves to its front.            *)
CompactKeepsEnd ==  \* mutant: write_pos not moved with the bytes
  /\ pc = "scan" /\ Newlines = {}
  /\ buf' = [i \in Room |-> IF i < wpos - rpos THEN buf[rpos + i] ELSE buf[i]]
  /\ rpos' = 0
  /\ pc' = IF wpos >= BufLen THEN "body" ELSE "fill"
  /\ UNCHANGED <<sockets, cur, wpos, pos, parsed>>

Compact ==
  /\ pc = "scan" /\ Newlines = {}
  /\ buf' = [i \in Room |-> IF i < wpos - rpos THEN buf[rpos + i] ELSE buf[i]]
  /\ rpos' = 0
  /\ wpos' = wpos - rpos
  /\ pc' = IF wpos' >= BufLen THEN "body" ELSE "fill"
  /\ UNCHANGED <<sockets, cur, pos, parsed>>

----------------------------------------------------------------------------
(* The reads. A read of nothing is end of file when the peer sends no more, *)
(* and EAGAIN otherwise.                                                    *)

Ended == sock[cur] = <<>> /\ peer[cur] \in {"shut", "gone"}
Empty == sock[cur] = <<>> /\ peer[cur] = "open"

Receive(n) ==
  /\ buf' = [i \in Room |-> IF i \in wpos .. wpos + n - 1
                            THEN Fresh(sock[cur][i - wpos + 1]) ELSE buf[i]]
  /\ wpos' = wpos + n
  /\ sock' = [sock EXCEPT ![cur] = SubSeq(@, n + 1, Len(@))]

(* The first read asks for BufLen cells, whatever the buffer still holds;   *)
(* less than that is a short read, after which the code reads again.        *)
Chunk == Min({BufLen, Len(sock[cur])})
ReadChunk ==
  /\ pc = "fill" /\ sock[cur] # <<>> /\ wpos + Chunk <= BufLen
  /\ Receive(Chunk)
  /\ pc' = IF Chunk < BufLen THEN "again" ELSE "scan"
  /\ UNCHANGED <<request, unsent, peer, cur, rpos, pos, parsed>>

ReadEndsSpins ==  \* mutant: end of file taken for EAGAIN
  /\ pc = "fill" /\ Ended
  /\ pc' = "scan"
  /\ UNCHANGED <<sockets, cur, reader, parsed>>

ReadEnds ==
  /\ pc = "fill" /\ Ended
  /\ pc' = "body"
  /\ UNCHANGED <<sockets, cur, reader, parsed>>

(* The cells that came do not fit behind those that are left: they go over  *)
(* read_pos, write_pos and what follows them.                               *)
Overruns == pc = "fill" /\ wpos + Chunk > BufLen

(* EAGAIN: the loop spins until the peer sends.                             *)
ReadSpins ==
  /\ pc = "fill" /\ Empty
  /\ pc' = "scan"
  /\ UNCHANGED <<sockets, cur, reader, parsed>>

(* The second read. Data, end of file and a full buffer all make it return  *)
(* -1, which ends the header section; EAGAIN is what goes on.               *)
ReadAgain ==
  /\ pc = "again" /\ (sock[cur] # <<>> \/ wpos = BufLen)
  /\ Receive(Min({BufLen - wpos, Len(sock[cur])}))
  /\ pc' = "body"
  /\ UNCHANGED <<request, unsent, peer, cur, rpos, pos, parsed>>

AgainEnds ==
  /\ pc = "again" /\ Ended
  /\ pc' = "body"
  /\ UNCHANGED <<sockets, cur, reader, parsed>>

AgainDry ==
  /\ pc = "again" /\ Empty /\ wpos < BufLen
  /\ pc' = "scan"
  /\ UNCHANGED <<sockets, cur, reader, parsed>>

----------------------------------------------------------------------------
(* read_body: what the buffer still holds, then reads until it has          *)
(* Content-Length cells.                                                    *)

Buffered(n) == [j \in 1 .. n |-> buf[rpos + j - 1].kind]

ReadBodyUnbuffered ==  \* mutant: what the reader had buffered is forgotten
  /\ pc = "body"
  /\ body' = <<>>
  /\ pc' = IF clen = 0 THEN "respond" ELSE "more"
  /\ ReaderEnds
  /\ UNCHANGED <<sockets, cur, headers, clen>>

ReadBody ==
  /\ pc = "body"
  /\ body' = Buffered(Min({wpos - rpos, clen}))
  /\ pc' = IF Len(body') = clen THEN "respond" ELSE "more"
  /\ ReaderEnds
  /\ UNCHANGED <<sockets, cur, headers, clen>>

ReadMore ==
  /\ pc = "more" /\ sock[cur] # <<>>
  /\ LET n == Min({clen - Len(body), Len(sock[cur])})
     IN  /\ body' = body \o SubSeq(sock[cur], 1, n)
         /\ sock' = [sock EXCEPT ![cur] = SubSeq(@, n + 1, Len(@))]
  /\ pc' = IF Len(body') = clen THEN "respond" ELSE "more"
  /\ UNCHANGED <<request, unsent, peer, cur, reader, headers, clen>>

(* What handle_post finds under BODY, which is put last: the body, or a     *)
(* header of that name.                                                     *)
BodyFound == CASE clen > 0 /\ Kept("BODY") -> body
               [] clen = 0 /\ "BODY" \in names -> <<"BODY">>
               [] OTHER -> <<>>

(* A body that leaves no room for the pool's end or for the key BODY: the   *)
(* pool moves, or the key is NULL.                                          *)
BodyOverflows == clen > 0 /\ used + clen + KeyCost > PoolRoom

Read == \/ RequestLine \/ HeaderLine \/ BlankLine \/ Compact
        \/ ReadChunk \/ ReadEnds \/ ReadSpins
        \/ ReadAgain \/ AgainEnds \/ AgainDry
        \/ ReadBody \/ ReadMore

(* The bytes of the request the server has not consumed are, in their order,*)
(* those in the buffer, those in the socket and those not sent: compaction  *)
(* and short reads lose, repeat or reorder nothing (io.c:134-141, 163-171). *)
StreamIntact ==
  pc \in {"scan", "fill", "again", "body"} =>
    IsSuffix(Buffered(wpos - rpos) \o sock[cur] \o unsent[cur], request[cur])
=============================================================================
