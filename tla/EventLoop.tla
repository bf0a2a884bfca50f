----------------------------- MODULE EventLoop -----------------------------
(* The server's only thread (epoll_loop.c, client.c, requests.c             *)
(* write_response) over the request reader: it accepts a connection, reads  *)
(* its request to the end, answers it, closes it, and only then looks at    *)
(* the next one. new_client never enters the client in the table, and every *)
(* answer leaves want_close set, so no connection comes back to the loop.   *)
EXTENDS RequestReader

VARIABLES
  queue,   \* the connections waiting for accept, oldest first
  reply,   \* what the server understood of each request it answered
  prompt   \* history: the connections accepted with their whole request
           \* there, whose peers have not shut or left since

loop == <<queue, reply, prompt>>
vars == <<sockets, cur, pc, reader, parsed, loop>>

Understood == [known : BOOLEAN, body : Seq(Kinds)]
Down == {"dead", "astray"}

Init ==
  /\ request \in Loads
  /\ unsent = request
  /\ sock = [c \in Conn |-> <<>>]
  /\ peer = [c \in Conn |-> "absent"]
  /\ cur = None
  /\ pc = "wait"
  /\ FreshReader /\ NothingParsed
  /\ queue = <<>>
  /\ reply = [c \in Conn |-> None]
  /\ prompt = {}

Connect(c) ==
  /\ peer[c] = "absent" /\ pc \notin Down
  /\ peer' = [peer EXCEPT ![c] = "open"]
  /\ queue' = Append(queue, c)
  /\ UNCHANGED <<request, unsent, sock, cur, pc, reader, parsed, reply, prompt>>

PeerSendsOn(c) == pc \notin Down /\ PeerSends(c) /\ UNCHANGED loop

PeerStops(c) == /\ pc \notin Down
                /\ PeerShuts(c) \/ PeerLeaves(c)
                /\ prompt' = prompt \ {c}
                /\ UNCHANGED <<queue, reply>>

(* epoll_wait reports the listening socket; the connection accepted is read *)
(* at once.                                                                 *)
Accept ==
  /\ pc = "wait" /\ queue # <<>>
  /\ cur' = Head(queue)
  /\ queue' = Tail(queue)
  /\ pc' = "scan"
  /\ prompt' = IF unsent[cur'] = <<>> /\ peer[cur'] = "open"
               THEN prompt \union {cur'} ELSE prompt
  /\ UNCHANGED <<sockets, reader, parsed, reply>>

ReadStep == Read /\ UNCHANGED loop

(* Nothing is modelled of the server after this.                            *)
Stop(how) == /\ pc' = how
             /\ cur' = None
             /\ ReaderEnds /\ ClientEnds
             /\ UNCHANGED <<sockets, loop>>

(* The server process ends, and its connections with it.                    *)
Die == Stop("dead")

(* What a write past the end of the reader does is undefined.               *)
Overrun == Overruns /\ Stop("astray")

HeaderFails == HeaderOverflows /\ Die

(* A body that is not all there yet: read_body returns -1, client_destroy   *)
(* unmaps the client and the loop reads its fd.                             *)
BodyFails ==
  /\ pc = "more" /\ sock[cur] = <<>>
  /\ Die

(* Where the pool moved the header map's pointers lead into its old,        *)
(* unmapped place; where the key was NULL read_body returns -1.             *)
PoolFails ==
  /\ pc = "respond" /\ BodyOverflows
  /\ Die

(* Writing to a peer that has gone may raise SIGPIPE.                       *)
BrokenPipe ==
  /\ pc = "respond" /\ peer[cur] = "gone"
  /\ Die

Respond ==
  /\ pc = "respond" /\ ~BodyOverflows
  /\ reply' = [reply EXCEPT ![cur] = [known |-> known, body |-> BodyFound]]
  /\ peer' = [peer EXCEPT ![cur] = "done"]
  /\ cur' = None
  /\ pc' = "wait"
  /\ sock' = [sock EXCEPT ![cur] = <<>>]
  /\ ClientEnds
  /\ UNCHANGED <<request, unsent, reader, queue, prompt>>

Serve == \/ Accept \/ ReadStep \/ Respond
         \/ Overrun \/ HeaderFails \/ BodyFails \/ PoolFails \/ BrokenPipe

Next == Serve \/ \E c \in Conn : Connect(c) \/ PeerSendsOn(c) \/ PeerStops(c)

Spec == Init /\ [][Next]_vars

(* The loop never stops of itself; nothing is asked of the peers.           *)
LoopSpec == Spec /\ WF_vars(Serve)
(* Every peer that connects goes on sending until its request is sent.      *)
FairSpec == LoopSpec /\ \A c \in Conn : WF_vars(PeerSendsOn(c))

----------------------------------------------------------------------------
TypeOK ==
  /\ request \in Loads
  /\ \A c \in Conn : /\ unsent[c] \in Seq(Kinds) /\ sock[c] \in Seq(Kinds)
                     /\ reply[c] \in Understood \union {None}
  /\ peer \in [Conn -> {"absent", "open", "shut", "gone", "done"}]
  /\ cur \in Conn \union {None}
  /\ pc \in {"wait", "scan", "fill", "again", "body", "more", "respond"} \union Down
  /\ DOMAIN buf = Room /\ wpos \in 0 .. BufLen /\ rpos \in 0 .. wpos
  /\ pos \in 0 .. BufLen /\ clen \in Lengths \union {0} /\ body \in Seq(Kinds)
  /\ names \subseteq Names /\ entries \in 0 .. MapRoom /\ known \in BOOLEAN
  /\ used \in 0 .. PoolRoom /\ queue \in Seq(Conn) /\ prompt \subseteq Conn

(* A request as HTTP has it: the request line, header lines, a blank line,  *)
(* and a body only if one of the headers is its Content-Length. No header   *)
(* is named as the server's own two entries.                                *)
IsRequest(r) ==
  /\ r[1] = "req"
  /\ \E e \in 2 .. Len(r) :
       /\ r[e] = "end" /\ \A i \in e + 1 .. Len(r) : r[i] = "data"
       /\ \A i \in 2 .. e - 1 : r[i] \in {"name", "num"} \union Fields
       /\ \A i \in 2 .. e : r[i] = "num" <=> r[i - 1] = "name"
       /\ e = Len(r) \/ \E i \in 2 .. e : r[i] = "name"

(* The rooms a request has to fit in: its header section in the reader's    *)
(* buffer, its lines, its body and the keys REQUEST and BODY in the pool,   *)
(* and, for the body, its different names with those two in the map.        *)
HeadLen(r) == IF Ends(r) = {} THEN Len(r) ELSE Min(Ends(r))
LinesLen(r) == IF Ends(r) = {} THEN Len(r) ELSE Min(Ends(r)) - 1
PoolNeed(r) == KeyCost + LinesLen(r) + (IF Body(r) = <<>> THEN 0 ELSE Len(Body(r)) + KeyCost)
Fits(r) == HeadLen(r) <= BufLen /\ PoolNeed(r) <= PoolRoom
NamesOf(r) == {r[i] : i \in DOMAIN r} \intersect Names
BodyFits(r) == Cardinality(NamesOf(r)) + 2 <= MapRoom

(* A request whose every byte had arrived before the server accepted its    *)
(* connection, from a peer that leaves its side open until the answer, is   *)
(* understood as it was sent if it fits the buffer and the pool: its request*)
(* line is found and its body is the one its Content-Length announces, or   *)
(* none where the header map has no entry left for it (requests.c:62-101,   *)
(* 246-276, hashmap.c:39).                                                  *)
PromptUnderstood ==
  \A c \in prompt :
    (reply[c] # None /\ IsRequest(request[c]) /\ Fits(request[c])) =>
      reply[c] = [known |-> TRUE,
                  body |-> IF BodyFits(request[c]) THEN Body(request[c]) ELSE <<>>]

(* The server ends, or writes over its own stack, only over a request that  *)
(* had not all arrived when it was accepted, over a peer that shut or left  *)
(* before its answer, or over a header section longer than the buffer or    *)
(* lines and a body that do not fit the string pool (epoll_loop.c:90-97,    *)
(* io.c:149-150, requests.c:69-73, 96-98, 215-222).                         *)
DeathCauses ==
  [][(pc \notin Down /\ pc' \in Down) =>
       cur \notin prompt \/ ~Fits(request[cur])]_vars

(* While the server is up, every peer that sent its whole request and waits *)
(* gets an answer, however long the other peers take over theirs: the loop  *)
(* multiplexes its connections (epoll_loop.c:62-117).                       *)
Waiting(c) == peer[c] = "open" /\ unsent[c] = <<>>
SentIsAnswered ==
  [](pc \notin Down) => \A c \in Conn : Waiting(c) ~> peer[c] # "open"
=============================================================================
