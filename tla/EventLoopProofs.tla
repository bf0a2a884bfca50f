-------------------------- MODULE EventLoopProofs --------------------------
(***************************************************************************)
(* Proofs about EventLoop and RequestReader, for all connections, requests *)
(* of any length and segmentations: the reader keeps the byte stream, a    *)
(* request that was there when its connection was accepted and fits the    *)
(* reader's buffer and the string pool is understood, and the server does  *)
(* not die over it.  That answers come at all needs fairness and stays     *)
(* with the runs.                                                          *)
(***************************************************************************)
EXTENDS EventLoop, WellFoundedInduction, FiniteSetTheorems, TLAPS

-----------------------------------------------------------------------------
(* The inductive invariant: the stream *)

Cell == [kind : Kinds \cup {"junk"}, eol : {"none", "newline", "nul"}]

\* The cells of c's request the server has read.
Taken(c) == Len(request[c]) - Len(unsent[c]) - Len(sock[c])
Reading == pc \in {"scan", "fill", "again", "body"}

HeaderTypes ==
  /\ clen \in Lengths \cup {0} /\ names \subseteq Names /\ entries \in 0..MapRoom
  /\ known \in BOOLEAN /\ used \in 0..PoolRoom

Types ==
  /\ request \in Loads /\ unsent \in [Conn -> Seq(Kinds)] /\ sock \in [Conn -> Seq(Kinds)]
  /\ peer \in [Conn -> {"absent", "open", "shut", "gone", "done"}]
  /\ cur \in Conn \cup {None}
  /\ pc \in {"wait", "scan", "fill", "again", "body", "more", "respond", "dead", "astray"}
  /\ buf \in [Room -> Cell] /\ wpos \in 0..BufLen /\ rpos \in 0..wpos /\ pos \in 0..BufLen
  /\ body \in Seq(Kinds) /\ HeaderTypes
  /\ queue \in Seq(Conn) /\ reply \in [Conn -> Understood \cup {None}] /\ prompt \subseteq Conn

\* What is unsent is the end of the request, what is in the socket comes
\* before it.
Streams ==
  \A c \in Conn :
    /\ Taken(c) >= 0
    /\ \A j \in 1..Len(unsent[c]) : unsent[c][j] = request[c][Taken(c) + Len(sock[c]) + j]
    /\ \A j \in 1..Len(sock[c]) : sock[c][j] = request[c][Taken(c) + j]

\* Nothing is read, answered or noted as prompt before the accept, and no
\* connection is accepted twice.
NotYet(c) == Taken(c) = 0 /\ c # cur /\ reply[c] = None /\ c \notin prompt
Connections ==
  /\ \A c \in Conn : peer[c] = "absent" => NotYet(c)
  /\ \A i \in 1..Len(queue) : peer[queue[i]] # "absent" /\ NotYet(queue[i])
  /\ \A i, j \in 1..Len(queue) : queue[i] = queue[j] => i = j
  /\ cur = None <=> pc \in {"wait", "dead", "astray"}
  /\ cur # None => reply[cur] = None

\* The buffer holds the cells before those in the socket.
Held ==
  /\ Reading => /\ wpos - rpos <= Taken(cur)
                /\ \A i \in rpos..wpos - 1 : buf[i].kind = request[cur][Taken(cur) - wpos + i + 1]
  /\ pc = "fill" => rpos = 0
  /\ ~Reading => wpos = 0 /\ pos = 0

\* The client's parse state is new at an accept, and until a first line.
Parsed ==
  /\ pc = "wait" => NothingParsed
  /\ Reading => body = <<>> /\ (pos = 0 => NothingParsed)
  /\ pc \in {"more", "respond"} => Len(body) <= clen

StreamIInv == Types /\ Streams /\ Connections /\ Held /\ Parsed

-----------------------------------------------------------------------------
(* The inductive invariant: a request that is there *)

\* What the first read takes of r.
Got(r) == IF Len(r) <= BufLen THEN Len(r) ELSE BufLen

\* Its one line after the other is taken from the buffer; n cells of r are.
FreshFrom(r, n) == \A i \in n..Got(r) - 1 : buf[i] = Fresh(r[i + 1])
NamesTo(r, n) == {r[i] : i \in 1..n} \cap Names
Counted(r, n) ==
  /\ known /\ "REQUEST" \in names /\ names \subseteq {"REQUEST"} \cup NamesTo(r, n)
  /\ IsFiniteSet(NamesTo(r, n)) /\ entries = Cardinality(names)
  /\ entries < MapRoom => names = {"REQUEST"} \cup NamesTo(r, n)
  /\ "name" \in names => clen = Len(Body(r))
BodyKept == clen > 0 => used + clen + KeyCost <= PoolRoom

Untouched(r) ==
  pc \in {"scan", "fill"} /\ Taken(cur) = 0 /\ wpos = 0 /\ pos = 0

InLines(r) ==
  /\ pc \in {"scan", "again"} /\ (pc = "again" => wpos < BufLen)
  /\ Taken(cur) = Got(r) /\ wpos = Got(r) /\ pos = rpos /\ FreshFrom(r, rpos)
  /\ Ends(r) # {} => rpos < Min(Ends(r))
  /\ rpos > 0 => r[rpos] \notin {"name", "data"}
  /\ used <= KeyCost + rpos
  /\ rpos > 0 /\ IsRequest(r) => Counted(r, rpos)

\* No newline is left, and none will come.
NoLine(r) ==
  /\ pc \in {"scan", "fill", "body"} /\ Taken(cur) = Len(r) /\ Ends(r) = {}
  /\ \A i \in rpos..wpos - 1 : buf[i].eol # "newline"

AtBody(r) ==
  /\ pc = "body" /\ Ends(r) # {} /\ rpos = Min(Ends(r)) /\ wpos = Got(r) /\ Taken(cur) = Got(r)
  /\ BodyKept /\ (IsRequest(r) => Counted(r, rpos))

\* What the first read did not take of the body is in the socket.
InBody(r) ==
  /\ pc = "more" /\ Ends(r) # {} /\ Len(body) < clen /\ Taken(cur) = Min(Ends(r)) + Len(body)
  /\ \A j \in 1..Len(body) : body[j] = Body(r)[j]
  /\ BodyKept /\ (IsRequest(r) => Counted(r, Min(Ends(r))))

Understands(r) ==
  /\ pc = "respond" /\ BodyKept /\ (clen > 0 => body = Body(r))
  /\ IsRequest(r) => Counted(r, Min(Ends(r)))

Where(r) == Untouched(r) \/ InLines(r) \/ NoLine(r) \/ AtBody(r) \/ InBody(r) \/ Understands(r)

PromptIInv ==
  (cur \in prompt /\ Fits(request[cur])) =>
    /\ unsent[cur] = <<>> /\ peer[cur] = "open" /\ clen \in {0, Len(Body(request[cur]))}
    /\ Where(request[cur])

-----------------------------------------------------------------------------
(* Sets of numbers, and sequences *)

\* A set of numbers has a least one.
LEMMA MinOf ==
  ASSUME NEW S \in SUBSET Nat, S # {}
  PROVE  Min(S) \in S /\ \A j \in S : Min(S) <= j
<1>1. PICK i \in S : \A j \in S : <<j, i>> \notin OpToRel(<, Nat)
  BY NatLessThanWellFounded, WFMin
<1>2. \A j \in S : ~(j < i)
  BY <1>1 DEF OpToRel
<1>3. \A j \in S : i <= j
  BY <1>2
<1>. QED BY <1>3 DEF Min

\* Which of two numbers is the least.
LEMMA MinPair ==
  ASSUME NEW m \in Nat, NEW n \in Nat
  PROVE  Min({m, n}) = IF m <= n THEN m ELSE n
<1>1. {m, n} \in SUBSET Nat /\ {m, n} # {}
  OBVIOUS
<1>2. Min({m, n}) \in {m, n} /\ \A j \in {m, n} : Min({m, n}) <= j
  BY <1>1, MinOf
<1>. QED BY <1>2

\* Sequences that agree from their ends on.
LEMMA SuffixByCells ==
  ASSUME NEW S, NEW s \in Seq(S), NEW t \in Seq(S), Len(s) <= Len(t),
         \A i \in 1..Len(s) : s[i] = t[Len(t) - Len(s) + i]
  PROVE  IsSuffix(s, t)
<1> DEFINE u == Reverse(s)
           v == Reverse(t)
<1>1. /\ u \in Seq(S) /\ Len(u) = Len(s) /\ \A i \in 1..Len(s) : u[i] = s[Len(s) - i + 1]
      /\ v \in Seq(S) /\ Len(v) = Len(t) /\ \A i \in 1..Len(t) : v[i] = t[Len(t) - i + 1]
  BY DEF Reverse
<1> HIDE DEF u, v
<1>2. Len(s) \in Nat /\ Len(t) \in Nat
  OBVIOUS
<1>3. \A i \in 1..Len(s) : u[i] = v[i]
  <2> TAKE i \in 1..Len(s)
  <2>1. Len(s) - i + 1 \in 1..Len(s) /\ i \in 1..Len(t)
    BY <1>2
  <2>2. s[Len(s) - i + 1] = t[Len(t) - Len(s) + (Len(s) - i + 1)]
    BY <2>1
  <2>3. Len(t) - Len(s) + (Len(s) - i + 1) = Len(t) - i + 1
    BY <1>2, <2>1
  <2>. QED BY <1>1, <2>1, <2>2, <2>3
<1>4. SubSeq(u, 1, Len(u)) = SubSeq(v, 1, Len(u))
  BY <1>1, <1>2, <1>3
<1>5. IsPrefix(u, v)
  BY <1>1, <1>4 DEF IsPrefix
<1>. QED BY <1>5 DEF IsSuffix, u, v

-----------------------------------------------------------------------------
(* Requests *)

\* A request has at least one cell.
LEMMA RequestType ==
  ASSUME Types, NEW c \in Conn
  PROVE  request[c] \in Seq(Kinds) /\ Len(request[c]) \in Nat \ {0} /\ BufLen \in Nat \ {0}
<1>1. request[c] \in Seq(Kinds) /\ request[c] # <<>>
  BY LoadsAssumption DEF Types
<1>. QED BY <1>1, RoomAssumption

\* The body is what follows the first blank line, if there is one.
LEMMA BodyOf ==
  ASSUME NEW r \in Seq(Kinds)
  PROVE  /\ Body(r) \in Seq(Kinds) /\ Len(Body(r)) \in Nat
         /\ Ends(r) = {} => Body(r) = <<>>
         /\ Ends(r) # {} =>
              /\ Min(Ends(r)) \in 1..Len(r) /\ r[Min(Ends(r))] = "end"
              /\ \A i \in 1..Len(r) : r[i] = "end" => Min(Ends(r)) <= i
              /\ Len(Body(r)) = Len(r) - Min(Ends(r))
              /\ \A j \in 1..Len(Body(r)) : Body(r)[j] = r[Min(Ends(r)) + j]
<1>1. CASE Ends(r) = {}
  BY <1>1 DEF Body
<1>2. CASE Ends(r) # {}
  <2> DEFINE e == Min(Ends(r))
  <2>1. Ends(r) \in SUBSET Nat
    BY DEF Ends
  <2>2. e \in Ends(r) /\ \A i \in Ends(r) : e <= i
    BY <1>2, <2>1, MinOf
  <2> HIDE DEF e
  <2>3. e \in 1..Len(r) /\ r[e] = "end" /\ \A i \in 1..Len(r) : r[i] = "end" => e <= i
    BY <2>2 DEF Ends
  <2>4. SubSeq(r, e + 1, Len(r)) \in Seq(Kinds) /\ Len(SubSeq(r, e + 1, Len(r))) = Len(r) - e
        /\ \A j \in 1..Len(r) - e : SubSeq(r, e + 1, Len(r))[j] = r[e + j]
    BY <2>3
  <2>5. Body(r) = SubSeq(r, e + 1, Len(r))
    BY <1>2 DEF Body, e
  <2>. QED BY <1>2, <2>3, <2>4, <2>5 DEF e
<1>. QED BY <1>1, <1>2

\* What a Content-Length may say.
LEMMA LengthsAreNumbers ==
  /\ Lengths \subseteq Nat
  /\ Types => clen \in Nat /\ \A c \in Conn : Len(Body(request[c])) \in Lengths
<1>1. \A l \in Loads : \A c \in Conn : Len(Body(l[c])) \in Nat
  BY LoadsAssumption, BodyOf
<1>2. Lengths \subseteq Nat
  BY <1>1 DEF Lengths
<1>3. ASSUME Types PROVE clen \in Nat /\ \A c \in Conn : Len(Body(request[c])) \in Lengths
  <2>1. request \in Loads /\ clen \in Lengths \cup {0}
    BY <1>3 DEF Types, HeaderTypes
  <2>2. ASSUME NEW c \in Conn PROVE Len(Body(request[c])) \in Lengths
    BY <2>1 DEF Lengths
  <2>. QED BY <1>2, <2>1, <2>2
<1>. QED BY <1>2, <1>3

\* In a request every blank line is the first.
LEMMA EndOfRequest ==
  ASSUME NEW r \in Seq(Kinds), IsRequest(r), Len(r) \in Nat \ {0}
  PROVE  LET e == Min(Ends(r))
         IN  /\ Ends(r) # {} /\ e \in 2..Len(r)
             /\ r[1] = "req" /\ \A i \in 2..e - 1 : r[i] \in {"name", "num"} \cup Fields
             /\ \A i \in e + 1..Len(r) : r[i] = "data"
             /\ \A i \in 2..e : r[i] = "num" <=> r[i - 1] = "name"
             /\ e = Len(r) \/ \E i \in 2..e : r[i] = "name"
<1>1. PICK e \in 2..Len(r) :
        /\ r[e] = "end" /\ \A i \in e + 1 .. Len(r) : r[i] = "data"
        /\ \A i \in 2 .. e - 1 : r[i] \in {"name", "num"} \cup Fields
        /\ \A i \in 2 .. e : r[i] = "num" <=> r[i - 1] = "name"
        /\ e = Len(r) \/ \E i \in 2 .. e : r[i] = "name"
  BY DEF IsRequest
<1>2. r[1] = "req"
  BY DEF IsRequest
<1>3. \A i \in 1..Len(r) : r[i] = "end" => i = e
  <2> TAKE i \in 1..Len(r)
  <2>1. i = 1 \/ i \in 2..e - 1 \/ i = e \/ i \in e + 1..Len(r)
    OBVIOUS
  <2>. QED BY <1>1, <1>2, <2>1, FieldsAssumption
<1>4. e \in Ends(r)
  BY <1>1 DEF Ends
<1>5. Min(Ends(r)) = e
  BY <1>3, <1>4, BodyOf
<1>. QED BY <1>1, <1>2, <1>4, <1>5

-----------------------------------------------------------------------------
(* Sockets *)

\* The two parts of a stream the server has not read.
LEMMA StreamParts ==
  ASSUME Types, NEW c \in Conn
  PROVE  /\ unsent[c] \in Seq(Kinds) /\ Len(unsent[c]) \in Nat
         /\ sock[c] \in Seq(Kinds) /\ Len(sock[c]) \in Nat /\ Taken(c) \in Int
<1>1. unsent[c] \in Seq(Kinds) /\ sock[c] \in Seq(Kinds)
  BY DEF Types
<1>. QED BY <1>1, RequestType DEF Taken

\* A read takes the first cells of the socket and leaves the stream as it was.
LEMMA SockDrops ==
  ASSUME Types, Streams, cur \in Conn, NEW n \in 0..Len(sock[cur]),
         sock' = [sock EXCEPT ![cur] = SubSeq(@, n + 1, Len(@))], UNCHANGED <<request, unsent>>
  PROVE  /\ sock' \in [Conn -> Seq(Kinds)] /\ Streams'
         /\ \A c \in Conn : Taken(c)' = IF c = cur THEN Taken(c) + n ELSE Taken(c)
         /\ \A j \in 1..n : sock[cur][j] = request[cur][Taken(cur) + j]
<1> DEFINE s == SubSeq(sock[cur], n + 1, Len(sock[cur]))
<1>1. sock[cur] \in Seq(Kinds) /\ Len(sock[cur]) \in Nat /\ sock \in [Conn -> Seq(Kinds)]
  BY DEF Types
<1>2. /\ s \in Seq(Kinds) /\ Len(s) = Len(sock[cur]) - n
      /\ \A j \in 1..Len(s) : s[j] = sock[cur][n + j]
  BY <1>1
<1>3. sock' = [sock EXCEPT ![cur] = s]
  OBVIOUS
<1> HIDE DEF s
<1>4. sock' \in [Conn -> Seq(Kinds)] /\ sock'[cur] = s /\ \A c \in Conn \ {cur} : sock'[c] = sock[c]
  BY <1>1, <1>2, <1>3
<1>5. \A c \in Conn : Taken(c)' = IF c = cur THEN Taken(c) + n ELSE Taken(c)
  <2> TAKE c \in Conn
  <2>1. Len(request[c]) \in Nat /\ Len(unsent[c]) \in Nat /\ Len(sock[c]) \in Nat
    BY RequestType, StreamParts
  <2>2. Taken(c)' = Len(request[c]) - Len(unsent[c]) - Len(sock'[c])
    BY DEF Taken
  <2>3. Len(sock'[c]) = IF c = cur THEN Len(sock[c]) - n ELSE Len(sock[c])
    BY <1>2, <1>4
  <2>4. Taken(c) = Len(request[c]) - Len(unsent[c]) - Len(sock[c])
    BY DEF Taken
  <2>5. CASE c = cur
    <3>1. n \in Nat /\ Len(sock'[c]) = Len(sock[c]) - n
      BY <1>1, <2>3, <2>5
    <3>2. \A i, j, k, m \in Int : i - j - (k - m) = i - j - k + m
      OBVIOUS
    <3>3. Len(request[c]) - Len(unsent[c]) - (Len(sock[c]) - n)
            = Len(request[c]) - Len(unsent[c]) - Len(sock[c]) + n
      BY <2>1, <3>1, <3>2
    <3>4. Taken(c)' = Taken(c) + n
      BY <2>2, <2>4, <3>1, <3>3, Zenon
    <3>. QED BY <2>5, <3>4
  <2>6. CASE c # cur
    BY <2>2, <2>3, <2>4, <2>6
  <2>. QED BY <2>5, <2>6
<1>6. \A j \in 1..Len(sock[cur]) : sock[cur][j] = request[cur][Taken(cur) + j]
  BY DEF Streams
<1>7. ASSUME NEW c \in Conn
      PROVE  /\ Taken(c)' >= 0
             /\ \A j \in 1..Len(unsent'[c]) : unsent'[c][j] = request'[c][Taken(c)' + Len(sock'[c]) + j]
             /\ \A j \in 1..Len(sock'[c]) : sock'[c][j] = request'[c][Taken(c)' + j]
  <2>1. /\ Taken(c) >= 0 /\ Taken(c) \in Int
        /\ \A j \in 1..Len(unsent[c]) : unsent[c][j] = request[c][Taken(c) + Len(sock[c]) + j]
        /\ \A j \in 1..Len(sock[c]) : sock[c][j] = request[c][Taken(c) + j]
    BY StreamParts DEF Streams
  <2>2. CASE c # cur
    <3>1. Taken(c)' = Taken(c) /\ sock'[c] = sock[c] /\ unsent' = unsent /\ request' = request
      BY <1>4, <1>5, <2>2
    <3>. QED BY <2>1, <3>1
  <2>3. CASE c = cur
    <3>1. Taken(c)' = Taken(c) + n /\ sock'[c] = s /\ unsent' = unsent /\ request' = request
      BY <1>4, <1>5, <2>3
    <3>2. Taken(c)' + Len(s) = Taken(c) + Len(sock[c])
      BY <1>1, <1>2, <2>1, <2>3, <3>1
    <3>3. \A j \in 1..Len(s) : s[j] = request[c][Taken(c)' + j]
      <4> TAKE j \in 1..Len(s)
      <4>1. n + j \in 1..Len(sock[c]) /\ s[j] = sock[c][n + j]
        BY <1>1, <1>2, <2>3
      <4>2. Taken(c) + (n + j) = Taken(c)' + j
        BY <1>1, <1>2, <2>1, <3>1
      <4>. QED BY <2>1, <4>1, <4>2
    <3>4. Taken(c)' >= 0
      BY <1>1, <2>1, <3>1
    <3>5. Len(sock'[c]) = Len(s)
      BY <3>1
    <3>. QED BY <2>1, <3>1, <3>2, <3>3, <3>4, <3>5
  <2>. QED BY <2>2, <2>3
<1>8. Streams'
  BY <1>7 DEF Streams
<1>. QED BY <1>1, <1>4, <1>5, <1>6, <1>8

\* What the peer sends leaves it as it was, too.
LEMMA PeerSendsKeeps ==
  ASSUME Types, Streams, NEW c \in Conn, PeerSends(c)
  PROVE  /\ sock' \in [Conn -> Seq(Kinds)] /\ unsent' \in [Conn -> Seq(Kinds)]
         /\ Streams' /\ \A d \in Conn : Taken(d)' = Taken(d)
<1>1. PICK k \in 1 .. Len(unsent[c]) :
        /\ sock' = [sock EXCEPT ![c] = @ \o SubSeq(unsent[c], 1, k)]
        /\ unsent' = [unsent EXCEPT ![c] = SubSeq(@, k + 1, Len(@))]
  BY DEF PeerSends
<1>2. request' = request
  BY DEF PeerSends
<1> DEFINE s == sock[c] \o SubSeq(unsent[c], 1, k)
           u == SubSeq(unsent[c], k + 1, Len(unsent[c]))
<1>3. /\ unsent[c] \in Seq(Kinds) /\ sock[c] \in Seq(Kinds)
      /\ sock \in [Conn -> Seq(Kinds)] /\ unsent \in [Conn -> Seq(Kinds)]
  BY DEF Types
<1>4. /\ SubSeq(unsent[c], 1, k) \in Seq(Kinds) /\ Len(SubSeq(unsent[c], 1, k)) = k
      /\ \A j \in 1..k : SubSeq(unsent[c], 1, k)[j] = unsent[c][j]
  BY <1>3
<1>5. /\ s \in Seq(Kinds) /\ Len(s) = Len(sock[c]) + k
      /\ \A j \in 1..Len(sock[c]) : s[j] = sock[c][j]
      /\ \A j \in Len(sock[c]) + 1..Len(s) : s[j] = unsent[c][j - Len(sock[c])]
  BY <1>3, <1>4
<1>6. /\ u \in Seq(Kinds) /\ Len(u) = Len(unsent[c]) - k
      /\ \A j \in 1..Len(u) : u[j] = unsent[c][k + j]
  BY <1>3
<1>7. sock' = [sock EXCEPT ![c] = s] /\ unsent' = [unsent EXCEPT ![c] = u]
  BY <1>1
<1> HIDE DEF s, u
<1>8. /\ sock' \in [Conn -> Seq(Kinds)] /\ unsent' \in [Conn -> Seq(Kinds)] /\ sock'[c] = s
      /\ unsent'[c] = u /\ \A d \in Conn \ {c} : sock'[d] = sock[d] /\ unsent'[d] = unsent[d]
  BY <1>3, <1>5, <1>6, <1>7
<1>9. \A d \in Conn : Taken(d)' = Taken(d)
  <2> TAKE d \in Conn
  <2>1. Len(unsent[c]) \in Nat /\ Len(sock[c]) \in Nat /\ Len(request[c]) \in Nat
    BY <1>3, RequestType
  <2>2. Taken(d)' = Len(request[d]) - Len(unsent'[d]) - Len(sock'[d])
    BY <1>2 DEF Taken
  <2>3. CASE d = c
    <3>1. Len(unsent'[d]) = Len(unsent[c]) - k /\ Len(sock'[d]) = Len(sock[c]) + k
      BY <1>5, <1>6, <1>8, <2>3
    <3>. QED BY <2>1, <2>2, <2>3, <3>1 DEF Taken
  <2>4. CASE d # c
    BY <1>8, <2>2, <2>4 DEF Taken
  <2>. QED BY <2>3, <2>4
<1>10. ASSUME NEW d \in Conn
       PROVE  /\ Taken(d)' >= 0
              /\ \A j \in 1..Len(unsent'[d]) : unsent'[d][j] = request'[d][Taken(d)' + Len(sock'[d]) + j]
              /\ \A j \in 1..Len(sock'[d]) : sock'[d][j] = request'[d][Taken(d)' + j]
  <2>1. /\ Taken(d) >= 0 /\ Taken(d) \in Int
        /\ \A j \in 1..Len(unsent[d]) : unsent[d][j] = request[d][Taken(d) + Len(sock[d]) + j]
        /\ \A j \in 1..Len(sock[d]) : sock[d][j] = request[d][Taken(d) + j]
    BY StreamParts DEF Streams
  <2>2. CASE d # c
    <3>1. sock'[d] = sock[d] /\ unsent'[d] = unsent[d] /\ Taken(d)' = Taken(d)
      BY <1>8, <1>9, <2>2
    <3>. QED BY <1>2, <2>1, <3>1
  <2>3. CASE d = c
    <3>1. Len(unsent[c]) \in Nat /\ Len(sock[c]) \in Nat /\ Taken(c)' = Taken(c)
      BY <1>3, <1>9
    <3>2. \A j \in 1..Len(u) : u[j] = request[c][Taken(c) + Len(s) + j]
      <4> TAKE j \in 1..Len(u)
      <4>1. k + j \in 1..Len(unsent[c]) /\ u[j] = unsent[c][k + j]
        BY <1>6, <3>1
      <4>2. Taken(c) + Len(sock[c]) + (k + j) = Taken(c) + Len(s) + j
        BY <1>5, <1>6, <2>1, <2>3, <3>1
      <4>. QED BY <2>1, <2>3, <4>1, <4>2
    <3>3. \A j \in 1..Len(s) : s[j] = request[c][Taken(c) + j]
      <4> TAKE j \in 1..Len(s)
      <4>1. CASE j \in 1..Len(sock[c])
        BY <1>5, <2>1, <2>3, <4>1
      <4>2. CASE j \in Len(sock[c]) + 1..Len(s)
        <5>1. j - Len(sock[c]) \in 1..Len(unsent[c]) /\ s[j] = unsent[c][j - Len(sock[c])]
          BY <1>5, <3>1, <4>2
        <5>2. Taken(c) + Len(sock[c]) + (j - Len(sock[c])) = Taken(c) + j
          BY <2>1, <2>3, <3>1
        <5>. QED BY <2>1, <2>3, <5>1, <5>2
      <4>. QED BY <1>5, <3>1, <4>1, <4>2
    <3>. QED BY <1>2, <1>8, <2>1, <2>3, <3>1, <3>2, <3>3
  <2>. QED BY <2>2, <2>3
<1>11. Streams'
  BY <1>10 DEF Streams
<1>. QED BY <1>8, <1>9, <1>11

-----------------------------------------------------------------------------
(* The reader *)

\* The first newline in the buffer becomes a NUL, and nothing else changes.
LEMMA LineOf ==
  ASSUME Types, Newlines # {}
  PROVE  /\ LineEnd \in rpos..wpos - 1 /\ LineEnd \in Room /\ buf[LineEnd].eol = "newline"
         /\ \A i \in rpos..LineEnd - 1 : buf[i].eol # "newline"
         /\ Terminated \in [Room -> Cell]
         /\ \A i \in Room : /\ Terminated[i].kind = buf[i].kind
                            /\ Terminated[i].eol = IF i = LineEnd THEN "nul" ELSE buf[i].eol
<1>1. /\ wpos \in Nat /\ rpos \in Nat /\ wpos <= BufLen /\ BufLen \in Nat /\ buf \in [Room -> Cell]
  BY RoomAssumption DEF Types
<1>2. Newlines \in SUBSET Nat
  BY <1>1 DEF Newlines
<1>3. LineEnd \in Newlines /\ \A i \in Newlines : LineEnd <= i
  BY <1>2, MinOf DEF LineEnd
<1>4. LineEnd \in rpos..wpos - 1 /\ buf[LineEnd].eol = "newline"
  BY <1>3 DEF Newlines
<1>5. \A i \in rpos..LineEnd - 1 : buf[i].eol # "newline"
  <2> SUFFICES ASSUME NEW i \in rpos..LineEnd - 1, buf[i].eol = "newline" PROVE FALSE
    OBVIOUS
  <2>1. i \in Newlines
    BY <1>1, <1>4 DEF Newlines
  <2>. QED BY <1>1, <1>3, <1>4, <2>1
<1>6. LineEnd \in Room
  BY <1>1, <1>4 DEF Room
<1> DEFINE d == [buf[LineEnd] EXCEPT !.eol = "nul"]
<1>7. d \in Cell /\ d.kind = buf[LineEnd].kind /\ d.eol = "nul"
  BY <1>1, <1>6 DEF Cell
<1>8. Terminated = [buf EXCEPT ![LineEnd] = d]
  BY DEF Terminated
<1> HIDE DEF d
<1>9. Terminated \in [Room -> Cell] /\ Terminated[LineEnd] = d /\ \A i \in Room \ {LineEnd} : Terminated[i] = buf[i]
  BY <1>1, <1>6, <1>7, <1>8
<1>. QED BY <1>4, <1>5, <1>6, <1>7, <1>9

\* A text is a sequence.
LEMMA TextLength ==
  ASSUME BufLen \in Nat, NEW b, NEW p \in 0..BufLen
  PROVE  Len(TextAt(b, p)) \in Nat /\ DOMAIN TextAt(b, p) = 1..Len(TextAt(b, p))
<1> DEFINE nuls == {i \in p .. BufLen - 1 : b[i].eol = "nul"}
           cells(last) == [j \in 1 .. last - p + 1 |-> b[p + j - 1].kind]
<1>1. \A last \in Int : last >= p - 1 => Len(cells(last)) \in Nat /\ DOMAIN cells(last) = 1..Len(cells(last))
  <2> TAKE last \in Int
  <2> HAVE last >= p - 1
  <2>1. DOMAIN cells(last) = 1..last - p + 1 /\ last - p + 1 \in Nat
    OBVIOUS
  <2>. QED BY <2>1
<1>2. TextAt(b, p) = IF nuls = {} THEN cells(BufLen - 1) \o <<"junk">> ELSE cells(Min(nuls))
  BY DEF TextAt
<1>3. CASE nuls = {}
  <2>1. Len(cells(BufLen - 1)) \in Nat /\ DOMAIN cells(BufLen - 1) = 1..Len(cells(BufLen - 1))
    BY <1>1
  <2>2. \A f : Len(f) \in Nat => Len(f \o <<"junk">>) \in Nat /\ DOMAIN (f \o <<"junk">>) = 1..Len(f \o <<"junk">>)
    OBVIOUS
  <2>. QED BY <1>2, <1>3, <2>1, <2>2
<1>4. CASE nuls # {}
  <2>1. nuls \in SUBSET Nat
    OBVIOUS
  <2>2. Min(nuls) \in nuls
    BY <1>4, <2>1, MinOf, Zenon
  <2>3. Min(nuls) \in Int /\ Min(nuls) >= p - 1
    BY <2>2
  <2> HIDE DEF nuls
  <2>. QED BY <1>1, <1>2, <1>4, <2>3
<1>. QED BY <1>3, <1>4

\* A put stays in the map.
LEMMA PutType ==
  ASSUME names \subseteq Names, entries \in 0..MapRoom, MapRoom \in Nat \ {0}, NEW name \in Names, Put(name)
  PROVE  names' \subseteq Names /\ entries' \in 0..MapRoom
<1>1. names' = names \/ names' = names \cup {name}
  BY DEF Put
<1>2. entries' = entries \/ (entries < MapRoom /\ entries' = entries + 1)
  BY DEF Put, Kept
<1>. QED BY <1>1, <1>2

\* A header line, whatever it reads as, stays in the map and in the lengths.
LEMMA PutHeaderType ==
  ASSUME Types, cur \in Conn, NEW text, PutHeader(text)
  PROVE  /\ clen' \in Lengths \cup {0} /\ names' \subseteq Names /\ entries' \in 0..MapRoom
         /\ known' \in BOOLEAN
<1>1. /\ clen \in Lengths \cup {0} /\ names \subseteq Names /\ entries \in 0..MapRoom /\ known \in BOOLEAN
      /\ MapRoom \in Nat \ {0}
  BY RoomAssumption DEF Types, HeaderTypes
<1>2. Len(Body(request[cur])) \in Lengths
  BY LengthsAreNumbers
<1>3. \A n \in LengthsRead(text) : n \in Lengths \cup {0}
  BY <1>2 DEF LengthsRead
<1>4. CASE \E name \in NamesRead(text) :
             /\ Put(name)
             /\ clen' \in IF name = "name" /\ Kept(name) THEN LengthsRead(text) ELSE {clen}
             /\ known' = (known /\ name # "REQUEST")
  <2>1. PICK name \in NamesRead(text) :
          /\ Put(name)
          /\ clen' \in IF name = "name" /\ Kept(name) THEN LengthsRead(text) ELSE {clen}
          /\ known' = (known /\ name # "REQUEST")
    BY <1>4
  <2>2. name \in Names
    BY DEF NamesRead
  <2>3. names' \subseteq Names /\ entries' \in 0..MapRoom
    BY <1>1, <2>1, <2>2, PutType
  <2>4. clen' \in LengthsRead(text) \/ clen' = clen
    BY <2>1
  <2>. QED BY <1>1, <1>3, <2>1, <2>3, <2>4
<1>5. CASE /\ entries' \in {entries, entries + 1} /\ entries' <= MapRoom
           /\ UNCHANGED <<names, clen, known>>
  BY <1>1, <1>5
<1>. QED BY <1>4, <1>5 DEF PutHeader

\* A line takes no more of the pool than there is.
LEMMA CostType ==
  ASSUME used \in 0..PoolRoom, PoolRoom \in Nat, NEW text, Len(text) \in Nat,
         NEW cost \in Costs(text), used + cost <= PoolRoom
  PROVE  used + cost \in 0..PoolRoom
<1>1. cost \in Nat
  BY DEF Costs
<1>. QED BY <1>1

\* What a read puts behind the cells in the buffer.
LEMMA ReceiveKeeps ==
  ASSUME Types, Streams, Held, Reading, cur \in Conn, NEW n \in 0..Len(sock[cur]), wpos + n <= BufLen,
         Receive(n), UNCHANGED <<request, unsent, rpos>>
  PROVE  /\ sock' \in [Conn -> Seq(Kinds)] /\ Streams'
         /\ \A c \in Conn : Taken(c)' = IF c = cur THEN Taken(c) + n ELSE Taken(c)
         /\ buf' \in [Room -> Cell] /\ wpos' = wpos + n /\ wpos' \in 0..BufLen /\ rpos' \in 0..wpos'
         /\ wpos' - rpos' <= Taken(cur) + n
         /\ \A i \in rpos..wpos' - 1 : buf'[i].kind = request[cur][Taken(cur) - wpos + i + 1]
         /\ \A i \in wpos..wpos' - 1 : buf'[i] = Fresh(request[cur][Taken(cur) - wpos + i + 1])
<1>1. /\ sock' \in [Conn -> Seq(Kinds)] /\ Streams'
      /\ \A c \in Conn : Taken(c)' = IF c = cur THEN Taken(c) + n ELSE Taken(c)
      /\ \A j \in 1..n : sock[cur][j] = request[cur][Taken(cur) + j]
  BY SockDrops DEF Receive
<1>2. /\ wpos \in Nat /\ rpos \in Nat /\ rpos <= wpos /\ BufLen \in Nat /\ buf \in [Room -> Cell]
      /\ sock[cur] \in Seq(Kinds) /\ Taken(cur) \in Int /\ n \in Nat /\ n <= Len(sock[cur])
      /\ wpos - rpos <= Taken(cur) /\ Len(sock[cur]) \in Nat
  BY RoomAssumption, StreamParts DEF Types, Held
<1>3. /\ wpos' = wpos + n /\ rpos' = rpos
      /\ buf' = [i \in Room |-> IF i \in wpos .. wpos + n - 1 THEN Fresh(sock[cur][i - wpos + 1]) ELSE buf[i]]
  BY DEF Receive
<1>4. \A i \in wpos..wpos + n - 1 : /\ i - wpos + 1 \in 1..n /\ i - wpos + 1 \in 1..Len(sock[cur])
                                   /\ Taken(cur) + (i - wpos + 1) = Taken(cur) - wpos + i + 1
  BY <1>2
<1>5. \A i \in wpos..wpos + n - 1 : /\ sock[cur][i - wpos + 1] \in Kinds
                                   /\ sock[cur][i - wpos + 1] = request[cur][Taken(cur) - wpos + i + 1]
  <2> TAKE i \in wpos..wpos + n - 1
  <2>1. i - wpos + 1 \in 1..n /\ i - wpos + 1 \in 1..Len(sock[cur])
    BY <1>4
  <2>2. sock[cur][i - wpos + 1] \in Kinds
    BY <1>2, <2>1
  <2>. QED BY <1>1, <1>4, <2>1, <2>2
<1>6. \A k \in Kinds : Fresh(k) \in Cell /\ Fresh(k).kind = k
  BY DEF Fresh, Cell
<1>7. buf' \in [Room -> Cell]
  <2>1. \A i \in Room : (IF i \in wpos .. wpos + n - 1 THEN Fresh(sock[cur][i - wpos + 1]) ELSE buf[i]) \in Cell
    BY <1>2, <1>5, <1>6
  <2>. QED BY <1>3, <2>1
<1>8. \A i \in wpos..wpos' - 1 : buf'[i] = Fresh(request[cur][Taken(cur) - wpos + i + 1])
  <2> TAKE i \in wpos..wpos' - 1
  <2>1. i \in wpos..wpos + n - 1 /\ i \in Room
    BY <1>2, <1>3 DEF Room
  <2>. QED BY <1>3, <1>5, <2>1
<1>9. \A i \in rpos..wpos' - 1 : buf'[i].kind = request[cur][Taken(cur) - wpos + i + 1]
  <2> TAKE i \in rpos..wpos' - 1
  <2>1. CASE i \in wpos..wpos' - 1
    <3>1. buf'[i] = Fresh(request[cur][Taken(cur) - wpos + i + 1])
      BY <1>8, <2>1
    <3>2. request[cur][Taken(cur) - wpos + i + 1] \in Kinds
      <4>1. i \in wpos..wpos + n - 1
        BY <1>2, <1>3, <2>1
      <4>2. sock[cur][i - wpos + 1] \in Kinds /\ sock[cur][i - wpos + 1] = request[cur][Taken(cur) - wpos + i + 1]
        BY <1>5, <4>1
      <4>. QED BY <4>2
    <3>. QED BY <1>6, <3>1, <3>2
  <2>2. CASE i \in rpos..wpos - 1
    <3>1. i \in Room /\ i \notin wpos .. wpos + n - 1
      BY <1>2, <2>2 DEF Room
    <3>2. buf'[i] = buf[i]
      BY <1>3, <3>1
    <3>. QED BY <2>2, <3>2 DEF Held
  <2>. QED BY <1>2, <1>3, <2>1, <2>2
<1>10. wpos' \in 0..BufLen /\ rpos' \in 0..wpos' /\ wpos' - rpos' <= Taken(cur) + n
  BY <1>2, <1>3
<1>. QED BY <1>1, <1>3, <1>7, <1>8, <1>9, <1>10

\* What read_body copies out of the buffer.
LEMMA BufferedCells ==
  ASSUME Types, Streams, Held, Reading, cur \in Conn, NEW n \in 0..wpos - rpos
  PROVE  /\ Buffered(n) \in Seq(Kinds) /\ Len(Buffered(n)) = n
         /\ \A j \in 1..n : Buffered(n)[j] = request[cur][Taken(cur) - wpos + rpos + j]
<1>1. /\ wpos \in Nat /\ rpos \in Nat /\ rpos <= wpos /\ n \in Nat /\ Taken(cur) \in Int
      /\ wpos - rpos <= Taken(cur) /\ request[cur] \in Seq(Kinds) /\ Len(request[cur]) \in Nat
      /\ Taken(cur) <= Len(request[cur])
  BY RequestType, StreamParts DEF Types, Held, Taken
<1>2. \A j \in 1..n : buf[rpos + j - 1].kind = request[cur][Taken(cur) - wpos + rpos + j]
  <2> TAKE j \in 1..n
  <2>1. rpos + j - 1 \in rpos..wpos - 1 /\ Taken(cur) - wpos + (rpos + j - 1) + 1 = Taken(cur) - wpos + rpos + j
    BY <1>1
  <2>2. buf[rpos + j - 1].kind = request[cur][Taken(cur) - wpos + (rpos + j - 1) + 1]
    BY <2>1 DEF Held
  <2>. QED BY <2>1, <2>2
<1>3. \A j \in 1..n : request[cur][Taken(cur) - wpos + rpos + j] \in Kinds
  <2> TAKE j \in 1..n
  <2>1. Taken(cur) - wpos + rpos + j \in 1..Len(request[cur])
    BY <1>1
  <2>. QED BY <1>1, <2>1
<1>4. Buffered(n) \in [1..n -> Kinds] /\ \A j \in 1..n : Buffered(n)[j] = buf[rpos + j - 1].kind
  BY <1>2, <1>3 DEF Buffered
<1> HIDE DEF Buffered
<1>5. Buffered(n) \in Seq(Kinds) /\ Len(Buffered(n)) = n
  BY <1>1, <1>4
<1>. QED BY <1>2, <1>4, <1>5

-----------------------------------------------------------------------------
(* The stream is kept *)

\* A client that has parsed nothing has its place.
LEMMA NothingTyped ==
  /\ NothingParsed => HeaderTypes /\ body \in Seq(Kinds)
  /\ ClientEnds => HeaderTypes' /\ body' \in Seq(Kinds)
<1>1. 0 \in 0..MapRoom /\ 0 \in 0..PoolRoom
  BY RoomAssumption, PoolAssumption
<1>2. NothingParsed => known \in BOOLEAN /\ entries \in 0..MapRoom /\ used \in 0..PoolRoom
  BY <1>1, Zenon DEF NothingParsed
<1>3. ClientEnds => known' \in BOOLEAN /\ entries' \in 0..MapRoom /\ used' \in 0..PoolRoom
  BY <1>1, Zenon DEF ClientEnds
<1>4. NothingParsed => HeaderTypes
  BY <1>2, Zenon DEF NothingParsed, HeaderTypes
<1>5. ClientEnds => HeaderTypes'
  BY <1>3, Zenon DEF ClientEnds, HeaderTypes
<1>6. <<>> \in Seq(Kinds)
  OBVIOUS
<1>7. (NothingParsed => body \in Seq(Kinds)) /\ (ClientEnds => body' \in Seq(Kinds))
  BY <1>6 DEF NothingParsed, ClientEnds
<1>. QED BY <1>4, <1>5, <1>7, Zenon

\* Before the first connection nothing is read.
LEMMA StreamInit == Init => StreamIInv
<1> SUFFICES ASSUME Init PROVE StreamIInv
  OBVIOUS
<1>1. request \in [Conn -> Seq(Kinds)] /\ \A c \in Conn : Len(request[c]) \in Nat
  <2>1. request \in Loads
    BY DEF Init
  <2>. QED BY <2>1, LoadsAssumption
<1>2. Types
  <2>1. Junk \in Cell
    BY DEF Junk, Cell
  <2>2. BufLen \in Nat /\ MapRoom \in Nat /\ PoolRoom \in Nat
    BY RoomAssumption, PoolAssumption
  <2>3. buf \in [Room -> Cell]
    BY <2>1 DEF Init, FreshReader
  <2>4. HeaderTypes /\ body \in Seq(Kinds)
    BY <2>2, NothingTyped DEF Init
  <2>. QED BY <1>1, <2>2, <2>3, <2>4 DEF Init, Types, FreshReader
<1>3. \A c \in Conn : Taken(c) = 0 /\ Len(sock[c]) = 0 /\ unsent[c] = request[c]
  <2> TAKE c \in Conn
  <2>1. unsent[c] = request[c] /\ sock[c] = <<>> /\ Len(request[c]) \in Nat
    BY <1>1 DEF Init
  <2>2. Len(sock[c]) = 0 /\ Len(unsent[c]) = Len(request[c])
    BY <2>1
  <2>3. Taken(c) = Len(request[c]) - Len(unsent[c]) - Len(sock[c])
    BY DEF Taken
  <2>. QED BY <2>1, <2>2, <2>3
<1>4. Streams
  BY <1>1, <1>3 DEF Streams
<1>5. Connections
  BY <1>3, RoomAssumption DEF Init, Connections, NotYet
<1>. QED BY <1>2, <1>4, <1>5 DEF StreamIInv, Held, Parsed, Reading, Init, FreshReader, NothingParsed

\* Most steps take no connection from the queue and answer none.
LEMMA ConnectionsKept ==
  ASSUME Types, Connections, UNCHANGED <<queue, reply, cur>>, prompt' \subseteq prompt,
         \A c \in Conn : (c # cur => Taken(c)' = Taken(c)) /\ (peer'[c] = "absent" <=> peer[c] = "absent"),
         pc' \in {"wait", "dead", "astray"} <=> pc \in {"wait", "dead", "astray"}
  PROVE  Connections'
<1>1. \A c \in Conn : NotYet(c) => NotYet(c)'
  BY DEF NotYet
<1>2. \A i \in 1..Len(queue) : queue[i] \in Conn
  BY DEF Types
<1>3. \A c \in Conn : peer'[c] = "absent" => NotYet(c)'
  BY <1>1 DEF Connections
<1>4. \A i \in 1..Len(queue') : peer'[queue'[i]] # "absent" /\ NotYet(queue[i])'
  BY <1>1, <1>2 DEF Connections
<1>. QED BY <1>3, <1>4 DEF Connections

\* What a peer does, the server does not see before it reads.
LEMMA PeerStream ==
  ASSUME StreamIInv, NEW c \in Conn, PeerSendsOn(c) \/ PeerStops(c)
  PROVE  StreamIInv'
<1>1. /\ Types /\ Streams /\ Connections /\ Held /\ Parsed
  BY DEF StreamIInv
<1>2. /\ UNCHANGED <<request, cur, pc, buf, rpos, wpos, pos, headers, clen, body, queue, reply>>
      /\ prompt' \subseteq prompt /\ peer' \in [Conn -> {"absent", "open", "shut", "gone", "done"}]
      /\ \A d \in Conn : peer'[d] = "absent" <=> peer[d] = "absent"
  BY <1>1 DEF PeerSendsOn, PeerStops, PeerSends, PeerShuts, PeerLeaves, loop, reader, parsed, Types
<1>3. /\ sock' \in [Conn -> Seq(Kinds)] /\ unsent' \in [Conn -> Seq(Kinds)]
      /\ Streams' /\ \A d \in Conn : Taken(d)' = Taken(d)
  <2>1. CASE PeerSendsOn(c)
    BY <1>1, <2>1, PeerSendsKeeps DEF PeerSendsOn
  <2>2. CASE PeerStops(c)
    <3>1. UNCHANGED <<request, sock, unsent>>
      BY <2>2 DEF PeerStops, PeerShuts, PeerLeaves
    <3>. QED BY <1>1, <3>1 DEF Types, Streams, Taken
  <2>. QED BY <2>1, <2>2
<1>4. Types'
  BY <1>1, <1>2, <1>3 DEF Types, HeaderTypes, headers
<1>5. Connections'
  BY <1>1, <1>2, <1>3, ConnectionsKept
<1>6. Reading' = Reading /\ (Reading => cur \in Conn)
  BY <1>1, <1>2 DEF Reading, Connections, Types
<1>7. Reading => Taken(cur)' = Taken(cur)
  BY <1>2, <1>3, <1>6 DEF Taken
<1>8. Held'
  BY <1>1, <1>2, <1>6, <1>7 DEF Held
<1>9. Parsed'
  BY <1>1, <1>2, <1>6 DEF Parsed, NothingParsed, headers
<1>. QED BY <1>3, <1>4, <1>5, <1>8, <1>9 DEF StreamIInv

\* While it reads, the server is serving a connection.
LEMMA Serving ==
  ASSUME StreamIInv
  PROVE  /\ pc \notin {"wait", "dead", "astray"} => cur \in Conn /\ request[cur] \in Seq(Kinds) /\ Taken(cur) \in Int
         /\ wpos \in Nat /\ rpos \in Nat /\ rpos <= wpos /\ wpos <= BufLen /\ pos \in 0..BufLen
         /\ BufLen \in Nat /\ MapRoom \in Nat \ {0} /\ clen \in Nat /\ entries \in 0..MapRoom
<1>1. Types /\ Connections
  BY DEF StreamIInv
<1>2. pc \notin {"wait", "dead", "astray"} => cur \in Conn
  BY <1>1 DEF Types, Connections
<1>. QED BY <1>1, <1>2, RequestType, StreamParts, LengthsAreNumbers, RoomAssumption DEF Types, HeaderTypes

\* A step that reads nothing has to keep the buffer's cells and positions.
LEMMA QuietRead ==
  ASSUME StreamIInv, Reading, Reading', UNCHANGED <<sockets, cur, loop, body>>,
         buf' \in [Room -> Cell], wpos' \in 0..BufLen, rpos' \in 0..wpos', pos' \in 0..BufLen,
         HeaderTypes', pos' = 0 => NothingParsed',
         pc' = "fill" => rpos' = 0, wpos' - rpos' <= Taken(cur),
         \A i \in rpos'..wpos' - 1 : buf'[i].kind = request[cur][Taken(cur) - wpos' + i + 1]
  PROVE  StreamIInv'
<1>1. Types /\ Streams /\ Connections /\ Held /\ Parsed
  BY DEF StreamIInv
<1>2. UNCHANGED <<request, unsent, sock, peer, cur, queue, reply, prompt, body>>
  BY DEF sockets, loop
<1>3. \A c \in Conn : Taken(c)' = Taken(c)
  BY <1>2 DEF Taken
<1>4. Taken(cur)' = Taken(cur)
  BY <1>2 DEF Taken
<1>5. Types'
  BY <1>1, <1>2 DEF Types, Reading
<1>6. Streams'
  BY <1>1, <1>2, <1>3 DEF Streams
<1>7. Connections'
  BY <1>1, <1>2, <1>3, ConnectionsKept DEF Reading
<1>8. Held'
  BY <1>2, <1>4 DEF Held
<1>9. Parsed'
  <2>1. pc' # "wait" /\ pc' \notin {"more", "respond"} /\ body' = <<>>
    BY <1>1, <1>2 DEF Parsed, Reading
  <2>. QED BY <2>1 DEF Parsed
<1>. QED BY <1>5, <1>6, <1>7, <1>8, <1>9 DEF StreamIInv

\* A line leaves the buffer at its front.
LEMMA LineStream ==
  ASSUME StreamIInv, RequestLine \/ HeaderLine \/ BlankLine, UNCHANGED loop
  PROVE  StreamIInv'
<1>1. /\ pc = "scan" /\ Newlines # {} /\ buf' = Terminated /\ rpos' = LineEnd + 1 /\ pc' \in {"scan", "body"}
      /\ UNCHANGED <<sockets, cur, wpos, body>> /\ pos' \in {pos, LineEnd + 1}
  BY DEF RequestLine, HeaderLine, BlankLine, Line, parsed
<1>2. /\ cur \in Conn /\ request[cur] \in Seq(Kinds) /\ Taken(cur) \in Int
      /\ wpos \in Nat /\ rpos \in Nat /\ rpos <= wpos /\ wpos <= BufLen /\ pos \in 0..BufLen
      /\ BufLen \in Nat /\ MapRoom \in Nat \ {0}
  BY <1>1, Serving
<1>3. /\ Types /\ Held /\ Parsed /\ Reading
  BY <1>1 DEF StreamIInv, Reading
<1>4. /\ LineEnd \in rpos..wpos - 1 /\ LineEnd \in Room /\ buf' \in [Room -> Cell]
      /\ \A i \in Room : buf'[i].kind = buf[i].kind
  BY <1>1, <1>3, LineOf
<1>5. HeaderTypes' /\ (pos' = 0 => NothingParsed')
  <2>1. HeaderTypes /\ (pos = 0 => NothingParsed) /\ PoolRoom \in Nat /\ KeyCost \in 1..PoolRoom
    BY <1>3, PoolAssumption DEF Types, Parsed
  <2>2. LineEnd + 1 # 0
    BY <1>2, <1>4
  <2>3. CASE RequestLine
    <3> DEFINE cost == KeyCost + Len(TextAt(buf', 0))
    <3>1. /\ known' = (cost <= PoolRoom) /\ used' = (IF cost <= PoolRoom THEN cost ELSE KeyCost)
          /\ Put("REQUEST") /\ pos' = LineEnd + 1 /\ clen' = clen
      BY <2>3 DEF RequestLine
    <3>2. "REQUEST" \in Names
      BY DEF Names
    <3>3. names' \subseteq Names /\ entries' \in 0..MapRoom
      BY <1>2, <2>1, <3>1, <3>2, PutType DEF HeaderTypes
    <3>4. Len(TextAt(buf', 0)) \in Nat
      BY <1>1, <1>2, <1>4, TextLength
    <3>5. used' \in 0..PoolRoom
      BY <2>1, <3>1, <3>4
    <3>. QED BY <2>1, <2>2, <3>1, <3>3, <3>5 DEF HeaderTypes
  <2>4. CASE HeaderLine
    <3> DEFINE text == TextAt(buf', pos)
    <3>1. /\ PutHeader(text) /\ pos' = LineEnd + 1
          /\ \E cost \in Costs(text) : used + cost <= PoolRoom /\ used' = used + cost
      BY <2>4 DEF HeaderLine
    <3>2. Len(text) \in Nat
      BY <1>1, <1>2, <1>4, TextLength
    <3> HIDE DEF text
    <3>3. /\ clen' \in Lengths \cup {0} /\ names' \subseteq Names /\ entries' \in 0..MapRoom
          /\ known' \in BOOLEAN
      BY <1>2, <1>3, <3>1, PutHeaderType
    <3>4. used' \in 0..PoolRoom
      BY <2>1, <3>1, <3>2, CostType DEF HeaderTypes
    <3>. QED BY <2>2, <3>1, <3>3, <3>4 DEF HeaderTypes
  <2>5. CASE BlankLine
    BY <2>1, <2>5 DEF BlankLine, parsed, headers, HeaderTypes, NothingParsed
  <2>. QED BY <2>3, <2>4, <2>5
<1>6. Reading' /\ wpos' = wpos /\ rpos' \in 0..wpos' /\ pos' \in 0..BufLen /\ wpos' \in 0..BufLen
  BY <1>1, <1>2, <1>4 DEF Reading
<1>7. /\ wpos - rpos <= Taken(cur)
      /\ \A i \in rpos..wpos - 1 : buf[i].kind = request[cur][Taken(cur) - wpos + i + 1]
  BY <1>3 DEF Held
<1>8. wpos' - rpos' <= Taken(cur)
  BY <1>1, <1>2, <1>4, <1>6, <1>7
<1>9. \A i \in rpos'..wpos' - 1 : buf'[i].kind = request[cur][Taken(cur) - wpos' + i + 1]
  <2> TAKE i \in rpos'..wpos' - 1
  <2>1. i \in rpos..wpos - 1 /\ i \in Room
    BY <1>1, <1>2, <1>4, <1>6 DEF Room
  <2>. QED BY <1>4, <1>6, <1>7, <2>1
<1>10. pc' # "fill"
  BY <1>1
<1>. QED BY <1>1, <1>3, <1>4, <1>5, <1>6, <1>8, <1>9, <1>10, QuietRead

\* Compaction moves the cells that are left, with the positions.
LEMMA CompactStream ==
  ASSUME StreamIInv, Compact, UNCHANGED loop
  PROVE  StreamIInv'
<1>1. /\ pc = "scan" /\ buf' = [i \in Room |-> IF i < wpos - rpos THEN buf[rpos + i] ELSE buf[i]]
      /\ rpos' = 0 /\ wpos' = wpos - rpos /\ pc' \in {"fill", "body"}
      /\ UNCHANGED <<sockets, cur, pos, headers, clen, body>>
  BY DEF Compact, parsed
<1>2. /\ cur \in Conn /\ request[cur] \in Seq(Kinds) /\ Taken(cur) \in Int
      /\ wpos \in Nat /\ rpos \in Nat /\ rpos <= wpos /\ wpos <= BufLen /\ pos \in 0..BufLen
      /\ BufLen \in Nat
  BY <1>1, Serving
<1>3. /\ Types /\ Held /\ Parsed /\ Reading /\ Reading'
  BY <1>1 DEF StreamIInv, Reading
<1>4. \A i \in Room : i < wpos - rpos => rpos + i \in Room /\ rpos + i \in rpos..wpos - 1
  BY <1>2 DEF Room
<1>5. buf' \in [Room -> Cell]
  <2>1. buf \in [Room -> Cell]
    BY <1>3 DEF Types
  <2>. QED BY <1>1, <1>4, <2>1
<1>6. /\ wpos - rpos <= Taken(cur)
      /\ \A i \in rpos..wpos - 1 : buf[i].kind = request[cur][Taken(cur) - wpos + i + 1]
  BY <1>3 DEF Held
<1>7. wpos' \in 0..BufLen /\ rpos' \in 0..wpos' /\ wpos' - rpos' <= Taken(cur)
  BY <1>1, <1>2, <1>6
<1>8. \A i \in rpos'..wpos' - 1 : buf'[i].kind = request[cur][Taken(cur) - wpos' + i + 1]
  <2> TAKE i \in rpos'..wpos' - 1
  <2>1. i \in Room /\ i < wpos - rpos /\ Taken(cur) - wpos + (rpos + i) + 1 = Taken(cur) - wpos' + i + 1
    BY <1>1, <1>2 DEF Room
  <2>2. buf'[i] = buf[rpos + i]
    BY <1>1, <2>1
  <2>. QED BY <1>4, <1>6, <2>1, <2>2
<1>9. HeaderTypes' /\ (pos' = 0 => NothingParsed')
  BY <1>1, <1>3 DEF Types, HeaderTypes, Parsed, NothingParsed, headers
<1>10. pos' \in 0..BufLen /\ UNCHANGED <<sockets, cur, loop, body>>
  BY <1>1, <1>2
<1>. QED BY <1>1, <1>3, <1>5, <1>7, <1>8, <1>9, <1>10, QuietRead

\* A read of nothing changes where the server is and nothing else.
LEMMA NothingRead ==
  ASSUME StreamIInv, ReadEnds \/ ReadSpins \/ AgainEnds \/ AgainDry, UNCHANGED loop
  PROVE  StreamIInv'
<1>1. /\ pc \in {"fill", "again"} /\ pc' \in {"scan", "body"}
      /\ UNCHANGED <<sockets, cur, buf, rpos, wpos, pos, headers, clen, body>>
  BY DEF ReadEnds, ReadSpins, AgainEnds, AgainDry, reader, parsed
<1>2. /\ Types /\ Held /\ Parsed /\ Reading /\ Reading'
  BY <1>1 DEF StreamIInv, Reading
<1>3. /\ buf' \in [Room -> Cell] /\ wpos' \in 0..BufLen /\ rpos' \in 0..wpos' /\ pos' \in 0..BufLen
      /\ HeaderTypes'
  BY <1>1, <1>2 DEF Types, HeaderTypes, headers
<1>4. /\ pos' = 0 => NothingParsed'
      /\ wpos' - rpos' <= Taken(cur)
      /\ \A i \in rpos'..wpos' - 1 : buf'[i].kind = request[cur][Taken(cur) - wpos' + i + 1]
  BY <1>1, <1>2 DEF Held, Parsed, NothingParsed, headers
<1>5. pc' # "fill"
  BY <1>1
<1>. QED BY <1>1, <1>2, <1>3, <1>4, <1>5, QuietRead

\* How much each of the two reads of a line takes.
LEMMA ReadLength ==
  ASSUME StreamIInv, ReadChunk \/ ReadAgain
  PROVE  \E n \in 0..Len(sock[cur]) :
           /\ wpos + n <= BufLen /\ Receive(n)
           /\ ReadChunk => /\ n = IF BufLen <= Len(sock[cur]) THEN BufLen ELSE Len(sock[cur])
                           /\ pc' = IF n < BufLen THEN "again" ELSE "scan"
<1>1. /\ cur \in Conn /\ request[cur] \in Seq(Kinds) /\ Taken(cur) \in Int
      /\ wpos \in Nat /\ rpos \in Nat /\ rpos <= wpos /\ wpos <= BufLen /\ BufLen \in Nat
  BY Serving DEF ReadChunk, ReadAgain
<1>2. Types /\ Held
  BY DEF StreamIInv
<1>3. Len(sock[cur]) \in Nat
  BY <1>1, <1>2, StreamParts
<1>4. CASE ReadChunk
  <2>1. Chunk = IF BufLen <= Len(sock[cur]) THEN BufLen ELSE Len(sock[cur])
    BY <1>1, <1>3, MinPair DEF Chunk
  <2>2. wpos + Chunk <= BufLen /\ Receive(Chunk) /\ pc' = IF Chunk < BufLen THEN "again" ELSE "scan"
    BY <1>4 DEF ReadChunk
  <2>3. Chunk \in 0..Len(sock[cur])
    BY <1>1, <1>3, <2>1
  <2>. QED BY <2>1, <2>2, <2>3
<1>5. CASE ReadAgain
  <2> DEFINE n == Min({BufLen - wpos, Len(sock[cur])})
  <2>1. BufLen - wpos \in Nat
    BY <1>1
  <2>2. n = IF BufLen - wpos <= Len(sock[cur]) THEN BufLen - wpos ELSE Len(sock[cur])
    BY <1>3, <2>1, MinPair
  <2>3. n \in 0..Len(sock[cur]) /\ wpos + n <= BufLen
    BY <1>1, <1>3, <2>1, <2>2
  <2>4. Receive(n) /\ ~ReadChunk
    BY <1>5 DEF ReadAgain, ReadChunk
  <2>. QED BY <2>3, <2>4
<1>. QED BY <1>4, <1>5

\* What is read goes from the front of the socket to the end of the buffer.
LEMMA ReadStream ==
  ASSUME StreamIInv, ReadChunk \/ ReadAgain, UNCHANGED loop
  PROVE  StreamIInv'
<1>1. PICK n \in 0..Len(sock[cur]) :
        /\ wpos + n <= BufLen /\ Receive(n)
        /\ ReadChunk => /\ n = IF BufLen <= Len(sock[cur]) THEN BufLen ELSE Len(sock[cur])
                        /\ pc' = IF n < BufLen THEN "again" ELSE "scan"
  BY ReadLength
<1>2. /\ pc \in {"fill", "again"} /\ pc' \in {"again", "scan", "body"}
      /\ UNCHANGED <<request, unsent, peer, cur, rpos, pos, headers, clen, body, queue, reply, prompt>>
  BY DEF ReadChunk, ReadAgain, parsed, loop
<1>3. /\ Types /\ Streams /\ Connections /\ Held /\ Parsed /\ Reading /\ Reading' /\ cur \in Conn
  BY <1>2, Serving DEF StreamIInv, Reading
<1>4. /\ sock' \in [Conn -> Seq(Kinds)] /\ Streams'
      /\ \A c \in Conn : Taken(c)' = IF c = cur THEN Taken(c) + n ELSE Taken(c)
      /\ buf' \in [Room -> Cell] /\ wpos' = wpos + n /\ wpos' \in 0..BufLen /\ rpos' \in 0..wpos'
      /\ wpos' - rpos' <= Taken(cur) + n
      /\ \A i \in rpos..wpos' - 1 : buf'[i].kind = request[cur][Taken(cur) - wpos + i + 1]
  BY <1>1, <1>2, <1>3, ReceiveKeeps
<1>5. Types'
  BY <1>2, <1>3, <1>4 DEF Types, HeaderTypes, headers
<1>6. Connections'
  <2>1. pc' \in {"wait", "dead", "astray"} <=> pc \in {"wait", "dead", "astray"}
    BY <1>2
  <2>. QED BY <1>2, <1>3, <1>4, <2>1, ConnectionsKept
<1>7. Taken(cur)' = Taken(cur) + n
  <2>1. \A c \in Conn : c = cur => Taken(c)' = Taken(c) + n
    BY <1>4
  <2>2. \A c \in Conn : c = cur => Taken(cur)' = Taken(c)'
    BY <1>2 DEF Taken
  <2>. QED BY <1>3, <2>1, <2>2
<1>8. \A i \in rpos'..wpos' - 1 : buf'[i].kind = request'[cur'][Taken(cur)' - wpos' + i + 1]
  <2> TAKE i \in rpos'..wpos' - 1
  <2>1. i \in rpos..wpos' - 1
    BY <1>2
  <2>2. Taken(cur)' - wpos' + i + 1 = Taken(cur) - wpos + i + 1
    <3>1. Taken(cur) \in Int /\ wpos \in Nat /\ n \in Nat /\ i \in Int
      BY <1>2, <1>3, <1>4, Serving, StreamParts
    <3>. QED BY <1>4, <1>7, <3>1
  <2>. QED BY <1>2, <1>4, <2>1, <2>2
<1>9. Held'
  BY <1>2, <1>3, <1>4, <1>7, <1>8 DEF Held
<1>10. Parsed'
  BY <1>2, <1>3 DEF Parsed, Reading, NothingParsed, headers
<1>. QED BY <1>4, <1>5, <1>6, <1>9, <1>10 DEF StreamIInv

\* read_body takes what the buffer holds, and the reader is gone.
LEMMA BodyStream ==
  ASSUME StreamIInv, ReadBody, UNCHANGED loop
  PROVE  StreamIInv'
<1>1. /\ pc = "body" /\ body' = Buffered(Min({wpos - rpos, clen})) /\ pc' \in {"respond", "more"} /\ ReaderEnds
      /\ UNCHANGED <<request, unsent, sock, peer, cur, headers, clen, queue, reply, prompt>>
  BY DEF ReadBody, sockets, loop
<1>2. /\ Types /\ Streams /\ Connections /\ Held /\ Parsed /\ Reading /\ ~Reading' /\ cur \in Conn
      /\ wpos \in Nat /\ rpos \in Nat /\ rpos <= wpos /\ clen \in Nat /\ BufLen \in Nat
  BY <1>1, Serving DEF StreamIInv, Reading
<1> DEFINE n == Min({wpos - rpos, clen})
<1>3. wpos - rpos \in Nat /\ n = IF wpos - rpos <= clen THEN wpos - rpos ELSE clen
  BY <1>2, MinPair
<1>4. n \in 0..wpos - rpos /\ n <= clen
  BY <1>2, <1>3
<1> HIDE DEF n
<1>5. Buffered(n) \in Seq(Kinds) /\ Len(Buffered(n)) = n
  BY <1>2, <1>4, BufferedCells
<1>6. body' \in Seq(Kinds) /\ Len(body') <= clen'
  BY <1>1, <1>4, <1>5 DEF n
<1>7. buf' \in [Room -> Cell] /\ rpos' = 0 /\ wpos' = 0 /\ pos' = 0
  BY <1>1 DEF ReaderEnds, Junk, Cell
<1>8. Types'
  BY <1>1, <1>2, <1>6, <1>7 DEF Types, HeaderTypes, headers
<1>9. \A c \in Conn : Taken(c)' = Taken(c)
  BY <1>1 DEF Taken
<1>10. Streams'
  BY <1>1, <1>2, <1>9 DEF Streams
<1>11. Connections'
  <2>1. pc' \in {"wait", "dead", "astray"} <=> pc \in {"wait", "dead", "astray"}
    BY <1>1
  <2>. QED BY <1>1, <1>2, <1>9, <2>1, ConnectionsKept
<1>12. Held' /\ Parsed'
  BY <1>1, <1>2, <1>6, <1>7 DEF Held, Parsed, Reading
<1>. QED BY <1>8, <1>10, <1>11, <1>12 DEF StreamIInv

\* It reads no more than the body has still to come.
LEMMA MoreStream ==
  ASSUME StreamIInv, ReadMore, UNCHANGED loop
  PROVE  StreamIInv'
<1> DEFINE n == Min({clen - Len(body), Len(sock[cur])})
<1>1. /\ pc = "more" /\ body' = body \o SubSeq(sock[cur], 1, n) /\ pc' \in {"respond", "more"}
      /\ sock' = [sock EXCEPT ![cur] = SubSeq(@, n + 1, Len(@))]
      /\ UNCHANGED <<request, unsent, peer, cur, buf, rpos, wpos, pos, headers, clen, queue, reply, prompt>>
  BY DEF ReadMore, reader, loop
<1>2. /\ Types /\ Streams /\ Connections /\ Held /\ Parsed /\ ~Reading /\ ~Reading' /\ cur \in Conn /\ clen \in Nat
  BY <1>1, Serving DEF StreamIInv, Reading
<1>3. /\ Len(body) \in Nat /\ Len(body) <= clen /\ body \in Seq(Kinds)
      /\ sock[cur] \in Seq(Kinds) /\ Len(sock[cur]) \in Nat
  BY <1>1, <1>2, StreamParts DEF Types, Parsed
<1>4. clen - Len(body) \in Nat /\ n = IF clen - Len(body) <= Len(sock[cur]) THEN clen - Len(body) ELSE Len(sock[cur])
  <2>1. clen - Len(body) \in Nat
    BY <1>2, <1>3
  <2>. QED BY <1>3, <2>1, MinPair, Zenon
<1>5. n \in 0..Len(sock[cur]) /\ n <= clen - Len(body)
  BY <1>2, <1>3, <1>4
<1> HIDE DEF n
<1>6. /\ sock' \in [Conn -> Seq(Kinds)] /\ Streams'
      /\ \A c \in Conn : Taken(c)' = IF c = cur THEN Taken(c) + n ELSE Taken(c)
  BY <1>1, <1>2, <1>5, SockDrops
<1>7. SubSeq(sock[cur], 1, n) \in Seq(Kinds) /\ Len(SubSeq(sock[cur], 1, n)) = n
  BY <1>3, <1>5
<1>8. body' \in Seq(Kinds) /\ Len(body') <= clen'
  BY <1>1, <1>2, <1>3, <1>5, <1>7
<1>9. Types'
  BY <1>1, <1>2, <1>6, <1>8 DEF Types, HeaderTypes, headers
<1>10. Connections'
  <2>1. pc' \in {"wait", "dead", "astray"} <=> pc \in {"wait", "dead", "astray"}
    BY <1>1
  <2>. QED BY <1>1, <1>2, <1>6, <2>1, ConnectionsKept
<1>11. Held' /\ Parsed'
  BY <1>1, <1>2, <1>8 DEF Held, Parsed, Reading
<1>. QED BY <1>6, <1>9, <1>10, <1>11 DEF StreamIInv

\* A new connection goes to the end of the queue; it has sent nothing yet.
LEMMA ConnectStream ==
  ASSUME StreamIInv, NEW c \in Conn, Connect(c)
  PROVE  StreamIInv'
<1>1. /\ peer[c] = "absent" /\ peer' = [peer EXCEPT ![c] = "open"] /\ queue' = Append(queue, c)
      /\ UNCHANGED <<request, unsent, sock, cur, pc, buf, rpos, wpos, pos, headers, clen, body, reply, prompt>>
  BY DEF Connect, reader, parsed
<1>2. /\ Types /\ Streams /\ Connections /\ Held /\ Parsed
  BY DEF StreamIInv
<1>3. /\ queue \in Seq(Conn) /\ Len(queue) \in Nat /\ peer \in [Conn -> {"absent", "open", "shut", "gone", "done"}]
      /\ \A i \in 1..Len(queue) : queue[i] \in Conn
  BY <1>2 DEF Types
<1>4. /\ queue' \in Seq(Conn) /\ Len(queue') = Len(queue) + 1 /\ queue'[Len(queue) + 1] = c
      /\ \A i \in 1..Len(queue) : queue'[i] = queue[i]
  BY <1>1, <1>3
<1>5. /\ peer' \in [Conn -> {"absent", "open", "shut", "gone", "done"}] /\ peer'[c] = "open"
      /\ \A d \in Conn \ {c} : peer'[d] = peer[d]
  BY <1>1, <1>3
<1>6. Types'
  BY <1>1, <1>2, <1>4, <1>5 DEF Types, HeaderTypes, headers
<1>7. \A d \in Conn : Taken(d)' = Taken(d) /\ (NotYet(d) => NotYet(d)')
  BY <1>1 DEF Taken, NotYet
<1>8. Streams'
  BY <1>1, <1>2, <1>7 DEF Streams
<1>9. \A i \in 1..Len(queue) : queue[i] # c
  BY <1>1, <1>2 DEF Connections
<1>10. Connections'
  <2>1. \A d \in Conn : peer'[d] = "absent" => NotYet(d)'
    BY <1>2, <1>5, <1>7 DEF Connections
  <2>2. ASSUME NEW i \in 1..Len(queue') PROVE peer'[queue'[i]] # "absent" /\ NotYet(queue[i])'
    <3>1. CASE i \in 1..Len(queue)
      <4>1. queue'[i] = queue[i] /\ queue[i] \in Conn /\ queue[i] # c /\ NotYet(queue[i]) /\ peer[queue[i]] # "absent"
        BY <1>2, <1>3, <1>4, <1>9, <3>1 DEF Connections
      <4>2. \A d \in Conn : d = queue[i] => peer'[d] # "absent" /\ NotYet(d)'
        BY <1>5, <1>7, <4>1
      <4>3. peer'[queue'[i]] # "absent"
        BY <4>1, <4>2
      <4>4. NotYet(queue[i])' <=> /\ Taken(queue[i])' = 0 /\ queue'[i] # cur'
                                  /\ reply'[queue'[i]] = None /\ queue'[i] \notin prompt'
        BY DEF NotYet
      <4>5. Taken(queue[i])' = 0
        BY <1>1, <4>1 DEF NotYet, Taken
      <4>. QED BY <1>1, <4>1, <4>3, <4>4, <4>5 DEF NotYet
    <3>2. CASE i = Len(queue) + 1
      <4>1. queue'[i] = c /\ NotYet(c)
        BY <1>1, <1>2, <1>4, <3>2 DEF Connections
      <4>2. NotYet(queue[i])' <=> /\ Taken(queue[i])' = 0 /\ queue'[i] # cur'
                                  /\ reply'[queue'[i]] = None /\ queue'[i] \notin prompt'
        BY DEF NotYet
      <4>3. Taken(queue[i])' = 0
        BY <1>1, <4>1 DEF NotYet, Taken
      <4>. QED BY <1>1, <1>5, <4>1, <4>2, <4>3 DEF NotYet
    <3>. QED BY <1>3, <1>4, <3>1, <3>2
  <2>3. \A i, j \in 1..Len(queue') : queue'[i] = queue'[j] => i = j
    <3> TAKE i, j \in 1..Len(queue')
    <3>1. (i \in 1..Len(queue) \/ i = Len(queue) + 1) /\ (j \in 1..Len(queue) \/ j = Len(queue) + 1)
      BY <1>3, <1>4
    <3>2. \A k, m \in 1..Len(queue) : queue[k] = queue[m] => k = m
      BY <1>2 DEF Connections
    <3>. QED BY <1>4, <1>9, <3>1, <3>2
  <2>4. (cur' = None <=> pc' \in {"wait", "dead", "astray"}) /\ (cur' # None => reply'[cur'] = None)
    BY <1>1, <1>2 DEF Connections
  <2>. QED BY <2>1, <2>2, <2>3, <2>4 DEF Connections
<1>11. Held' /\ Parsed'
  <2>1. Reading => Taken(cur)' = Taken(cur)
    BY <1>1 DEF Taken
  <2>. QED BY <1>1, <1>2, <2>1 DEF Held, Parsed, Reading, NothingParsed, headers
<1>. QED BY <1>6, <1>8, <1>10, <1>11 DEF StreamIInv

\* The oldest connection leaves the queue, and a new reader begins with it.
LEMMA AcceptStream ==
  ASSUME StreamIInv, Accept
  PROVE  StreamIInv'
<1>1. /\ pc = "wait" /\ queue # <<>> /\ cur' = Head(queue) /\ queue' = Tail(queue) /\ pc' = "scan"
      /\ prompt' \subseteq prompt \cup {cur'}
      /\ UNCHANGED <<request, unsent, sock, peer, buf, rpos, wpos, pos, headers, clen, body, reply>>
  BY DEF Accept, sockets, reader, parsed
<1>2. /\ Types /\ Streams /\ Connections /\ Held /\ Parsed
  BY DEF StreamIInv
<1>3. /\ queue \in Seq(Conn) /\ Len(queue) \in Nat \ {0} /\ \A i \in 1..Len(queue) : queue[i] \in Conn
  BY <1>1, <1>2 DEF Types
<1>4. /\ cur' = queue[1] /\ cur' \in Conn /\ queue' \in Seq(Conn) /\ Len(queue') = Len(queue) - 1
      /\ \A i \in 1..Len(queue') : i + 1 \in 1..Len(queue) /\ queue'[i] = queue[i + 1]
  BY <1>1, <1>3
<1>5. /\ \A i \in 1..Len(queue) : peer[queue[i]] # "absent" /\ NotYet(queue[i])
      /\ \A i, j \in 1..Len(queue) : queue[i] = queue[j] => i = j
  BY <1>2 DEF Connections
<1>6. Types'
  BY <1>1, <1>2, <1>4 DEF Types, HeaderTypes, headers
<1>7. \A d \in Conn : Taken(d)' = Taken(d)
  BY <1>1 DEF Taken
<1>8. Streams'
  BY <1>1, <1>2, <1>7 DEF Streams
<1>9. \A d \in Conn : NotYet(d) /\ d # cur' => NotYet(d)'
  BY <1>1, <1>7 DEF NotYet
<1>10. peer[cur'] # "absent" /\ NotYet(queue[1])
  BY <1>3, <1>4, <1>5
<1>11. Connections'
  <2>1. \A d \in Conn : peer'[d] = "absent" => NotYet(d)'
    BY <1>1, <1>2, <1>9, <1>10 DEF Connections
  <2>2. ASSUME NEW i \in 1..Len(queue') PROVE peer'[queue'[i]] # "absent" /\ NotYet(queue[i])'
    <3>1. i + 1 \in 1..Len(queue) /\ queue'[i] = queue[i + 1] /\ i + 1 # 1
      BY <1>3, <1>4
    <3>2. queue'[i] \in Conn /\ peer[queue'[i]] # "absent" /\ NotYet(queue[i + 1]) /\ queue'[i] # cur'
      BY <1>3, <1>4, <1>5, <3>1
    <3>3. \A d \in Conn : d = queue'[i] => d \notin prompt /\ reply[d] = None /\ Taken(d)' = 0
      BY <1>7, <3>1, <3>2 DEF NotYet
    <3>4. Taken(queue[i])' = 0
      BY <3>2, <3>3 DEF Taken
    <3>. QED BY <1>1, <3>2, <3>3, <3>4 DEF NotYet
  <2>3. \A i, j \in 1..Len(queue') : queue'[i] = queue'[j] => i = j
    BY <1>3, <1>4, <1>5
  <2>4. (cur' = None <=> pc' \in {"wait", "dead", "astray"}) /\ (cur' # None => reply'[cur'] = None)
    BY <1>1, <1>4, <1>10, RoomAssumption DEF NotYet
  <2>. QED BY <2>1, <2>2, <2>3, <2>4 DEF Connections
<1>12. Held' /\ Parsed'
  <2>1. rpos \in 0..wpos /\ wpos = 0 /\ pos = 0
    BY <1>1, <1>2 DEF Types, Held, Reading
  <2>2. rpos' = 0 /\ wpos' = 0 /\ pos' = 0 /\ pc' = "scan"
    BY <1>1, <2>1
  <2>3. Taken(cur)' \in Int /\ Taken(cur)' >= 0
    <3>1. \A d \in Conn : d = cur' => Taken(d)' = Taken(cur)'
      BY DEF Taken
    <3>2. \A d \in Conn : Taken(d) \in Int /\ Taken(d) >= 0
      BY <1>2, StreamParts DEF Streams
    <3>. QED BY <1>4, <1>7, <3>1, <3>2
  <2>. QED BY <1>1, <1>2, <2>2, <2>3 DEF Held, Parsed, Reading, NothingParsed, headers
<1>. QED BY <1>6, <1>8, <1>11, <1>12 DEF StreamIInv

\* The server's end leaves the sockets as they are.
LEMMA DeathStream ==
  ASSUME StreamIInv, Overrun \/ HeaderFails \/ BodyFails \/ PoolFails \/ BrokenPipe
  PROVE  StreamIInv'
<1>1. /\ pc' \in {"dead", "astray"} /\ cur' = None /\ ClientEnds /\ ReaderEnds
      /\ UNCHANGED <<request, unsent, sock, peer, queue, reply, prompt>>
  BY DEF Overrun, HeaderFails, BodyFails, PoolFails, BrokenPipe, Die, Stop, sockets, loop
<1>2. Types /\ Streams /\ Connections /\ Held
  BY DEF StreamIInv
<1>3. MapRoom \in Nat /\ PoolRoom \in Nat /\ BufLen \in Nat
  BY RoomAssumption, PoolAssumption
<1>4. Types'
  <2>1. HeaderTypes' /\ body' \in Seq(Kinds)
    BY <1>1, NothingTyped
  <2>2. buf' \in [Room -> Cell] /\ rpos' = 0 /\ wpos' = 0 /\ pos' = 0
    BY <1>1 DEF ReaderEnds, Junk, Cell
  <2>. QED BY <1>1, <1>2, <1>3, <2>1, <2>2 DEF Types
<1>5. \A d \in Conn : Taken(d)' = Taken(d)
  BY <1>1 DEF Taken
<1>6. Streams'
  BY <1>1, <1>2, <1>5 DEF Streams
<1>7. \A d \in Conn : NotYet(d) => NotYet(d)'
  BY <1>1, <1>5, RoomAssumption DEF NotYet
<1>8. Connections'
  <2>1. \A i \in 1..Len(queue) : queue[i] \in Conn
    BY <1>2 DEF Types
  <2>2. \A i \in 1..Len(queue') : NotYet(queue[i])'
    BY <1>1, <1>2, <1>7, <2>1 DEF Connections
  <2>. QED BY <1>1, <1>2, <1>7, <2>2 DEF Connections
<1>9. Held' /\ Parsed'
  BY <1>1, <1>2 DEF Held, Parsed, Reading, ReaderEnds
<1>. QED BY <1>4, <1>6, <1>8, <1>9 DEF StreamIInv

\* An answer closes the connection; what it left in the socket is gone.
LEMMA RespondStream ==
  ASSUME StreamIInv, Respond
  PROVE  StreamIInv'
<1>1. /\ pc = "respond" /\ pc' = "wait" /\ cur' = None /\ ClientEnds
      /\ reply' = [reply EXCEPT ![cur] = [known |-> known, body |-> BodyFound]]
      /\ peer' = [peer EXCEPT ![cur] = "done"] /\ sock' = [sock EXCEPT ![cur] = <<>>]
      /\ UNCHANGED <<request, unsent, buf, rpos, wpos, pos, queue, prompt>>
  BY DEF Respond, reader
<1>2. Types /\ Streams /\ Connections /\ Held /\ cur \in Conn /\ MapRoom \in Nat /\ PoolRoom \in Nat
  BY <1>1, Serving, RoomAssumption, PoolAssumption DEF StreamIInv
<1>3. sock[cur] \in Seq(Kinds) /\ Len(sock[cur]) \in Nat
  BY <1>2, StreamParts
<1>4. sock' = [sock EXCEPT ![cur] = SubSeq(@, Len(sock[cur]) + 1, Len(@))]
  <2>1. SubSeq(sock[cur], Len(sock[cur]) + 1, Len(sock[cur])) = <<>>
    BY <1>3
  <2>. QED BY <1>1, <2>1
<1>5. Len(sock[cur]) \in 0..Len(sock[cur])
  BY <1>3
<1>6. /\ sock' \in [Conn -> Seq(Kinds)] /\ Streams'
      /\ \A c \in Conn : c # cur => Taken(c)' = Taken(c)
  BY <1>1, <1>2, <1>4, <1>5, SockDrops
<1>7. BodyFound \in Seq(Kinds) /\ known \in BOOLEAN
  <2>1. "BODY" \in Kinds
    BY DEF Kinds, Names
  <2>2. BodyFound \in {body, <<"BODY">>, <<>>}
    BY DEF BodyFound
  <2>3. body \in Seq(Kinds) /\ HeaderTypes
    BY <1>2 DEF Types
  <2>4. known \in BOOLEAN
    BY <2>3, Zenon DEF HeaderTypes
  <2>5. <<"BODY">> \in Seq(Kinds) /\ <<>> \in Seq(Kinds)
    BY <2>1
  <2>6. BodyFound \in Seq(Kinds)
    BY <2>2, <2>3, <2>5, Zenon
  <2>. QED BY <2>4, <2>6
<1>8. Types'
  <2>1. [known |-> known, body |-> BodyFound] \in Understood
    BY <1>7 DEF Understood
  <2>2. HeaderTypes' /\ body' \in Seq(Kinds)
    BY <1>1, NothingTyped
  <2>. QED BY <1>1, <1>2, <1>6, <2>1, <2>2 DEF Types
<1>9. /\ peer'[cur] = "done" /\ \A c \in Conn \ {cur} : peer'[c] = peer[c] /\ reply'[c] = reply[c]
  BY <1>1, <1>2 DEF Types
<1>10. \A c \in Conn : NotYet(c) => NotYet(c)'
  BY <1>1, <1>6, <1>9, RoomAssumption DEF NotYet
<1>11. Connections'
  <2>1. \A i \in 1..Len(queue) : queue[i] \in Conn /\ NotYet(queue[i]) /\ peer[queue[i]] # "absent"
    BY <1>2 DEF Types, Connections
  <2>2. \A i \in 1..Len(queue') : NotYet(queue[i])' /\ peer'[queue'[i]] # "absent"
    BY <1>1, <1>9, <1>10, <2>1 DEF NotYet
  <2>3. \A c \in Conn : peer'[c] = "absent" => NotYet(c)'
    BY <1>2, <1>9, <1>10 DEF Connections
  <2>. QED BY <1>1, <1>2, <2>2, <2>3 DEF Connections
<1>12. Held' /\ Parsed'
  BY <1>1, <1>2 DEF Held, Parsed, Reading, NothingParsed, ClientEnds
<1>. QED BY <1>6, <1>8, <1>11, <1>12 DEF StreamIInv

\* Every action keeps the stream.
LEMMA StreamStep == StreamIInv /\ [Next]_vars => StreamIInv'
<1> SUFFICES ASSUME StreamIInv, [Next]_vars PROVE StreamIInv'
  OBVIOUS
<1>1. CASE UNCHANGED vars
  <2>1. UNCHANGED <<request, unsent, sock, peer, cur, pc, buf, rpos, wpos, pos, headers, clen, body,
                    queue, reply, prompt>>
    BY <1>1 DEF vars, sockets, reader, parsed, loop
  <2>2. Types' /\ Held' /\ Parsed'
    BY <2>1 DEF StreamIInv, Types, HeaderTypes, headers, Held, Parsed, Reading, NothingParsed, Taken
  <2>3. Streams'
    BY <2>1 DEF StreamIInv, Streams, Taken
  <2>4. Connections'
    BY <2>1 DEF StreamIInv, Connections, NotYet, Taken
  <2>. QED BY <2>2, <2>3, <2>4 DEF StreamIInv
<1>2. CASE ReadStep
  BY <1>2, LineStream, CompactStream, NothingRead, ReadStream, BodyStream, MoreStream DEF ReadStep, Read
<1>3. CASE Serve
  BY <1>2, <1>3, AcceptStream, DeathStream, RespondStream DEF Serve
<1>. QED BY <1>1, <1>3, ConnectStream, PeerStream DEF Next

\* So it is kept in every reachable state.
LEMMA StreamAlways == Spec => []StreamIInv
BY StreamInit, StreamStep, PTL DEF Spec

\* Types: the positions of the buffer stay inside it, whatever the segments,
\* until a read goes past its end; a body is never longer than its
\* Content-Length.
THEOREM TypeCorrect == Spec => []TypeOK
<1>1. StreamIInv => TypeOK
  <2> SUFFICES ASSUME Types PROVE TypeOK
    BY DEF StreamIInv
  <2>1. DOMAIN buf = Room
    BY DEF Types
  <2>. QED BY <2>1 DEF Types, HeaderTypes, TypeOK, Down
<1>. QED BY <1>1, StreamAlways, PTL

\* The cells not consumed are those in the buffer, in the socket and still to
\* be sent, in the order of the request, until a read goes past the buffer.
THEOREM StreamStaysIntact == Spec => []StreamIntact
<1>1. StreamIInv => StreamIntact
  <2> SUFFICES ASSUME StreamIInv, Reading
               PROVE  IsSuffix(Buffered(wpos - rpos) \o sock[cur] \o unsent[cur], request[cur])
    BY DEF StreamIntact, Reading
  <2> DEFINE b == Buffered(wpos - rpos)
             n == wpos - rpos
             s == sock[cur]
             u == unsent[cur]
             r == request[cur]
             t == Taken(cur)
  <2>1. Types /\ Streams /\ Held /\ cur \in Conn /\ r \in Seq(Kinds) /\ t \in Int
    BY Serving DEF StreamIInv, Reading
  <2>2. n \in Nat /\ n \in 0..n /\ n <= t
    BY <2>1, Serving DEF Held
  <2>3. /\ s \in Seq(Kinds) /\ u \in Seq(Kinds) /\ Len(s) \in Nat /\ Len(u) \in Nat /\ Len(r) \in Nat
        /\ t = Len(r) - Len(u) - Len(s)
    BY <2>1, StreamParts, RequestType DEF Taken
  <2>4. /\ b \in Seq(Kinds) /\ Len(b) = n
        /\ \A j \in 1..n : b[j] = r[t - wpos + rpos + j]
    BY <2>1, <2>2, BufferedCells
  <2>5. /\ \A j \in 1..Len(u) : u[j] = r[t + Len(s) + j]
        /\ \A j \in 1..Len(s) : s[j] = r[t + j]
    BY <2>1 DEF Streams
  <2>6. wpos \in Nat /\ rpos \in Nat
    BY Serving
  <2>7. \A j \in 1..n : b[j] = r[t - n + j]
    <3> TAKE j \in 1..n
    <3>1. t - wpos + rpos + j = t - n + j
      BY <2>1, <2>6
    <3>. QED BY <2>4, <3>1
  <2> HIDE DEF b, n, s, u, r, t
  <2> DEFINE w == b \o s \o u
  <2>8. /\ w \in Seq(Kinds) /\ Len(w) = n + Len(s) + Len(u)
        /\ \A i \in 1..n : w[i] = b[i]
        /\ \A i \in n + 1..n + Len(s) : w[i] = s[i - n]
        /\ \A i \in n + Len(s) + 1..n + Len(s) + Len(u) : w[i] = u[i - n - Len(s)]
    BY <2>2, <2>3, <2>4
  <2> HIDE DEF w
  <2>9. Len(w) <= Len(r) /\ Len(r) - Len(w) = t - n
    BY <2>1, <2>2, <2>3, <2>8
  <2>10. \A i \in 1..Len(w) : w[i] = r[Len(r) - Len(w) + i]
    <3> TAKE i \in 1..Len(w)
    <3>1. CASE i \in 1..n
      BY <2>7, <2>8, <2>9, <3>1
    <3>2. CASE i \in n + 1..n + Len(s)
      <4>1. i - n \in 1..Len(s) /\ t + (i - n) = t - n + i
        BY <2>1, <2>2, <2>3, <3>2
      <4>. QED BY <2>5, <2>8, <2>9, <3>2, <4>1
    <3>3. CASE i \in n + Len(s) + 1..n + Len(s) + Len(u)
      <4>1. i - n - Len(s) \in 1..Len(u) /\ t + Len(s) + (i - n - Len(s)) = t - n + i
        BY <2>1, <2>2, <2>3, <3>3
      <4>. QED BY <2>5, <2>8, <2>9, <3>3, <4>1
    <3>. QED BY <2>2, <2>3, <2>8, <3>1, <3>2, <3>3
  <2>11. IsSuffix(w, r)
    BY <2>1, <2>8, <2>9, <2>10, SuffixByCells
  <2>. QED BY <2>11 DEF b, n, s, u, r, w
<1>. QED BY <1>1, StreamAlways, PTL

-----------------------------------------------------------------------------
(* A request that is there is read line by line *)

\* What it means for a request to fit.
LEMMA FitsParts ==
  ASSUME NEW r \in Seq(Kinds), Len(r) \in Nat \ {0}, Fits(r)
  PROVE  /\ Got(r) \in 1..Len(r) /\ Got(r) <= BufLen /\ (Got(r) < BufLen => Got(r) = Len(r))
         /\ Ends(r) = {} => Got(r) = Len(r) /\ KeyCost + Len(r) <= PoolRoom
         /\ Ends(r) # {} => /\ Min(Ends(r)) \in 1..Got(r) /\ KeyCost + (Min(Ends(r)) - 1) <= PoolRoom
                            /\ Len(Body(r)) > 0 =>
                                 KeyCost + (Min(Ends(r)) - 1) + Len(Body(r)) + KeyCost <= PoolRoom
<1>1. BufLen \in Nat \ {0} /\ PoolRoom \in Nat /\ KeyCost \in Nat
  BY RoomAssumption, PoolAssumption
<1>2. Got(r) \in 1..Len(r) /\ Got(r) <= BufLen /\ (Got(r) < BufLen => Got(r) = Len(r))
  BY <1>1 DEF Got
<1>3. HeadLen(r) <= BufLen /\ PoolNeed(r) <= PoolRoom
  BY DEF Fits
<1>4. Len(Body(r)) \in Nat /\ (Len(Body(r)) > 0 => Body(r) # <<>>)
  BY BodyOf
<1>5. CASE Ends(r) = {}
  <2>1. HeadLen(r) = Len(r) /\ PoolNeed(r) = KeyCost + Len(r) + 0
    BY <1>5, BodyOf DEF HeadLen, PoolNeed, LinesLen
  <2>. QED BY <1>1, <1>2, <1>3, <1>5, <2>1 DEF Got
<1>6. CASE Ends(r) # {}
  <2> DEFINE e == Min(Ends(r))
  <2>1. e \in 1..Len(r) /\ HeadLen(r) = e
    BY <1>6, BodyOf DEF HeadLen
  <2>2. PoolNeed(r) = KeyCost + (e - 1) + (IF Body(r) = <<>> THEN 0 ELSE Len(Body(r)) + KeyCost)
    BY <1>6 DEF PoolNeed, LinesLen
  <2> HIDE DEF e
  <2>3. e \in 1..Got(r)
    BY <1>1, <1>3, <2>1 DEF Got
  <2>4. KeyCost + (e - 1) <= PoolRoom
    <3>1. CASE Body(r) = <<>>
      BY <1>1, <1>3, <2>1, <2>2, <3>1
    <3>2. CASE Body(r) # <<>>
      BY <1>1, <1>3, <1>4, <2>1, <2>2, <3>2
    <3>. QED BY <3>1, <3>2
  <2>5. Len(Body(r)) > 0 => KeyCost + (e - 1) + Len(Body(r)) + KeyCost <= PoolRoom
    BY <1>1, <1>3, <1>4, <2>1, <2>2
  <2>. QED BY <1>2, <1>6, <2>3, <2>4, <2>5 DEF e
<1>. QED BY <1>5, <1>6

\* What the invariant says of the request being read.
LEMMA PromptParts ==
  ASSUME StreamIInv, PromptIInv, cur \in prompt, NEW r, r = request[cur], Fits(r)
  PROVE  /\ cur \in Conn /\ r \in Seq(Kinds) /\ Len(r) \in Nat \ {0} /\ BufLen \in Nat \ {0}
         /\ wpos \in Nat /\ rpos \in Nat /\ rpos <= wpos /\ wpos <= BufLen
         /\ used \in Nat /\ KeyCost \in Nat \ {0} /\ PoolRoom \in Nat
         /\ unsent[cur] = <<>> /\ peer[cur] = "open" /\ clen \in {0, Len(Body(r))} /\ clen \in Nat
         /\ Where(r)
         /\ Len(sock[cur]) = Len(r) - Taken(cur) /\ (Taken(cur) = Len(r) => sock[cur] = <<>>)
<1>1. Types
  BY DEF StreamIInv
<1>2. cur \in Conn
  BY <1>1 DEF Types
<1>3. /\ unsent[cur] = <<>> /\ peer[cur] = "open" /\ clen \in {0, Len(Body(r))} /\ Where(r)
  BY DEF PromptIInv
<1>4. r \in Seq(Kinds) /\ Len(r) \in Nat \ {0} /\ BufLen \in Nat \ {0}
  BY <1>1, <1>2, RequestType
<1>5. sock[cur] \in Seq(Kinds) /\ Len(sock[cur]) \in Nat
  BY <1>1, <1>2, StreamParts
<1>6. Len(unsent[cur]) = 0
  BY <1>3
<1>7. Len(sock[cur]) = Len(r) - Taken(cur)
  BY <1>4, <1>5, <1>6 DEF Taken
<1>8. Taken(cur) = Len(r) => sock[cur] = <<>>
  <2>1. Taken(cur) = Len(r) => Len(sock[cur]) = 0
    BY <1>4, <1>7
  <2>. QED BY <1>5, <2>1
<1>9. used \in Nat /\ KeyCost \in Nat \ {0} /\ PoolRoom \in Nat
  BY <1>1, PoolAssumption DEF Types, HeaderTypes
<1>. QED BY <1>2, <1>3, <1>4, <1>7, <1>8, <1>9, Serving

\* What a step has to show of the request it leaves the server with.
LEMMA PromptFrom ==
  ASSUME NEW r,
         (cur' \in prompt' /\ Fits(request'[cur'])) =>
           /\ r = request'[cur'] /\ unsent'[cur'] = <<>> /\ peer'[cur'] = "open" /\ clen' \in {0, Len(Body(r))}
           /\ Where(r)'
  PROVE  PromptIInv'
BY DEF PromptIInv, Where, Untouched, InLines, NoLine, AtBody, InBody, Understands, FreshFrom, Counted, BodyKept

\* Where the server is with it while it looks for a line.
LEMMA Scanning ==
  ASSUME StreamIInv, PromptIInv, cur \in prompt, NEW r, r = request[cur], Fits(r), pc = "scan", Newlines # {}
  PROVE  InLines(r)
<1>1. Where(r) /\ wpos \in Nat /\ rpos \in Nat
  BY PromptParts
<1>2. ~Untouched(r)
  BY <1>1 DEF Untouched, Newlines
<1>3. ~NoLine(r)
  BY DEF NoLine, Newlines
<1>. QED BY <1>1, <1>2, <1>3 DEF Where, AtBody, InBody, Understands

\* The next line of a request ends with its first cell that ends a line; the
\* blank line is the one that begins with its end.
LEMMA LineInRequest ==
  ASSUME StreamIInv, PromptIInv, cur \in prompt, NEW r, r = request[cur], Fits(r), InLines(r), Newlines # {}
  PROVE  /\ LineEnd \in rpos..wpos - 1 /\ LineEnd + 1 \in 1..Len(r)
         /\ \A i \in rpos..LineEnd : i + 1 \in 1..Len(r) /\ i \in Room /\ buf[i] = Fresh(r[i + 1])
         /\ r[LineEnd + 1] \notin {"name", "data"}
         /\ \A i \in rpos..LineEnd - 1 : r[i + 1] \in {"name", "data"}
         /\ buf[LineEnd].kind = "end" => LineEnd = rpos /\ rpos + 1 = Min(Ends(r)) /\ Ends(r) # {}
         /\ buf[LineEnd].kind # "end" => (Ends(r) # {} => LineEnd + 1 < Min(Ends(r)))
<1>1. /\ cur \in Conn /\ r \in Seq(Kinds) /\ Len(r) \in Nat \ {0} /\ BufLen \in Nat
      /\ wpos \in Nat /\ rpos \in Nat /\ rpos <= wpos /\ wpos <= BufLen
      /\ Got(r) \in 1..Len(r)
  BY PromptParts, FitsParts
<1>2. /\ wpos = Got(r) /\ \A i \in rpos..Got(r) - 1 : buf[i] = Fresh(r[i + 1])
      /\ Ends(r) # {} => rpos < Min(Ends(r))
  BY DEF InLines, FreshFrom
<1>3. /\ LineEnd \in rpos..wpos - 1 /\ buf[LineEnd].eol = "newline"
      /\ \A i \in rpos..LineEnd - 1 : buf[i].eol # "newline"
  BY LineOf DEF StreamIInv
<1>4. \A i \in rpos..LineEnd : i + 1 \in 1..Len(r) /\ i \in Room /\ i \in rpos..Got(r) - 1 /\ buf[i] = Fresh(r[i + 1])
  BY <1>1, <1>2, <1>3 DEF Room
<1>5. LineEnd \in rpos..LineEnd /\ LineEnd + 1 \in 1..Len(r)
  BY <1>1, <1>2, <1>3
<1>6. \A k \in Kinds : Fresh(k).kind = k /\ (Fresh(k).eol = "newline" <=> k \notin {"name", "data"})
  BY DEF Fresh
<1>7. \A i \in rpos..LineEnd : r[i + 1] \in Kinds
  BY <1>1, <1>4
<1>8. r[LineEnd + 1] \notin {"name", "data"} /\ buf[LineEnd].kind = r[LineEnd + 1]
  BY <1>3, <1>4, <1>5, <1>6, <1>7
<1>9. \A i \in rpos..LineEnd - 1 : r[i + 1] \in {"name", "data"}
  <2> TAKE i \in rpos..LineEnd - 1
  <2>1. i \in rpos..LineEnd
    BY <1>1, <1>3
  <2>. QED BY <1>3, <1>4, <1>6, <1>7, <2>1
<1>10. ASSUME Ends(r) # {}
       PROVE  LineEnd + 1 <= Min(Ends(r)) /\ (LineEnd + 1 = Min(Ends(r)) => LineEnd = rpos)
  <2> DEFINE e == Min(Ends(r))
  <2>1. e \in 1..Len(r) /\ r[e] = "end" /\ rpos < e
    BY <1>1, <1>2, <1>10, BodyOf
  <2>2. e = 1 \/ r[e - 1] \notin {"name", "data"}
    <3>1. request \in Loads
      BY DEF StreamIInv, Types
    <3>. QED BY <1>1, <1>10, <3>1, BlankLines
  <2> HIDE DEF e
  <2>3. ~(e - 1 \in rpos..LineEnd - 1)
    <3> SUFFICES ASSUME e - 1 \in rpos..LineEnd - 1 PROVE FALSE
      OBVIOUS
    <3>1. r[(e - 1) + 1] \in {"name", "data"}
      BY <1>9
    <3>2. (e - 1) + 1 = e
      BY <2>1
    <3>. QED BY <2>1, <3>1, <3>2
  <2>4. e - 1 >= LineEnd
    BY <1>1, <1>3, <2>1, <2>3
  <2>5. e - 1 = LineEnd => LineEnd = rpos
    <3> SUFFICES ASSUME e - 1 = LineEnd, LineEnd # rpos PROVE FALSE
      OBVIOUS
    <3>1. e - 2 \in rpos..LineEnd - 1 /\ (e - 2) + 1 = e - 1 /\ e # 1
      BY <1>1, <1>3, <2>1
    <3>2. r[e - 1] \in {"name", "data"}
      BY <1>9, <3>1
    <3>. QED BY <2>2, <3>1, <3>2
  <2>. QED BY <1>1, <1>3, <2>1, <2>4, <2>5 DEF e
<1>11. ASSUME buf[LineEnd].kind = "end" PROVE LineEnd = rpos /\ rpos + 1 = Min(Ends(r)) /\ Ends(r) # {}
  <2>1. LineEnd + 1 \in Ends(r)
    <3>1. r[LineEnd + 1] = "end"
      BY <1>8, <1>11
    <3>2. LineEnd + 1 \in DOMAIN r
      BY <1>1, <1>5
    <3>. QED BY <3>1, <3>2 DEF Ends
  <2>2. Min(Ends(r)) \in 1..Len(r) /\ Min(Ends(r)) <= LineEnd + 1
    <3>1. r[LineEnd + 1] = "end" /\ Ends(r) # {}
      BY <1>8, <1>11, <2>1
    <3>. QED BY <1>1, <1>5, <3>1, BodyOf
  <2>3. LineEnd + 1 <= Min(Ends(r)) /\ (LineEnd + 1 = Min(Ends(r)) => LineEnd = rpos)
    BY <1>10, <2>1
  <2>4. LineEnd + 1 = Min(Ends(r))
    BY <1>5, <2>2, <2>3
  <2>. QED BY <2>1, <2>3, <2>4
<1>12. ASSUME buf[LineEnd].kind # "end", Ends(r) # {} PROVE LineEnd + 1 < Min(Ends(r))
  <2>1. Min(Ends(r)) \in 1..Len(r) /\ r[Min(Ends(r))] = "end"
    BY <1>1, <1>12, BodyOf
  <2>2. LineEnd + 1 # Min(Ends(r))
    BY <1>8, <1>12, <2>1
  <2>3. LineEnd + 1 <= Min(Ends(r))
    BY <1>10, <1>12
  <2>. QED BY <1>5, <2>1, <2>2, <2>3
<1>. QED BY <1>3, <1>4, <1>5, <1>8, <1>9, <1>11, <1>12

\* The text of that line is its cells.
LEMMA TextOf ==
  ASSUME StreamIInv, PromptIInv, cur \in prompt, NEW r, r = request[cur], Fits(r), InLines(r), Newlines # {}
  PROVE  LET t == TextAt(Terminated, pos)
         IN  /\ Len(t) = LineEnd - rpos + 1 /\ Len(t) >= 1
             /\ \A j \in 1..Len(t) : t[j] = r[rpos + j] /\ t[j] \in Kinds
<1>1. /\ cur \in Conn /\ r \in Seq(Kinds) /\ Len(r) \in Nat \ {0} /\ BufLen \in Nat
      /\ wpos \in Nat /\ rpos \in Nat /\ rpos <= wpos /\ wpos <= BufLen
  BY PromptParts
<1>2. /\ LineEnd \in rpos..wpos - 1
      /\ \A i \in rpos..LineEnd : i + 1 \in 1..Len(r) /\ i \in Room /\ buf[i] = Fresh(r[i + 1])
  BY LineInRequest
<1>3. /\ \A i \in Room : /\ Terminated[i].kind = buf[i].kind
                         /\ Terminated[i].eol = IF i = LineEnd THEN "nul" ELSE buf[i].eol
  BY LineOf DEF StreamIInv
<1>4. pos = rpos
  BY DEF InLines
<1>5. \A k : Fresh(k).kind = k /\ Fresh(k).eol # "nul"
  BY DEF Fresh
<1> DEFINE b == Terminated
           nuls == {i \in pos .. BufLen - 1 : b[i].eol = "nul"}
           last == Min(nuls)
<1>6. LineEnd \in nuls /\ \A i \in nuls : LineEnd <= i
  <2>1. LineEnd \in rpos..LineEnd /\ LineEnd \in rpos..BufLen - 1 /\ LineEnd \in Room
    BY <1>1, <1>2
  <2>2. LineEnd \in nuls
    BY <1>3, <1>4, <2>1
  <2>3. \A i \in rpos..LineEnd - 1 : b[i].eol # "nul"
    <3> TAKE i \in rpos..LineEnd - 1
    <3>1. i \in rpos..LineEnd /\ i # LineEnd
      BY <1>1, <1>2
    <3>. QED BY <1>2, <1>3, <1>5, <3>1
  <2>4. ASSUME NEW i \in nuls PROVE LineEnd <= i
    <3>1. i \in rpos..BufLen - 1 /\ b[i].eol = "nul"
      BY <1>4
    <3>2. ~(i \in rpos..LineEnd - 1)
      BY <2>3, <3>1
    <3>. QED BY <1>1, <1>2, <3>1, <3>2
  <2>. QED BY <2>2, <2>4
<1>7. last = LineEnd
  <2>1. nuls \in SUBSET Nat /\ nuls # {}
    BY <1>1, <1>4, <1>6
  <2>2. Min(nuls) \in nuls /\ \A i \in nuls : Min(nuls) <= i
    BY <2>1, MinOf, Zenon
  <2>3. Min(nuls) <= LineEnd /\ LineEnd <= Min(nuls) /\ Min(nuls) \in Nat
    BY <1>6, <2>1, <2>2
  <2>. QED BY <1>1, <1>2, <2>1, <2>3
<1> DEFINE t == [j \in 1 .. last - pos + 1 |-> b[pos + j - 1].kind]
<1>8. TextAt(Terminated, pos) = t
  <2>1. nuls # {}
    BY <1>6
  <2>. QED BY <2>1, Zenon DEF TextAt
<1> HIDE DEF nuls
<1> HIDE DEF last
<1>9. \A j \in 1..LineEnd - rpos + 1 : b[rpos + j - 1].kind = r[rpos + j] /\ r[rpos + j] \in Kinds
  <2> TAKE j \in 1..LineEnd - rpos + 1
  <2>1. rpos + j - 1 \in rpos..LineEnd /\ (rpos + j - 1) + 1 = rpos + j
    BY <1>1, <1>2
  <2>2. buf[rpos + j - 1] = Fresh(r[rpos + j]) /\ rpos + j - 1 \in Room /\ rpos + j \in 1..Len(r)
    BY <1>2, <2>1
  <2>. QED BY <1>1, <1>3, <1>5, <2>2
<1> HIDE DEF b
<1>10. t = [j \in 1 .. LineEnd - rpos + 1 |-> b[rpos + j - 1].kind]
  BY <1>4, <1>7
<1> HIDE DEF t
<1>11. LineEnd - rpos + 1 \in Nat /\ LineEnd - rpos + 1 >= 1
  BY <1>1, <1>2
<1>12. t \in Seq(Kinds) /\ Len(t) = LineEnd - rpos + 1
  <2>1. t \in [1..LineEnd - rpos + 1 -> Kinds]
    BY <1>9, <1>10
  <2>. QED BY <1>11, <2>1
<1>13. \A j \in 1..Len(t) : t[j] = r[rpos + j] /\ t[j] \in Kinds
  BY <1>9, <1>10, <1>12
<1>. QED BY <1>8, <1>11, <1>12, <1>13, Zenon

\* The names up to a line, and with one header line more.
LEMMA NamesGrow ==
  ASSUME NEW r \in Seq(Kinds), NEW m \in Nat, NEW n \in Nat, m < n, n <= Len(r)
  PROVE  /\ (\A i \in m + 1..n : r[i] \notin Names) => NamesTo(r, n) = NamesTo(r, m)
         /\ (r[m + 1] \in Names /\ \A i \in m + 2..n : r[i] \notin Names) =>
              NamesTo(r, n) = NamesTo(r, m) \cup {r[m + 1]}
<1>1. \A i \in 1..m : i \in 1..n
  OBVIOUS
<1>2. ASSUME \A i \in m + 1..n : r[i] \notin Names
      PROVE  NamesTo(r, n) = NamesTo(r, m)
  <2>1. \A i \in 1..n : i \in 1..m \/ i \in m + 1..n
    OBVIOUS
  <2>. QED BY <1>1, <1>2, <2>1 DEF NamesTo
<1>3. ASSUME r[m + 1] \in Names, \A i \in m + 2..n : r[i] \notin Names
      PROVE  NamesTo(r, n) = NamesTo(r, m) \cup {r[m + 1]}
  <2>1. \A i \in 1..n : i \in 1..m \/ i = m + 1 \/ i \in m + 2..n
    OBVIOUS
  <2>2. m + 1 \in 1..n
    OBVIOUS
  <2>. QED BY <1>1, <1>3, <2>1, <2>2 DEF NamesTo
<1>. QED BY <1>2, <1>3

\* In a request, the line after the request line or a header is a header with
\* one name, if it is not blank.
LEMMA HeaderInRequest ==
  ASSUME StreamIInv, PromptIInv, cur \in prompt, NEW r, r = request[cur], Fits(r), InLines(r), Newlines # {},
         IsRequest(r), rpos > 0, buf[LineEnd].kind # "end"
  PROVE  /\ r[rpos + 1] \in {"name"} \cup Fields /\ \A i \in rpos + 2..LineEnd + 1 : r[i] = "num"
         /\ r[rpos + 1] = "name" => LineEnd = rpos + 1
         /\ r[rpos + 1] \in Fields => LineEnd = rpos
<1>1. /\ cur \in Conn /\ r \in Seq(Kinds) /\ Len(r) \in Nat \ {0}
      /\ wpos \in Nat /\ rpos \in Nat /\ rpos <= wpos
  BY PromptParts
<1> DEFINE e == Min(Ends(r))
<1>2. /\ Ends(r) # {} /\ e \in 2..Len(r)
      /\ \A i \in 2..e - 1 : r[i] \in {"name", "num"} \cup Fields
      /\ \A i \in 2..e : r[i] = "num" <=> r[i - 1] = "name"
  BY <1>1, EndOfRequest
<1>3. /\ LineEnd \in rpos..wpos - 1 /\ LineEnd + 1 < e
      /\ r[LineEnd + 1] \notin {"name", "data"}
      /\ \A i \in rpos..LineEnd - 1 : r[i + 1] \in {"name", "data"}
  BY <1>2, LineInRequest
<1>4. r[rpos] \notin {"name", "data"}
  BY DEF InLines
<1> HIDE DEF e
<1>5. r[rpos + 1] \in {"name"} \cup Fields
  <2>1. rpos + 1 \in 2..e - 1 /\ rpos + 1 \in 2..e /\ (rpos + 1) - 1 = rpos
    BY <1>1, <1>2, <1>3
  <2>2. r[rpos + 1] # "num"
    BY <1>2, <1>4, <2>1
  <2>. QED BY <1>2, <2>1, <2>2
<1>6. r[rpos + 1] \in Fields => LineEnd = rpos
  <2>1. LineEnd # rpos => rpos \in rpos..LineEnd - 1
    BY <1>1, <1>3
  <2>2. \A f \in Fields : f \notin {"name", "data"}
    BY FieldsAssumption
  <2>. QED BY <1>3, <2>1, <2>2
<1>7. ASSUME r[rpos + 1] = "name" PROVE LineEnd = rpos + 1 /\ r[rpos + 2] = "num"
  <2>1. LineEnd # rpos
    BY <1>3, <1>7
  <2>2. rpos + 2 \in 2..e /\ (rpos + 2) - 1 = rpos + 1
    BY <1>1, <1>2, <1>3, <2>1
  <2>3. r[rpos + 2] = "num"
    BY <1>2, <1>7, <2>2
  <2>4. ~(rpos + 1 \in rpos..LineEnd - 1)
    <3>1. (rpos + 1) + 1 = rpos + 2
      BY <1>1
    <3>. QED BY <1>3, <2>3, <3>1
  <2>. QED BY <1>1, <1>3, <2>1, <2>3, <2>4
<1>8. \A i \in rpos + 2..LineEnd + 1 : r[i] = "num"
  <2>1. r[rpos + 1] \in Fields => rpos + 2 > LineEnd + 1
    BY <1>1, <1>6
  <2>2. r[rpos + 1] = "name" => \A i \in rpos + 2..LineEnd + 1 : i = rpos + 2
    BY <1>1, <1>7
  <2>. QED BY <1>1, <1>3, <1>5, <1>7, <2>1, <2>2
<1>. QED BY <1>5, <1>6, <1>7, <1>8

\* The header map after one more header line: a full map drops it.
LEMMA HeaderCounted ==
  ASSUME NEW r \in Seq(Kinds), NEW m \in Nat, NEW n \in Nat, m < n, n <= Len(r), Counted(r, m),
         MapRoom \in Nat \ {0}, entries \in 0..MapRoom, known' = known,
         r[m + 1] \in {"name"} \cup Fields, \A i \in m + 2..n : r[i] = "num", Put(r[m + 1]),
         clen' = IF r[m + 1] = "name" /\ Kept(r[m + 1]) THEN Len(Body(r)) ELSE clen
  PROVE  Counted(r, n)'
<1>1. PICK f : f = r[m + 1]
  OBVIOUS
<1>2. f \in Names /\ f # "REQUEST" /\ "num" \notin Names
  BY <1>1, FieldsAssumption DEF Names
<1>3. NamesTo(r, n) = NamesTo(r, m) \cup {f}
  BY <1>1, <1>2, NamesGrow
<1>4. /\ known /\ "REQUEST" \in names /\ names \subseteq {"REQUEST"} \cup NamesTo(r, m)
      /\ IsFiniteSet(NamesTo(r, m)) /\ entries = Cardinality(names)
      /\ entries < MapRoom => names = {"REQUEST"} \cup NamesTo(r, m)
      /\ "name" \in names => clen = Len(Body(r))
  BY DEF Counted
<1>5. IsFiniteSet(NamesTo(r, n)) /\ IsFiniteSet(names)
  <2>1. IsFiniteSet({"REQUEST"} \cup NamesTo(r, m)) /\ IsFiniteSet(NamesTo(r, m) \cup {f})
    BY <1>4, FS_AddElement
  <2>. QED BY <1>3, <1>4, <2>1, FS_Subset
<1>6. /\ names' = IF Kept(f) THEN names \union {f} ELSE names
      /\ entries' = IF Kept(f) /\ f \notin names THEN entries + 1 ELSE entries
      /\ clen' = IF f = "name" /\ Kept(f) THEN Len(Body(r)) ELSE clen
  BY <1>1 DEF Put
<1>7. Kept(f) <=> f \in names \/ entries < MapRoom
  BY DEF Kept
<1>8. entries' = Cardinality(names')
  <2>1. f \notin names => Cardinality(names \cup {f}) = Cardinality(names) + 1
    BY <1>5, FS_AddElement
  <2>2. f \in names => names \cup {f} = names
    OBVIOUS
  <2>. QED BY <1>4, <1>6, <2>1, <2>2
<1>9. /\ "REQUEST" \in names' /\ names' \subseteq {"REQUEST"} \cup NamesTo(r, n)
      /\ entries' < MapRoom => names' = {"REQUEST"} \cup NamesTo(r, n)
  <2>1. entries' < MapRoom => entries < MapRoom
    BY <1>6
  <2>. QED BY <1>3, <1>4, <1>6, <1>7, <2>1
<1>10. "name" \in names' => clen' = Len(Body(r))
  BY <1>4, <1>6
<1>. QED BY <1>4, <1>5, <1>8, <1>9, <1>10 DEF Counted

\* A header line takes its own length of the pool, and is put under its own
\* name, with the body's length if it is Content-Length.
LEMMA HeaderPut ==
  ASSUME StreamIInv, PromptIInv, cur \in prompt, NEW r, r = request[cur], Fits(r), InLines(r), Newlines # {}
  PROVE  LET t == TextAt(Terminated, pos)
         IN  /\ Costs(t) = {LineEnd + 1 - rpos}
             /\ PutHeader(t) => clen' \in {0, Len(Body(r))}
             /\ PutHeader(t) /\ IsRequest(r) /\ rpos > 0 /\ buf[LineEnd].kind # "end" =>
                  /\ Put(r[rpos + 1]) /\ known' = known
                  /\ clen' = IF r[rpos + 1] = "name" /\ Kept(r[rpos + 1]) THEN Len(Body(r)) ELSE clen
<1> DEFINE t == TextAt(Terminated, pos)
<1>1. /\ Len(t) = LineEnd - rpos + 1 /\ Len(t) >= 1
      /\ \A j \in 1..Len(t) : t[j] = r[rpos + j] /\ t[j] \in Kinds
  BY TextOf
<1>2. clen \in {0, Len(Body(r))} /\ rpos \in Nat /\ wpos \in Nat /\ known \in BOOLEAN
  BY PromptParts DEF StreamIInv, Types, HeaderTypes
<1>3. LineEnd \in rpos..wpos - 1
  BY LineInRequest
<1>t. DOMAIN t = 1..Len(t)
  BY TextLength, RoomAssumption DEF StreamIInv, Types
<1> HIDE DEF t
<1>4. LineEnd \in Nat /\ Len(t) \in Nat /\ 1 \in 1..Len(t)
  BY <1>1, <1>2, <1>3
<1>5. "junk" \notin Kinds /\ \A k \in Kinds : k # "junk"
  BY FieldsAssumption DEF Kinds, Names
<1>6. t[1] = r[rpos + 1] /\ t[1] \in Kinds /\ t[1] # "junk"
  BY <1>1, <1>4, <1>5
<1>7. Len(t) > 1 => Second(t) = r[rpos + 2]
  <2>1. Len(t) > 1 => 2 \in 1..Len(t)
    BY <1>4
  <2>. QED BY <1>1, <2>1 DEF Second
<1>8. Second(t) # "junk"
  <2>1. Len(t) > 1 => Second(t) \in Kinds
    <3>1. Len(t) > 1 => 2 \in 1..Len(t)
      BY <1>4
    <3>. QED BY <1>1, <3>1 DEF Second
  <2>. QED BY <1>5, <2>1 DEF Second
<1>9. Costs(t) = {LineEnd + 1 - rpos}
  <2>1. \A j \in DOMAIN t : t[j] # "junk"
    BY <1>1, <1>5, <1>t
  <2>2. Len(t) = LineEnd + 1 - rpos
    BY <1>1, <1>2, <1>4
  <2>. QED BY <2>1, <2>2 DEF Costs
<1>10. LengthsRead(t) \subseteq {0, Len(Body(r))}
  BY <1>6, <1>8 DEF LengthsRead
<1>11. PutHeader(t) => clen' \in LengthsRead(t) \/ clen' = clen
  BY DEF PutHeader
<1>12. ASSUME PutHeader(t), IsRequest(r), rpos > 0, buf[LineEnd].kind # "end"
       PROVE  /\ Put(r[rpos + 1]) /\ known' = known
              /\ clen' = IF r[rpos + 1] = "name" /\ Kept(r[rpos + 1]) THEN Len(Body(r)) ELSE clen
  <2>1. /\ r[rpos + 1] \in {"name"} \cup Fields /\ \A i \in rpos + 2..LineEnd + 1 : r[i] = "num"
        /\ r[rpos + 1] = "name" => LineEnd = rpos + 1
    BY <1>12, HeaderInRequest
  <2>2. r[rpos + 1] \in Names /\ r[rpos + 1] # "REQUEST"
    BY <2>1, FieldsAssumption DEF Names
  <2>3. r[rpos + 1] = "name" => Second(t) = "num"
    <3>1. ASSUME r[rpos + 1] = "name" PROVE Len(t) > 1 /\ rpos + 2 \in rpos + 2..LineEnd + 1
      BY <1>1, <1>2, <2>1, <3>1
    <3>. QED BY <1>7, <2>1, <3>1
  <2>4. ~Misread(t)
    BY <1>6, <2>2, <2>3 DEF Misread
  <2>5. NamesRead(t) = {r[rpos + 1]}
    BY <1>6, <2>2 DEF NamesRead
  <2>6. PICK name \in NamesRead(t) :
          /\ Put(name)
          /\ clen' \in IF name = "name" /\ Kept(name) THEN LengthsRead(t) ELSE {clen}
          /\ known' = (known /\ name # "REQUEST")
    BY <1>12, <2>4 DEF PutHeader
  <2>7. name = r[rpos + 1]
    BY <2>5, <2>6
  <2>8. r[rpos + 1] = "name" => LengthsRead(t) = {Len(Body(r))}
    BY <1>6, <1>8, <2>3 DEF LengthsRead
  <2>9. known' = known
    BY <1>2, <2>2, <2>6, <2>7
  <2>10. clen' = IF r[rpos + 1] = "name" /\ Kept(r[rpos + 1]) THEN Len(Body(r)) ELSE clen
    BY <2>6, <2>7, <2>8
  <2>. QED BY <2>6, <2>7, <2>9, <2>10
<1>13. PutHeader(t) => clen' \in {0, Len(Body(r))}
  BY <1>2, <1>10, <1>11
<1>. QED BY <1>9, <1>12, <1>13 DEF t

\* The pool has room for the lines of a request that fits, one after the other.
LEMMA LineCost ==
  ASSUME StreamIInv, PromptIInv, cur \in prompt, NEW r, r = request[cur], Fits(r), InLines(r), Newlines # {},
         buf[LineEnd].kind # "end"
  PROVE  KeyCost + (LineEnd + 1) <= PoolRoom
<1>1. r \in Seq(Kinds) /\ Len(r) \in Nat \ {0} /\ KeyCost \in Nat /\ PoolRoom \in Nat
  BY PromptParts
<1>2. LineEnd + 1 \in 1..Len(r) /\ (Ends(r) # {} => LineEnd + 1 < Min(Ends(r)))
  BY LineInRequest
<1>3. CASE Ends(r) = {}
  <2>1. KeyCost + Len(r) <= PoolRoom
    BY <1>1, <1>3, FitsParts
  <2>. QED BY <1>1, <1>2, <2>1
<1>4. CASE Ends(r) # {}
  <2> DEFINE e == Min(Ends(r))
  <2>1. e \in 1..Len(r) /\ KeyCost + (e - 1) <= PoolRoom
    BY <1>1, <1>4, BodyOf, FitsParts
  <2>2. LineEnd + 1 < e
    BY <1>2, <1>4
  <2> HIDE DEF e
  <2>. QED BY <1>1, <1>2, <2>1, <2>2
<1>. QED BY <1>3, <1>4

\* The request line is put under REQUEST.
LEMMA FirstLine ==
  ASSUME StreamIInv, PromptIInv, cur \in prompt, NEW r, r = request[cur], Fits(r), InLines(r), RequestLine,
         buf[LineEnd].kind # "end"
  PROVE  /\ rpos = 0 /\ clen' = clen /\ used' = KeyCost + rpos'
         /\ IsRequest(r) => Counted(r, rpos)'
<1>1. /\ pc = "scan" /\ Newlines # {} /\ buf' = Terminated /\ rpos' = LineEnd + 1 /\ pos = 0 /\ clen' = clen
      /\ Put("REQUEST")
  BY DEF RequestLine, Line
<1>2. /\ LineEnd \in rpos..wpos - 1 /\ LineEnd + 1 \in 1..Len(r) /\ Len(r) \in Nat /\ rpos \in Nat /\ wpos \in Nat
      /\ \A i \in rpos..LineEnd - 1 : r[i + 1] \in {"name", "data"}
      /\ KeyCost \in Nat \ {0} /\ PoolRoom \in Nat
  BY <1>1, LineInRequest, PromptParts
<1>3. rpos = 0 /\ NothingParsed
  BY <1>1 DEF InLines, StreamIInv, Parsed, Reading
<1>4. Len(TextAt(buf', 0)) = LineEnd + 1
  <2>1. Len(TextAt(Terminated, pos)) = LineEnd - rpos + 1
    BY <1>1, TextOf
  <2>. QED BY <1>1, <1>2, <1>3, <2>1
<1>5. KeyCost + (LineEnd + 1) <= PoolRoom
  BY <1>1, LineCost
<1>6. known' = (KeyCost + Len(TextAt(buf', 0)) <= PoolRoom)
      /\ used' = IF KeyCost + Len(TextAt(buf', 0)) <= PoolRoom THEN KeyCost + Len(TextAt(buf', 0)) ELSE KeyCost
  BY DEF RequestLine
<1>7. known' /\ used' = KeyCost + rpos'
  BY <1>1, <1>4, <1>5, <1>6
<1>8. names' = {"REQUEST"} /\ entries' = 1
  <2>1. names = {} /\ entries = 0 /\ MapRoom \in Nat \ {0}
    BY <1>3, RoomAssumption DEF NothingParsed
  <2>2. Kept("REQUEST") /\ "REQUEST" \notin names
    BY <2>1 DEF Kept
  <2>. QED BY <1>1, <2>1, <2>2 DEF Put
<1>9. ASSUME IsRequest(r) PROVE Counted(r, rpos)'
  <2>1. r[1] = "req"
    BY <1>9 DEF IsRequest
  <2>2. rpos' = 1
    <3>1. ~(0 \in rpos..LineEnd - 1)
      BY <1>2, <2>1
    <3>. QED BY <1>1, <1>2, <1>3, <3>1
  <2>3. NamesTo(r, 1) = {}
    <3>1. "req" \notin Names
      BY FieldsAssumption DEF Names
    <3>2. \A i \in 1..1 : r[i] \notin Names
      BY <2>1, <3>1
    <3>. QED BY <3>2 DEF NamesTo
  <2>4. IsFiniteSet({}) /\ Cardinality({"REQUEST"}) = 1
    BY FS_EmptySet, FS_Singleton
  <2>5. Counted(r, 1)'
    BY <1>7, <1>8, <2>3, <2>4 DEF Counted
  <2>. QED BY <2>2, <2>5
<1>. QED BY <1>1, <1>3, <1>7, <1>9

\* A header line is counted with those before it.
LEMMA NextLine ==
  ASSUME StreamIInv, PromptIInv, cur \in prompt, NEW r, r = request[cur], Fits(r), InLines(r), HeaderLine,
         buf[LineEnd].kind # "end"
  PROVE  /\ clen' \in {0, Len(Body(r))} /\ used' = used + (LineEnd + 1 - rpos)
         /\ IsRequest(r) => Counted(r, rpos)'
<1>1. /\ pc = "scan" /\ Newlines # {} /\ buf' = Terminated /\ rpos' = LineEnd + 1 /\ pos > 0 /\ pos = rpos
      /\ PutHeader(TextAt(Terminated, pos))
      /\ \E cost \in Costs(TextAt(Terminated, pos)) : used' = used + cost
  BY DEF HeaderLine, Line, InLines
<1>2. Costs(TextAt(Terminated, pos)) = {LineEnd + 1 - rpos} /\ clen' \in {0, Len(Body(r))}
  BY <1>1, HeaderPut
<1>3. ASSUME IsRequest(r) PROVE Counted(r, rpos)'
  <2>1. /\ Put(r[rpos + 1]) /\ known' = known
        /\ clen' = IF r[rpos + 1] = "name" /\ Kept(r[rpos + 1]) THEN Len(Body(r)) ELSE clen
    BY <1>1, <1>3, HeaderPut
  <2>2. r[rpos + 1] \in {"name"} \cup Fields /\ \A i \in rpos + 2..rpos' : r[i] = "num"
    BY <1>1, <1>3, HeaderInRequest
  <2>3. Counted(r, rpos)
    BY <1>1, <1>3 DEF InLines
  <2>4. /\ r \in Seq(Kinds) /\ rpos \in Nat /\ rpos' \in Nat /\ rpos < rpos' /\ rpos' <= Len(r)
        /\ MapRoom \in Nat \ {0} /\ entries \in 0..MapRoom
    <3>1. LineEnd \in rpos..wpos - 1 /\ LineEnd + 1 \in 1..Len(r)
      BY <1>1, LineInRequest
    <3>2. r \in Seq(Kinds) /\ Len(r) \in Nat /\ rpos \in Nat /\ wpos \in Nat
      BY PromptParts
    <3>. QED BY <1>1, <3>1, <3>2, RoomAssumption DEF StreamIInv, Types, HeaderTypes
  <2>5. \A m, n \in Nat : m = rpos /\ n = rpos' => Counted(r, n)'
    BY <2>1, <2>2, <2>3, <2>4, HeaderCounted
  <2>. QED BY <2>4, <2>5 DEF Counted
<1>. QED BY <1>1, <1>2, <1>3

\* A line read leaves the request in its lines, with what it said counted.
LEMMA LinePrompt ==
  ASSUME StreamIInv, PromptIInv, RequestLine \/ HeaderLine, UNCHANGED loop
  PROVE  PromptIInv'
<1>1. /\ pc = "scan" /\ pc' = "scan" /\ Newlines # {} /\ buf' = Terminated
      /\ rpos' = LineEnd + 1 /\ pos' = LineEnd + 1 /\ (buf[LineEnd].kind # "end" \/ LineEnd > rpos)
      /\ UNCHANGED <<request, unsent, sock, peer, cur, wpos, prompt>>
  BY DEF RequestLine, HeaderLine, Line, sockets, loop
<1> SUFFICES ASSUME cur \in prompt, Fits(request[cur]) PROVE PromptIInv'
  BY <1>1 DEF PromptIInv
<1>2. PICK r : r = request[cur]
  OBVIOUS
<1>f. Fits(r)
  BY <1>2
<1>3. /\ cur \in Conn /\ r \in Seq(Kinds) /\ Len(r) \in Nat \ {0} /\ BufLen \in Nat
      /\ wpos \in Nat /\ rpos \in Nat /\ rpos <= wpos /\ wpos <= BufLen /\ used \in Nat /\ KeyCost \in Nat
      /\ unsent[cur] = <<>> /\ peer[cur] = "open" /\ clen \in {0, Len(Body(r))}
  BY <1>2, <1>f, PromptParts
<1>4. InLines(r)
  BY <1>1, <1>2, <1>f, Scanning
<1>5. /\ LineEnd \in rpos..wpos - 1 /\ LineEnd + 1 \in 1..Len(r)
      /\ r[LineEnd + 1] \notin {"name", "data"}
      /\ buf[LineEnd].kind = "end" => LineEnd = rpos
      /\ buf[LineEnd].kind # "end" => (Ends(r) # {} => LineEnd + 1 < Min(Ends(r)))
  BY <1>1, <1>2, <1>f, <1>4, LineInRequest
<1>6. buf[LineEnd].kind # "end" /\ (Ends(r) # {} => rpos' < Min(Ends(r))) /\ rpos' > 0
      /\ rpos' \in Nat /\ rpos < rpos' /\ rpos' <= Len(r)
  BY <1>1, <1>3, <1>5
<1>7. Taken(cur)' = Got(r) /\ wpos' = Got(r) /\ pos' = rpos' /\ r[rpos'] \notin {"name", "data"}
  BY <1>1, <1>4, <1>5 DEF InLines, Taken
<1>8. FreshFrom(r, rpos)'
  <2>1. \A i \in rpos..Got(r) - 1 : buf[i] = Fresh(r[i + 1])
    BY <1>4 DEF InLines, FreshFrom
  <2>2. Got(r) = wpos
    BY <1>4 DEF InLines
  <2>3. \A i \in rpos'..Got(r) - 1 : i \in Room /\ i # LineEnd /\ i \in rpos..Got(r) - 1
    BY <1>1, <1>3, <1>5, <1>6, <2>2 DEF Room
  <2>4. \A i \in rpos'..Got(r) - 1 : buf'[i] = buf[i]
    <3>1. buf \in [Room -> Cell]
      BY DEF StreamIInv, Types
    <3>. QED BY <1>1, <2>3, <3>1 DEF Terminated
  <2>. QED BY <2>1, <2>3, <2>4 DEF FreshFrom
<1>9. used' <= KeyCost + rpos' /\ clen' \in {0, Len(Body(r))} /\ (IsRequest(r) => Counted(r, rpos)')
  <2>1. CASE RequestLine
    <3>1. clen' = clen /\ used' = KeyCost + rpos' /\ (IsRequest(r) => Counted(r, rpos)')
      BY <1>2, <1>f, <1>4, <1>6, <2>1, FirstLine
    <3>2. used' = KeyCost + rpos' /\ KeyCost \in Nat /\ rpos' \in Nat
      BY <1>3, <1>6, <3>1, Zenon
    <3>3. \A k, n \in Nat : k + n <= k + n
      OBVIOUS
    <3>4. used' <= KeyCost + rpos'
      BY <3>2, <3>3, Zenon
    <3>. QED BY <1>3, <3>1, <3>4, Zenon
  <2>2. CASE HeaderLine
    <3>1. clen' \in {0, Len(Body(r))} /\ used' = used + (LineEnd + 1 - rpos) /\ (IsRequest(r) => Counted(r, rpos)')
      BY <1>2, <1>f, <1>4, <1>6, <2>2, NextLine
    <3>2. used <= KeyCost + rpos
      BY <1>4 DEF InLines
    <3>3. used' <= KeyCost + rpos'
      BY <1>1, <1>3, <1>5, <3>1, <3>2
    <3>. QED BY <3>1, <3>3
  <2>. QED BY <2>1, <2>2
<1>10. InLines(r)'
  BY <1>1, <1>6, <1>7, <1>8, <1>9 DEF InLines, FreshFrom, Counted
<1>11. Where(r)'
  BY <1>10 DEF Where
<1>. QED BY <1>1, <1>2, <1>3, <1>9, <1>11, PromptFrom

\* The blank line ends them.
LEMMA BlankPrompt ==
  ASSUME StreamIInv, PromptIInv, BlankLine, UNCHANGED loop
  PROVE  PromptIInv'
<1>1. /\ pc = "scan" /\ pc' = "body" /\ Newlines # {} /\ buf' = Terminated
      /\ rpos' = LineEnd + 1 /\ buf[LineEnd].kind = "end" /\ LineEnd = rpos
      /\ UNCHANGED <<request, unsent, sock, peer, cur, wpos, prompt, names, entries, known, used, clen>>
  BY DEF BlankLine, sockets, parsed, headers, loop
<1> SUFFICES ASSUME cur \in prompt, Fits(request[cur]) PROVE PromptIInv'
  BY <1>1 DEF PromptIInv
<1>2. PICK r : r = request[cur]
  OBVIOUS
<1>f. Fits(r)
  BY <1>2
<1>3. /\ r \in Seq(Kinds) /\ Len(r) \in Nat \ {0} /\ wpos \in Nat /\ rpos \in Nat
      /\ used \in Nat /\ KeyCost \in Nat /\ PoolRoom \in Nat
      /\ unsent[cur] = <<>> /\ peer[cur] = "open" /\ clen \in {0, Len(Body(r))} /\ clen \in Nat
  BY <1>2, <1>f, PromptParts
<1>4. InLines(r)
  BY <1>1, <1>2, <1>f, Scanning
<1>5. Ends(r) # {} /\ rpos' = Min(Ends(r)) /\ wpos' = Got(r) /\ Taken(cur)' = Got(r) /\ rpos' = rpos + 1
  BY <1>1, <1>2, <1>f, <1>4, LineInRequest DEF InLines, Taken
<1>6. ASSUME IsRequest(r) PROVE Counted(r, rpos)'
  <2>1. rpos' \in 2..Len(r) /\ r[rpos + 1] = "end"
    <3>1. Min(Ends(r)) \in 2..Len(r)
      BY <1>3, <1>6, EndOfRequest
    <3>2. r[Min(Ends(r))] = "end"
      BY <1>3, <1>5, BodyOf
    <3>. QED BY <1>5, <3>1, <3>2, Zenon
  <2>2. rpos > 0 /\ Counted(r, rpos)
    <3>1. rpos > 0
      BY <1>3, <1>5, <2>1
    <3>. QED BY <1>4, <1>6, <3>1 DEF InLines
  <2>3. NamesTo(r, rpos + 1) = NamesTo(r, rpos)
    <3>1. rpos + 1 \in Nat /\ rpos < rpos + 1 /\ rpos + 1 <= Len(r)
      BY <1>3, <1>5, <2>1
    <3>2. "end" \notin Names
      BY FieldsAssumption DEF Names
    <3>3. \A i \in rpos + 1..rpos + 1 : r[i] \notin Names
      BY <1>3, <2>1, <3>2
    <3>. QED BY <1>3, <3>1, <3>3, NamesGrow
  <2>4. Counted(r, rpos + 1)
    BY <2>2, <2>3 DEF Counted
  <2>. QED BY <1>1, <1>5, <2>4 DEF Counted
<1>7. BodyKept'
  <2>1. used <= KeyCost + rpos
    BY <1>4 DEF InLines
  <2>2. Len(Body(r)) > 0 => KeyCost + rpos + Len(Body(r)) + KeyCost <= PoolRoom
    <3> DEFINE e == Min(Ends(r))
    <3>1. Len(Body(r)) > 0 => KeyCost + (e - 1) + Len(Body(r)) + KeyCost <= PoolRoom
      BY <1>3, <1>f, <1>5, FitsParts
    <3>2. e = rpos + 1
      BY <1>5
    <3> HIDE DEF e
    <3>3. e - 1 = rpos
      BY <1>3, <3>2
    <3>. QED BY <3>1, <3>3
  <2>3. clen > 0 => clen = Len(Body(r))
    BY <1>3
  <2>4. clen > 0 => used + clen + KeyCost <= PoolRoom
    BY <1>3, <2>1, <2>2, <2>3
  <2>. QED BY <1>1, <2>4 DEF BodyKept
<1>8. Where(r)'
  <2>1. AtBody(r)'
    BY <1>1, <1>5, <1>6, <1>7 DEF AtBody, Counted, BodyKept
  <2>. QED BY <2>1 DEF Where
<1>. QED BY <1>1, <1>2, <1>3, <1>8, PromptFrom

\* No whole line in the buffer: the request is still to be read, or has none
\* left and no blank line.
LEMMA CompactPrompt ==
  ASSUME StreamIInv, PromptIInv, Compact, UNCHANGED loop
  PROVE  PromptIInv'
<1>1. /\ pc = "scan" /\ Newlines = {}
      /\ buf' = [i \in Room |-> IF i < wpos - rpos THEN buf[rpos + i] ELSE buf[i]]
      /\ rpos' = 0 /\ wpos' = wpos - rpos /\ pc' = IF wpos' >= BufLen THEN "body" ELSE "fill"
      /\ UNCHANGED <<request, unsent, sock, peer, cur, pos, prompt, clen>>
  BY DEF Compact, sockets, parsed, loop
<1> SUFFICES ASSUME cur \in prompt, Fits(request[cur]) PROVE PromptIInv'
  BY <1>1 DEF PromptIInv
<1>2. PICK r : r = request[cur]
  OBVIOUS
<1>f. Fits(r)
  BY <1>2
<1>3. /\ r \in Seq(Kinds) /\ Len(r) \in Nat \ {0} /\ wpos \in Nat /\ rpos \in Nat /\ rpos <= wpos
      /\ BufLen \in Nat \ {0} /\ wpos <= BufLen
      /\ unsent[cur] = <<>> /\ peer[cur] = "open" /\ clen \in {0, Len(Body(r))} /\ Where(r)
  BY <1>2, <1>f, PromptParts
<1>4. Untouched(r) \/ InLines(r) \/ NoLine(r)
  BY <1>1, <1>3 DEF Where, AtBody, InBody, Understands
<1>5. \A i \in rpos..wpos - 1 : buf[i].eol # "newline"
  BY <1>1 DEF Newlines
<1>6. CASE Untouched(r)
  <2>1. wpos' = 0 /\ pc' = "fill" /\ pos' = 0
    BY <1>1, <1>3, <1>6 DEF Untouched
  <2>2. Taken(cur)' = 0
    BY <1>1, <1>6 DEF Untouched, Taken
  <2>3. Where(r)'
    BY <2>1, <2>2 DEF Untouched, Where
  <2>. QED BY <1>1, <1>2, <1>3, <2>3, PromptFrom
<1>7. CASE InLines(r) \/ NoLine(r)
  <2>1. ASSUME InLines(r), Ends(r) # {} PROVE FALSE
    <3> DEFINE e == Min(Ends(r))
    <3>1. e \in 1..Got(r) /\ r[e] = "end" /\ rpos < e /\ wpos = Got(r) /\ Got(r) \in Nat
          /\ \A i \in rpos..Got(r) - 1 : buf[i] = Fresh(r[i + 1])
      BY <1>3, <1>f, <2>1, BodyOf, FitsParts DEF InLines, FreshFrom
    <3> HIDE DEF e
    <3>2. e - 1 \in rpos..wpos - 1 /\ (e - 1) + 1 = e
      BY <1>3, <3>1
    <3>3. buf[e - 1] = Fresh("end")
      BY <3>1, <3>2
    <3>. QED BY <1>5, <3>2, <3>3 DEF Fresh
  <2>2. Taken(cur) = Len(r) /\ Ends(r) = {}
    <3>1. Ends(r) = {}
      BY <1>7, <2>1 DEF NoLine
    <3>2. Got(r) = Len(r)
      BY <1>3, <1>f, <3>1, FitsParts
    <3>. QED BY <1>7, <3>1, <3>2 DEF InLines, NoLine
  <2>3. Taken(cur)' = Len(r) /\ pc' \in {"fill", "body"}
    BY <1>1, <2>2 DEF Taken
  <2>4. \A i \in rpos'..wpos' - 1 : buf'[i].eol # "newline"
    <3> TAKE i \in rpos'..wpos' - 1
    <3>1. i \in Room /\ i < wpos - rpos /\ rpos + i \in rpos..wpos - 1
      BY <1>1, <1>3 DEF Room
    <3>. QED BY <1>1, <1>5, <3>1
  <2>5. Where(r)'
    BY <2>2, <2>3, <2>4 DEF NoLine, Where
  <2>. QED BY <1>1, <1>2, <1>3, <2>5, PromptFrom
<1>. QED BY <1>4, <1>6, <1>7


\* Its first read takes the whole request, or fills the buffer with it.
LEMMA ChunkPrompt ==
  ASSUME StreamIInv, PromptIInv, ReadChunk, UNCHANGED loop
  PROVE  PromptIInv'
<1>1. /\ pc = "fill" /\ sock[cur] # <<>>
      /\ UNCHANGED <<request, unsent, peer, cur, rpos, pos, prompt, clen, used>>
  BY DEF ReadChunk, parsed, headers, loop
<1> SUFFICES ASSUME cur \in prompt, Fits(request[cur]) PROVE PromptIInv'
  BY <1>1 DEF PromptIInv
<1>2. PICK r : r = request[cur]
  OBVIOUS
<1>f. Fits(r)
  BY <1>2
<1>3. /\ cur \in Conn /\ r \in Seq(Kinds) /\ Len(r) \in Nat \ {0} /\ wpos \in Nat /\ rpos \in Nat /\ rpos <= wpos
      /\ BufLen \in Nat \ {0} /\ wpos <= BufLen /\ used \in Nat /\ KeyCost \in Nat
      /\ unsent[cur] = <<>> /\ peer[cur] = "open" /\ clen \in {0, Len(Body(r))} /\ Where(r)
      /\ Len(sock[cur]) = Len(r) - Taken(cur) /\ (Taken(cur) = Len(r) => sock[cur] = <<>>)
  BY <1>2, <1>f, PromptParts
<1>4. Untouched(r)
  BY <1>1, <1>3 DEF Where, InLines, NoLine, AtBody, InBody, Understands
<1>5. Taken(cur) = 0 /\ wpos = 0 /\ pos = 0 /\ rpos = 0 /\ Len(sock[cur]) = Len(r) /\ used = 0
  <2>1. Taken(cur) = 0 /\ wpos = 0 /\ pos = 0
    BY <1>4 DEF Untouched
  <2>2. NothingParsed
    BY <1>1, <2>1 DEF StreamIInv, Parsed, Reading
  <2>. QED BY <1>3, <2>1, <2>2 DEF NothingParsed
<1>6. PICK n \in 0..Len(sock[cur]) :
        /\ wpos + n <= BufLen /\ Receive(n)
        /\ n = IF BufLen <= Len(sock[cur]) THEN BufLen ELSE Len(sock[cur])
        /\ pc' = IF n < BufLen THEN "again" ELSE "scan"
  BY ReadLength
<1>7. n = Got(r) /\ Got(r) \in 1..Len(r)
  BY <1>3, <1>5, <1>6 DEF Got
<1>8. Types /\ Streams /\ Held /\ Reading
  BY <1>1 DEF StreamIInv, Reading
<1>9. /\ \A c \in Conn : Taken(c)' = IF c = cur THEN Taken(c) + n ELSE Taken(c)
      /\ wpos' = wpos + n
      /\ \A i \in wpos..wpos' - 1 : buf'[i] = Fresh(request[cur][Taken(cur) - wpos + i + 1])
  BY <1>1, <1>3, <1>6, <1>8, ReceiveKeeps
<1>10. Taken(cur)' = Got(r)
  <2>1. \A c \in Conn : c = cur => Taken(c)' = Got(r)
    BY <1>3, <1>5, <1>7, <1>9
  <2>2. \A c \in Conn : c = cur => Taken(cur)' = Taken(c)'
    BY <1>1 DEF Taken
  <2>. QED BY <1>3, <2>1, <2>2
<1>11. wpos' = Got(r) /\ rpos' = 0 /\ pos' = 0 /\ used' <= KeyCost + rpos'
  <2>1. wpos' = Got(r)
    BY <1>5, <1>7, <1>9
  <2>2. rpos' = 0 /\ pos' = 0 /\ used' = 0
    BY <1>1, <1>5
  <2>. QED BY <1>3, <2>1, <2>2
<1>12. FreshFrom(r, rpos)'
  <2>1. \A i \in 0..Got(r) - 1 : 0 - 0 + i + 1 = i + 1
    BY <1>7
  <2>2. \A i \in 0..Got(r) - 1 : buf'[i] = Fresh(r[i + 1])
    BY <1>2, <1>5, <1>9, <1>11, <2>1
  <2>. QED BY <1>11, <2>2 DEF FreshFrom
<1>13. Ends(r) # {} => rpos' < Min(Ends(r))
  BY <1>3, <1>11, BodyOf
<1>14. pc' \in {"scan", "again"} /\ (pc' = "again" => wpos' < BufLen)
  BY <1>6, <1>7, <1>11
<1>15. InLines(r)'
  <2>1. ~(rpos' > 0)
    BY <1>11
  <2>. QED BY <1>10, <1>11, <1>12, <1>13, <1>14, <2>1, Zenon DEF InLines
<1>16. Where(r)'
  BY <1>15 DEF Where
<1>. QED BY <1>1, <1>2, <1>3, <1>16, PromptFrom

\* The reads of lines after it find nothing.
LEMMA QuietPrompt ==
  ASSUME StreamIInv, PromptIInv, UNCHANGED loop,
         ReadEnds \/ ReadSpins \/ ReadAgain \/ AgainEnds \/ AgainDry
  PROVE  PromptIInv'
<1>1. UNCHANGED <<request, unsent, peer, cur, prompt>>
  BY DEF ReadEnds, ReadSpins, ReadAgain, AgainEnds, AgainDry, sockets, loop
<1> SUFFICES ASSUME cur \in prompt, Fits(request[cur]) PROVE PromptIInv'
  BY <1>1 DEF PromptIInv
<1>2. PICK r : r = request[cur]
  OBVIOUS
<1>f. Fits(r)
  BY <1>2
<1>3. /\ r \in Seq(Kinds) /\ Len(r) \in Nat \ {0} /\ wpos \in Nat
      /\ unsent[cur] = <<>> /\ peer[cur] = "open" /\ clen \in {0, Len(Body(r))} /\ Where(r)
      /\ Len(sock[cur]) = Len(r) - Taken(cur) /\ (Taken(cur) = Len(r) => sock[cur] = <<>>)
  BY <1>2, <1>f, PromptParts
<1>4. ASSUME pc = "again" PROVE InLines(r) /\ wpos < BufLen /\ sock[cur] = <<>>
  <2>1. InLines(r)
    BY <1>3, <1>4 DEF Where, Untouched, NoLine, AtBody, InBody, Understands
  <2>2. wpos < BufLen /\ wpos = Got(r) /\ Taken(cur) = Got(r)
    BY <1>4, <2>1 DEF InLines
  <2>3. Got(r) = Len(r)
    BY <1>3, <1>f, <2>2, FitsParts
  <2>. QED BY <1>3, <2>1, <2>2, <2>3
<1>5. ReadSpins \/ AgainDry
  <2>1. ~ReadEnds /\ ~AgainEnds
    BY <1>3 DEF ReadEnds, AgainEnds, Ended
  <2>2. ~ReadAgain
    BY <1>3, <1>4, RoomAssumption DEF ReadAgain
  <2>. QED BY <2>1, <2>2
<1>6. /\ pc' = "scan" /\ sock[cur] = <<>>
      /\ UNCHANGED <<sock, buf, rpos, wpos, pos, clen, names, entries, known, used>>
  BY <1>5 DEF ReadSpins, AgainDry, Empty, sockets, reader, parsed, headers
<1>7. Taken(cur)' = Taken(cur)
  BY <1>1, <1>6 DEF Taken
<1>8. CASE ReadSpins
  <2>1. pc = "fill"
    BY <1>8 DEF ReadSpins
  <2>2. ~Untouched(r)
    <3>1. Len(sock[cur]) = 0
      BY <1>6
    <3>. QED BY <1>3, <3>1 DEF Untouched
  <2>3. NoLine(r)
    BY <1>3, <2>1, <2>2 DEF Where, InLines, AtBody, InBody, Understands
  <2>4. Where(r)'
    BY <1>6, <1>7, <2>3 DEF NoLine, Where
  <2>. QED BY <1>1, <1>2, <1>3, <1>6, <2>4, PromptFrom
<1>9. CASE AgainDry
  <2>1. InLines(r)
    BY <1>4, <1>9 DEF AgainDry
  <2>2. InLines(r)'
    BY <1>6, <1>7, <2>1 DEF InLines, FreshFrom, Counted
  <2>3. Where(r)'
    BY <2>2 DEF Where
  <2>. QED BY <1>1, <1>2, <1>3, <1>6, <2>3, PromptFrom
<1>. QED BY <1>5, <1>8, <1>9

\* The body is there from the blank line on: what the buffer holds of it comes
\* first.
LEMMA BodyPrompt ==
  ASSUME StreamIInv, PromptIInv, ReadBody, UNCHANGED loop
  PROVE  PromptIInv'
<1>1. /\ pc = "body" /\ body' = Buffered(Min({wpos - rpos, clen}))
      /\ pc' = IF Len(body') = clen THEN "respond" ELSE "more"
      /\ UNCHANGED <<request, unsent, sock, peer, cur, prompt, names, entries, known, used, clen>>
  BY DEF ReadBody, sockets, headers, loop
<1> SUFFICES ASSUME cur \in prompt, Fits(request[cur]) PROVE PromptIInv'
  BY <1>1 DEF PromptIInv
<1>2. PICK r : r = request[cur]
  OBVIOUS
<1>f. Fits(r)
  BY <1>2
<1>3. /\ cur \in Conn /\ r \in Seq(Kinds) /\ Len(r) \in Nat \ {0} /\ wpos \in Nat /\ rpos \in Nat /\ rpos <= wpos
      /\ unsent[cur] = <<>> /\ peer[cur] = "open" /\ clen \in {0, Len(Body(r))} /\ clen \in Nat
      /\ Where(r)
  BY <1>2, <1>f, PromptParts
<1>4. NoLine(r) \/ AtBody(r)
  BY <1>1, <1>3 DEF Where, Untouched, InLines, InBody, Understands
<1>5. Types /\ Streams /\ Held /\ Reading
  BY <1>1 DEF StreamIInv, Reading
<1>6. /\ Len(Body(r)) \in Nat /\ (Ends(r) = {} => Len(Body(r)) = 0) /\ wpos - rpos \in Nat
      /\ Got(r) \in 1..Len(r)
  BY <1>3, <1>f, BodyOf, FitsParts
<1>7. PICK n \in 0..wpos - rpos :
        n = (IF wpos - rpos <= clen THEN wpos - rpos ELSE clen) /\ body' = Buffered(n)
  <2>1. Min({wpos - rpos, clen}) = IF wpos - rpos <= clen THEN wpos - rpos ELSE clen
    BY <1>3, <1>6, MinPair
  <2>. QED BY <1>1, <1>3, <1>6, <2>1
<1>8. /\ body' \in Seq(Kinds) /\ Len(body') = n
      /\ \A j \in 1..n : body'[j] = r[Taken(cur) - wpos + rpos + j]
  BY <1>2, <1>3, <1>5, <1>7, BufferedCells
<1>9. Taken(cur)' = Taken(cur)
  BY <1>1 DEF Taken
<1>10. CASE NoLine(r)
  <2>1. Ends(r) = {}
    BY <1>10 DEF NoLine
  <2>2. clen = 0 /\ pc' = "respond"
    BY <1>1, <1>3, <1>6, <1>7, <1>8, <2>1
  <2>3. ~IsRequest(r)
    BY <1>3, <2>1, EndOfRequest
  <2>4. ~(clen' > 0)
    BY <1>1, <2>2
  <2>5. Understands(r)'
    BY <2>2, <2>3, <2>4 DEF Understands, BodyKept
  <2>6. Where(r)'
    BY <2>5 DEF Where
  <2>. QED BY <1>1, <1>2, <1>3, <2>6, PromptFrom
<1>11. CASE AtBody(r)
  <2> DEFINE e == Min(Ends(r))
  <2>1. /\ Ends(r) # {} /\ rpos = e /\ wpos = Got(r) /\ Taken(cur) = Got(r)
        /\ BodyKept /\ (IsRequest(r) => Counted(r, e))
    BY <1>11 DEF AtBody
  <2>2. Len(Body(r)) = Len(r) - e /\ \A j \in 1..Len(Body(r)) : Body(r)[j] = r[e + j]
    BY <1>3, <2>1, BodyOf
  <2>3. /\ BodyKept' /\ (IsRequest(r) => Counted(r, e)')
    BY <1>1, <2>1 DEF BodyKept, Counted
  <2> HIDE DEF e
  <2>4. \A j \in 1..n : j \in 1..Len(Body(r)) /\ body'[j] = Body(r)[j]
    <3> TAKE j \in 1..n
    <3>1. Taken(cur) - wpos + rpos + j = e + j /\ j \in 1..Len(Body(r))
      BY <1>3, <1>6, <1>7, <2>1, <2>2
    <3>. QED BY <1>8, <2>2, <3>1
  <2>5. CASE n = clen
    <3>1. pc' = "respond"
      BY <1>1, <1>8, <2>5
    <3>2. clen > 0 => body' = Body(r)
      <4> SUFFICES ASSUME clen > 0 PROVE body' = Body(r)
        OBVIOUS
      <4>1. Len(Body(r)) = n
        BY <1>3, <2>5
      <4>2. Body(r) \in Seq(Kinds)
        BY <1>3, BodyOf
      <4>. QED BY <1>8, <2>4, <4>1, <4>2
    <3>3. Understands(r)'
      BY <1>1, <2>3, <3>1, <3>2, Zenon DEF Understands, e
    <3>4. Where(r)'
      BY <3>3 DEF Where
    <3>. QED BY <1>1, <1>2, <1>3, <3>4, PromptFrom
  <2>6. CASE n # clen
    <3>1. pc' = "more" /\ Len(body') < clen /\ Len(body') = Got(r) - e
      BY <1>1, <1>3, <1>7, <1>8, <2>1, <2>6
    <3>2. Taken(cur)' = e + Len(body')
      BY <1>3, <1>6, <1>9, <2>1, <3>1
    <3>3. \A j \in 1..Len(body') : body'[j] = Body(r)[j]
      BY <1>8, <2>4
    <3>4. InBody(r)'
      BY <1>1, <2>1, <2>3, <3>1, <3>2, <3>3, Zenon DEF InBody, e
    <3>5. Where(r)'
      BY <3>4 DEF Where
    <3>. QED BY <1>1, <1>2, <1>3, <3>5, PromptFrom
  <2>. QED BY <2>5, <2>6
<1>. QED BY <1>4, <1>10, <1>11

\* The rest of it waits in the socket, and comes with one read.
LEMMA MorePrompt ==
  ASSUME StreamIInv, PromptIInv, ReadMore, UNCHANGED loop
  PROVE  PromptIInv'
<1> DEFINE n == Min({clen - Len(body), Len(sock[cur])})
<1>1. /\ pc = "more" /\ body' = body \o SubSeq(sock[cur], 1, n)
      /\ pc' = IF Len(body') = clen THEN "respond" ELSE "more"
      /\ UNCHANGED <<request, unsent, peer, cur, prompt, names, entries, known, used, clen>>
  BY DEF ReadMore, headers, loop
<1> SUFFICES ASSUME cur \in prompt, Fits(request[cur]) PROVE PromptIInv'
  BY <1>1 DEF PromptIInv
<1>2. PICK r : r = request[cur]
  OBVIOUS
<1>f. Fits(r)
  BY <1>2
<1>3. /\ cur \in Conn /\ r \in Seq(Kinds) /\ Len(r) \in Nat \ {0}
      /\ unsent[cur] = <<>> /\ peer[cur] = "open" /\ clen \in {0, Len(Body(r))} /\ clen \in Nat
      /\ Where(r) /\ Len(sock[cur]) = Len(r) - Taken(cur)
  BY <1>2, <1>f, PromptParts
<1> DEFINE e == Min(Ends(r))
<1>4. InBody(r)
  BY <1>1, <1>3 DEF Where, Untouched, InLines, NoLine, AtBody, Understands
<1>5. /\ Ends(r) # {} /\ Len(body) < clen /\ Taken(cur) = e + Len(body)
      /\ \A j \in 1..Len(body) : body[j] = Body(r)[j]
      /\ BodyKept /\ (IsRequest(r) => Counted(r, e))
  BY <1>4 DEF InBody
<1>6. /\ Body(r) \in Seq(Kinds) /\ Len(Body(r)) = Len(r) - e /\ e \in 1..Len(r)
      /\ \A j \in 1..Len(Body(r)) : Body(r)[j] = r[e + j]
  BY <1>3, <1>5, BodyOf
<1>7. /\ body \in Seq(Kinds) /\ Len(body) \in Nat /\ sock[cur] \in Seq(Kinds) /\ Len(sock[cur]) \in Nat
      /\ \A j \in 1..Len(sock[cur]) : sock[cur][j] = request[cur][Taken(cur) + j]
  BY <1>3 DEF StreamIInv, Types, Streams
<1>8. BodyKept' /\ (IsRequest(r) => Counted(r, e)')
  BY <1>1, <1>5 DEF BodyKept, Counted
<1> HIDE DEF e
<1>9. clen = Len(Body(r)) /\ clen - Len(body) \in Nat /\ Len(sock[cur]) = clen - Len(body)
  BY <1>3, <1>5, <1>6, <1>7
<1>10. n = Len(sock[cur])
  BY <1>9, MinPair
<1> HIDE DEF n
<1>11. body' = body \o sock[cur]
  <2>1. SubSeq(sock[cur], 1, Len(sock[cur])) = sock[cur]
    BY <1>7
  <2>. QED BY <1>1, <1>10, <2>1
<1>12. body' = Body(r)
  <2>1. body' \in Seq(Kinds) /\ Len(body') = Len(Body(r))
    BY <1>7, <1>9, <1>11
  <2>2. \A j \in 1..Len(Body(r)) : body'[j] = Body(r)[j]
    <3> TAKE j \in 1..Len(Body(r))
    <3>1. CASE j <= Len(body)
      BY <1>5, <1>7, <1>11, <3>1
    <3>2. CASE j > Len(body)
      <4>1. j - Len(body) \in 1..Len(sock[cur]) /\ Taken(cur) + (j - Len(body)) = e + j
        BY <1>5, <1>6, <1>7, <1>9, <3>2
      <4>2. body'[j] = sock[cur][j - Len(body)]
        BY <1>7, <1>11, <3>2, <4>1
      <4>. QED BY <1>2, <1>6, <1>7, <4>1, <4>2
    <3>. QED BY <1>7, <3>1, <3>2
  <2>. QED BY <1>6, <2>1, <2>2
<1>13. pc' = "respond"
  BY <1>1, <1>9, <1>12
<1>14. Understands(r)'
  BY <1>8, <1>12, <1>13, Zenon DEF Understands, e
<1>15. Where(r)'
  BY <1>14 DEF Where
<1>. QED BY <1>1, <1>2, <1>3, <1>15, PromptFrom

\* What is counted at the blank line is what the answer needs to know.
LEMMA CountedEnd ==
  ASSUME NEW r \in Seq(Kinds), Len(r) \in Nat \ {0}, IsRequest(r), Counted(r, Min(Ends(r))),
         MapRoom \in Nat \ {0}, entries \in 0..MapRoom, clen \in {0, Len(Body(r))}, clen > 0 => body = Body(r)
  PROVE  known /\ BodyFound = IF BodyFits(r) THEN Body(r) ELSE <<>>
<1> DEFINE e == Min(Ends(r))
           seen == NamesTo(r, e)
<1>1. /\ e \in 2..Len(r) /\ r[1] = "req" /\ \A i \in e + 1..Len(r) : r[i] = "data"
      /\ \A i \in 2..e - 1 : r[i] \in {"name", "num"} \cup Fields
      /\ e = Len(r) \/ \E i \in 2..e : r[i] = "name"
      /\ r[e] = "end" /\ Len(Body(r)) = Len(r) - e /\ Body(r) \in Seq(Kinds)
  BY EndOfRequest, BodyOf
<1>2. /\ known /\ "REQUEST" \in names /\ names \subseteq {"REQUEST"} \cup seen
      /\ IsFiniteSet(seen) /\ entries = Cardinality(names)
      /\ entries < MapRoom => names = {"REQUEST"} \cup seen
      /\ "name" \in names => clen = Len(Body(r))
  BY DEF Counted
<1> HIDE DEF e
<1>3. NamesOf(r) = seen
  <2>1. \A i \in 1..Len(r) : i \in 1..e \/ i \in e + 1..Len(r)
    BY <1>1
  <2>2. \A i \in 1..e : i \in 1..Len(r)
    BY <1>1
  <2>3. DOMAIN r = 1..Len(r) /\ "data" \notin Names
    BY FieldsAssumption DEF Names
  <2>. QED BY <1>1, <2>1, <2>2, <2>3 DEF NamesOf, NamesTo
<1>4. "BODY" \notin seen /\ "REQUEST" \notin seen
  <2>1. \A i \in 1..e : i = 1 \/ i = e \/ i \in 2..e - 1
    BY <1>1
  <2>2. \A i \in 1..e : r[i] # "BODY" /\ r[i] # "REQUEST"
    BY <1>1, <2>1, FieldsAssumption
  <2>. QED BY <2>2 DEF NamesTo
<1>5. \A i \in 1..e : r[i] = "name" => "name" \in seen
  BY DEF NamesTo, Names
<1>6. BodyFits(r) <=> Cardinality(seen) + 2 <= MapRoom
  BY <1>3 DEF BodyFits
<1> HIDE DEF seen
<1>7. /\ Cardinality({"REQUEST"} \cup seen) = Cardinality(seen) + 1 /\ IsFiniteSet({"REQUEST"} \cup seen)
      /\ Cardinality(seen) \in Nat
  BY <1>2, <1>4, FS_AddElement, FS_CardinalityType
<1>8. "BODY" \notin names
  BY <1>2, <1>4
<1>9. CASE entries < MapRoom
  <2>1. BodyFits(r)
    <3>1. entries = Cardinality(seen) + 1
      BY <1>2, <1>7, <1>9
    <3>. QED BY <1>6, <1>7, <1>9, <3>1
  <2>2. clen = Len(Body(r))
    <3>1. CASE e = Len(r)
      BY <1>1, <3>1
    <3>2. CASE \E i \in 2..e : r[i] = "name"
      <4>1. "name" \in seen
        <5>1. \E i \in 1..e : r[i] = "name"
          BY <1>1, <3>2
        <5>. QED BY <1>5, <5>1
      <4>. QED BY <1>2, <1>9, <4>1
    <3>. QED BY <1>1, <3>1, <3>2
  <2>3. Kept("BODY")
    BY <1>9 DEF Kept
  <2>4. CASE clen > 0
    BY <1>2, <2>1, <2>3, <2>4 DEF BodyFound
  <2>5. CASE ~(clen > 0)
    <3>1. Body(r) = <<>>
      BY <1>1, <2>2, <2>5
    <3>. QED BY <1>2, <1>8, <2>1, <2>5, <3>1 DEF BodyFound
  <2>. QED BY <2>4, <2>5
<1>10. CASE ~(entries < MapRoom)
  <2>1. entries = MapRoom
    BY <1>10
  <2>2. Cardinality(names) <= Cardinality({"REQUEST"} \cup seen)
    BY <1>2, <1>7, FS_Subset
  <2>3. ~BodyFits(r)
    BY <1>2, <1>6, <1>7, <2>1, <2>2
  <2>4. ~Kept("BODY")
    BY <1>8, <1>10 DEF Kept
  <2>. QED BY <1>2, <1>8, <2>3, <2>4 DEF BodyFound
<1>. QED BY <1>9, <1>10

\* A step that leaves the reader and the client as they are leaves the request
\* where it is.
LEMMA StillWhere ==
  ASSUME NEW r, Taken(cur)' = Taken(cur), Where(r), UNCHANGED <<pc, buf, rpos, wpos, pos, headers, clen, body>>
  PROVE  Where(r)'
<1>1. UNCHANGED <<names, entries, known, used>>
  BY DEF headers
<1>2. Untouched(r) => Untouched(r)'
  BY DEF Untouched
<1>3. InLines(r) => InLines(r)'
  BY <1>1 DEF InLines, FreshFrom, Counted
<1>4. NoLine(r) => NoLine(r)'
  BY DEF NoLine
<1>5. AtBody(r) => AtBody(r)'
  BY <1>1 DEF AtBody, Counted, BodyKept
<1>6. InBody(r) => InBody(r)'
  BY <1>1 DEF InBody, Counted, BodyKept
<1>7. Understands(r) => Understands(r)'
  BY <1>1 DEF Understands, Counted, BodyKept
<1>. QED BY <1>2, <1>3, <1>4, <1>5, <1>6, <1>7 DEF Where

\* No peer takes part in the reading of a request that is there: the one whose
\* request it is sends no more, and is not prompt once it stops.
LEMMA PeerPrompt ==
  ASSUME StreamIInv, PromptIInv, NEW c \in Conn, Connect(c) \/ PeerSendsOn(c) \/ PeerStops(c)
  PROVE  PromptIInv'
<1>1. /\ UNCHANGED <<request, cur, pc, buf, rpos, wpos, pos, headers, clen, body>> /\ prompt' \subseteq prompt
  BY DEF Connect, PeerSendsOn, PeerSends, PeerStops, PeerShuts, PeerLeaves, reader, parsed, loop
<1> SUFFICES ASSUME cur \in prompt, cur \in prompt', Fits(request[cur]) PROVE PromptIInv'
  BY <1>1 DEF PromptIInv
<1>2. PICK r : r = request[cur]
  OBVIOUS
<1>f. Fits(r)
  BY <1>2
<1>3. /\ cur \in Conn /\ unsent[cur] = <<>> /\ peer[cur] = "open" /\ clen \in {0, Len(Body(r))} /\ Where(r)
  BY <1>2, <1>f, PromptParts
<1>4. Types
  BY DEF StreamIInv
<1>5. unsent'[cur] = unsent[cur] /\ sock'[cur] = sock[cur] /\ peer'[cur] = peer[cur]
  <2>1. CASE Connect(c)
    <3>1. c # cur /\ unsent' = unsent /\ sock' = sock /\ peer' = [peer EXCEPT ![c] = "open"]
      BY <1>3, <2>1 DEF Connect
    <3>. QED BY <1>3, <1>4, <3>1 DEF Types
  <2>2. CASE PeerSendsOn(c)
    <3>1. PICK k \in 1..Len(unsent[c]) :
            /\ sock' = [sock EXCEPT ![c] = @ \o SubSeq(unsent[c], 1, k)]
            /\ unsent' = [unsent EXCEPT ![c] = SubSeq(@, k + 1, Len(@))] /\ peer' = peer
      BY <2>2 DEF PeerSendsOn, PeerSends
    <3>2. c # cur
      <4>1. Len(unsent[c]) # 0
        BY <3>1
      <4>. QED BY <1>3, <4>1
    <3>. QED BY <1>3, <1>4, <3>1, <3>2 DEF Types
  <2>3. CASE PeerStops(c)
    <3>1. /\ c # cur /\ unsent' = unsent /\ sock' = sock
          /\ peer' = [peer EXCEPT ![c] = "shut"] \/ peer' = [peer EXCEPT ![c] = "gone"]
      BY <2>3 DEF PeerStops, PeerShuts, PeerLeaves
    <3>. QED BY <1>3, <1>4, <3>1 DEF Types
  <2>. QED BY <2>1, <2>2, <2>3
<1>6. Taken(cur)' = Taken(cur)
  BY <1>1, <1>5 DEF Taken
<1>7. Where(r)'
  BY <1>1, <1>3, <1>6, StillWhere
<1>. QED BY <1>1, <1>2, <1>3, <1>5, <1>7, PromptFrom

\* A connection is accepted before any of its request is read.
LEMMA AcceptPrompt ==
  ASSUME StreamIInv, PromptIInv, Accept
  PROVE  PromptIInv' /\ reply[cur'] = None /\ cur' \notin prompt
<1>1. /\ pc = "wait" /\ queue # <<>> /\ cur' = Head(queue) /\ pc' = "scan"
      /\ prompt' = IF unsent[cur'] = <<>> /\ peer[cur'] = "open" THEN prompt \union {cur'} ELSE prompt
      /\ UNCHANGED <<request, unsent, sock, peer, wpos, pos, clen>>
  BY DEF Accept, sockets, reader, parsed
<1>2. Types /\ Connections /\ Held /\ Parsed
  BY DEF StreamIInv
<1>3. cur' = queue[1] /\ 1 \in 1..Len(queue) /\ cur' \in Conn
  BY <1>1, <1>2 DEF Types
<1>4. NotYet(queue[1])
  BY <1>2, <1>3 DEF Connections
<1>5. reply[cur'] = None /\ cur' \notin prompt /\ Taken(cur)' = 0
  <2>1. \A c \in Conn : c = cur' => Taken(cur)' = Taken(c)
    BY <1>1 DEF Taken
  <2>. QED BY <1>3, <1>4, <2>1 DEF NotYet
<1>6. wpos' = 0 /\ pos' = 0 /\ clen' = 0
  BY <1>1, <1>2 DEF Held, Parsed, Reading, NothingParsed
<1>7. \A r : Where(r)'
  BY <1>1, <1>5, <1>6 DEF Untouched, Where
<1>8. cur' \in prompt' => unsent'[cur'] = <<>> /\ peer'[cur'] = "open"
  BY <1>1, <1>5
<1>9. PICK r : r = request'[cur']
  OBVIOUS
<1>10. PromptIInv'
  BY <1>6, <1>7, <1>8, <1>9, PromptFrom
<1>. QED BY <1>5, <1>10

\* So the request being served is always read as it was sent.
LEMMA PromptStep == StreamIInv /\ PromptIInv /\ [Next]_vars => PromptIInv'
<1> SUFFICES ASSUME StreamIInv, PromptIInv, [Next]_vars PROVE PromptIInv'
  OBVIOUS
<1>1. CASE UNCHANGED vars
  <2>1. UNCHANGED <<request, unsent, sock, peer, cur, pc, buf, rpos, wpos, pos, headers, clen, body, prompt>>
    BY <1>1 DEF vars, sockets, reader, parsed, loop
  <2>2. Taken(cur)' = Taken(cur)
    BY <2>1 DEF Taken
  <2>3. PICK r : r = request[cur]
    OBVIOUS
  <2>4. Where(r) => Where(r)'
    BY <2>1, <2>2, StillWhere
  <2>5. (cur \in prompt /\ Fits(request[cur])) =>
          unsent[cur] = <<>> /\ peer[cur] = "open" /\ clen \in {0, Len(Body(r))} /\ Where(r)
    BY <2>3 DEF PromptIInv
  <2>. QED BY <2>1, <2>3, <2>4, <2>5, PromptFrom
<1>2. CASE ReadStep
  BY <1>2, LinePrompt, BlankPrompt, CompactPrompt, ChunkPrompt, QuietPrompt, BodyPrompt, MorePrompt DEF ReadStep, Read
<1>3. CASE Overrun \/ HeaderFails \/ BodyFails \/ PoolFails \/ BrokenPipe \/ Respond
  <2>1. cur' = None /\ prompt' = prompt /\ prompt \subseteq Conn
    BY <1>3 DEF Overrun, HeaderFails, BodyFails, PoolFails, BrokenPipe, Die, Stop, Respond, loop, StreamIInv, Types
  <2>. QED BY <2>1, RoomAssumption DEF PromptIInv
<1>4. CASE Serve
  BY <1>2, <1>3, <1>4, AcceptPrompt DEF Serve
<1>. QED BY <1>1, <1>4, PeerPrompt DEF Next

\* So it is in every reachable state.
LEMMA PromptAlways == Spec => [](StreamIInv /\ PromptIInv)
<1>1. Init => StreamIInv /\ PromptIInv
  <2> SUFFICES ASSUME Init PROVE PromptIInv
    BY StreamInit
  <2>1. prompt = {}
    BY DEF Init
  <2>. QED BY <2>1 DEF PromptIInv
<1>. QED BY <1>1, StreamStep, PromptStep, PTL DEF Spec

\* What the server knows of such a request when it answers.
LEMMA AnsweredAsSent ==
  ASSUME StreamIInv, PromptIInv, pc = "respond", cur \in prompt, NEW r, r = request[cur], Fits(r), IsRequest(r)
  PROVE  known = TRUE /\ BodyFound = IF BodyFits(r) THEN Body(r) ELSE <<>>
<1>1. /\ r \in Seq(Kinds) /\ Len(r) \in Nat \ {0} /\ clen \in {0, Len(Body(r))} /\ Where(r)
  BY PromptParts
<1>2. Understands(r)
  BY <1>1 DEF Where, Untouched, InLines, NoLine, AtBody, InBody
<1>3. Counted(r, Min(Ends(r))) /\ (clen > 0 => body = Body(r))
  BY <1>2 DEF Understands
<1>4. MapRoom \in Nat \ {0} /\ entries \in 0..MapRoom
  BY Serving
<1>5. known /\ BodyFound = IF BodyFits(r) THEN Body(r) ELSE <<>>
  BY <1>1, <1>3, <1>4, CountedEnd
<1>6. known \in BOOLEAN
  BY DEF StreamIInv, Types, HeaderTypes
<1>. QED BY <1>5, <1>6, Zenon

\* What an answer adds to what was understood.
LEMMA AnswersUnderstood ==
  ASSUME StreamIInv, PromptIInv, PromptUnderstood, [Next]_vars
  PROVE  PromptUnderstood'
<1>1. Types /\ Connections /\ prompt \subseteq Conn /\ reply \in [Conn -> Understood \cup {None}]
  BY DEF StreamIInv, Types
<1>2. request' = request
  BY DEF vars, sockets, Next, Serve, Connect, PeerSendsOn, PeerSends, PeerStops, PeerShuts, PeerLeaves, Accept,
         ReadStep, Read, RequestLine, HeaderLine, BlankLine, Compact, ReadChunk, ReadEnds, ReadSpins,
         ReadAgain, AgainEnds, AgainDry, ReadBody, ReadMore, Overrun, HeaderFails, BodyFails, PoolFails,
         BrokenPipe, Die, Stop, Respond
<1>3. CASE Respond
  <2>1. /\ pc = "respond" /\ prompt' = prompt
        /\ reply' = [reply EXCEPT ![cur] = [known |-> known, body |-> BodyFound]]
    BY <1>3 DEF Respond
  <2>2. cur \in Conn
    BY <2>1, Serving
  <2>3. \A c \in Conn : c # cur => reply'[c] = reply[c]
    BY <1>1, <2>1
  <2>4. ASSUME cur \in prompt, IsRequest(request[cur]), Fits(request[cur])
        PROVE  reply'[cur] = [known |-> TRUE,
                              body |-> IF BodyFits(request[cur]) THEN Body(request[cur]) ELSE <<>>]
    <3>1. known = TRUE /\ BodyFound = IF BodyFits(request[cur]) THEN Body(request[cur]) ELSE <<>>
      BY <2>1, <2>4, AnsweredAsSent
    <3>2. reply'[cur] = [known |-> known, body |-> BodyFound]
      BY <1>1, <2>1, <2>2
    <3>. QED BY <3>1, <3>2, Zenon
  <2>5. ASSUME NEW c \in prompt', reply'[c] # None, IsRequest(request'[c]), Fits(request'[c])
        PROVE  reply'[c] = [known |-> TRUE,
                            body |-> IF BodyFits(request'[c]) THEN Body(request'[c]) ELSE <<>>]
    <3>1. c \in prompt /\ c \in Conn
      BY <1>1, <2>1
    <3>2. CASE c = cur
      BY <1>2, <2>4, <2>5, <3>1, <3>2
    <3>3. CASE c # cur
      BY <1>2, <2>3, <2>5, <3>1, <3>3 DEF PromptUnderstood
    <3>. QED BY <3>2, <3>3
  <2>. QED BY <2>5 DEF PromptUnderstood
<1>4. CASE Accept
  <2>1. reply' = reply /\ prompt' \subseteq prompt \cup {cur'} /\ reply[cur'] = None
    BY <1>4, AcceptPrompt DEF Accept
  <2>. QED BY <1>2, <2>1 DEF PromptUnderstood
<1>5. CASE ~Respond /\ ~Accept
  <2>1. reply' = reply /\ prompt' \subseteq prompt
    BY <1>5 DEF vars, loop, Next, Serve, Connect, PeerSendsOn, PeerStops, ReadStep, Overrun, HeaderFails,
                BodyFails, PoolFails, BrokenPipe, Die, Stop
  <2>. QED BY <1>2, <2>1 DEF PromptUnderstood
<1>. QED BY <1>3, <1>4, <1>5

\* A request that was there when its connection was accepted, from a peer that
\* stays, and whose header section fits the reader's buffer and whose lines and
\* body fit the string pool, is understood as it was sent, whatever the other
\* peers do and however the bytes came in.
THEOREM PromptIsUnderstood == Spec => []PromptUnderstood
<1>1. Init => PromptUnderstood
  <2> SUFFICES ASSUME Init PROVE PromptUnderstood
    OBVIOUS
  <2>1. prompt = {}
    BY DEF Init
  <2>. QED BY <2>1 DEF PromptUnderstood
<1>2. StreamIInv /\ PromptIInv /\ PromptUnderstood /\ [Next]_vars => PromptUnderstood'
  BY AnswersUnderstood
<1>. QED BY <1>1, <1>2, PromptAlways, PTL DEF Spec

\* Such a request has room behind what the buffer holds, in the pool for each
\* of its lines, and for its body.
LEMMA NothingFails ==
  ASSUME StreamIInv, PromptIInv, cur \in prompt, Fits(request[cur])
  PROVE  ~Overrun /\ ~HeaderFails /\ ~BodyFails /\ ~PoolFails /\ ~BrokenPipe
<1>1. PICK r : r = request[cur]
  OBVIOUS
<1>f. Fits(r)
  BY <1>1
<1>2. /\ cur \in Conn /\ r \in Seq(Kinds) /\ Len(r) \in Nat \ {0} /\ BufLen \in Nat \ {0}
      /\ wpos \in Nat /\ rpos \in Nat /\ wpos <= BufLen /\ used \in Nat /\ KeyCost \in Nat /\ PoolRoom \in Nat
      /\ peer[cur] = "open" /\ clen \in {0, Len(Body(r))} /\ Where(r)
      /\ Len(sock[cur]) = Len(r) - Taken(cur) /\ (Taken(cur) = Len(r) => sock[cur] = <<>>)
  BY <1>1, <1>f, PromptParts
<1>3. sock[cur] \in Seq(Kinds) /\ Len(sock[cur]) \in Nat
  BY <1>2, StreamParts DEF StreamIInv
<1>4. ~Overrun
  <2> SUFFICES ASSUME pc = "fill", wpos + Chunk > BufLen PROVE FALSE
    BY DEF Overrun, Overruns
  <2>1. Chunk = IF BufLen <= Len(sock[cur]) THEN BufLen ELSE Len(sock[cur])
    BY <1>2, <1>3, MinPair DEF Chunk
  <2>2. Untouched(r) \/ NoLine(r)
    BY <1>2 DEF Where, InLines, AtBody, InBody, Understands
  <2>3. CASE Untouched(r)
    <3>1. wpos = 0
      BY <2>3 DEF Untouched
    <3>. QED BY <1>2, <1>3, <2>1, <3>1
  <2>4. CASE NoLine(r)
    <3>1. Taken(cur) = Len(r)
      BY <2>4 DEF NoLine
    <3>2. Len(sock[cur]) = 0
      BY <1>2, <3>1
    <3>. QED BY <1>2, <2>1, <3>2
  <2>. QED BY <2>2, <2>3, <2>4
<1>5. ~HeaderFails
  <2> SUFFICES ASSUME HeaderOverflows PROVE FALSE
    BY DEF HeaderFails
  <2>1. /\ pc = "scan" /\ Newlines # {} /\ (buf[LineEnd].kind # "end" \/ LineEnd > rpos)
        /\ \E cost \in Costs(TextAt(Terminated, pos)) : used + cost > PoolRoom
    BY DEF HeaderOverflows, Line
  <2>2. InLines(r)
    BY <1>1, <1>f, <2>1, Scanning
  <2>3. /\ LineEnd \in rpos..wpos - 1 /\ (buf[LineEnd].kind = "end" => LineEnd = rpos)
    BY <1>1, <1>f, <2>1, <2>2, LineInRequest
  <2>4. LineEnd \in Nat /\ buf[LineEnd].kind # "end"
    BY <1>2, <2>1, <2>3
  <2>5. used + (LineEnd + 1 - rpos) > PoolRoom
    <3>1. Costs(TextAt(Terminated, pos)) = {LineEnd + 1 - rpos}
      BY <1>1, <1>f, <2>1, <2>2, HeaderPut
    <3>. QED BY <2>1, <3>1
  <2>6. KeyCost + (LineEnd + 1) <= PoolRoom
    BY <1>1, <1>f, <2>1, <2>2, <2>4, LineCost
  <2>7. used <= KeyCost + rpos
    BY <2>2 DEF InLines
  <2>. QED BY <1>2, <2>4, <2>5, <2>6, <2>7
<1>6. ~BodyFails
  <2> SUFFICES ASSUME pc = "more", sock[cur] = <<>> PROVE FALSE
    BY DEF BodyFails
  <2>1. InBody(r)
    BY <1>2 DEF Where, Untouched, InLines, NoLine, AtBody, Understands
  <2> DEFINE e == Min(Ends(r))
  <2>2. Ends(r) # {} /\ Len(body) < clen /\ Taken(cur) = e + Len(body)
    BY <2>1 DEF InBody
  <2>3. Len(Body(r)) = Len(r) - e /\ e \in Nat /\ Len(body) \in Nat
    BY <1>2, <2>2, BodyOf DEF StreamIInv, Types
  <2>4. Len(sock[cur]) = 0
    OBVIOUS
  <2> HIDE DEF e
  <2>. QED BY <1>2, <2>2, <2>3, <2>4
<1>7. ~PoolFails
  <2> SUFFICES ASSUME pc = "respond", BodyOverflows PROVE FALSE
    BY DEF PoolFails
  <2>1. Understands(r)
    BY <1>2 DEF Where, Untouched, InLines, NoLine, AtBody, InBody
  <2>2. clen > 0 => used + clen + KeyCost <= PoolRoom
    BY <2>1 DEF Understands, BodyKept
  <2>3. clen > 0 /\ used + clen + KeyCost > PoolRoom /\ clen \in Nat
    BY <1>2, BodyOf DEF BodyOverflows
  <2>. QED BY <1>2, <2>2, <2>3
<1>8. ~BrokenPipe
  BY <1>2 DEF BrokenPipe
<1>. QED BY <1>4, <1>5, <1>6, <1>7, <1>8

\* The server neither dies nor writes past its buffer over a request that was
\* there when its connection was accepted, from a peer that stays, and whose
\* header section fits the buffer and whose lines and body fit the string pool.
THEOREM DeathsHaveCauses == Spec => DeathCauses
<1> DEFINE Caused == (pc \notin Down /\ pc' \in Down) =>
                       cur \notin prompt \/ ~Fits(request[cur])
<1>1. StreamIInv /\ PromptIInv /\ [Next]_vars => [Caused]_vars
  <2> SUFFICES ASSUME StreamIInv, PromptIInv, Next, pc \notin Down, pc' \in Down,
                      cur \in prompt, Fits(request[cur])
               PROVE  FALSE
    BY DEF vars
  <2>1. Overrun \/ HeaderFails \/ BodyFails \/ PoolFails \/ BrokenPipe
    BY DEF Down, Next, Serve, Connect, PeerSendsOn, PeerSends, PeerStops, PeerShuts, PeerLeaves, Accept, Respond,
           ReadStep, Read, RequestLine, HeaderLine, Line, BlankLine, Compact, ReadChunk, ReadEnds, ReadSpins,
           ReadAgain, AgainEnds, AgainDry, ReadBody, ReadMore
  <2>. QED BY <2>1, NothingFails
<1>2. Spec => [][Caused]_vars
  BY <1>1, PromptAlways, PTL DEF Spec
<1>. QED BY <1>2 DEF DeathCauses
=============================================================================
