-------------------------- MODULE ResponsesProofs --------------------------
(***************************************************************************)
(* Proofs about Responses, for every length of the file and of a chunk and *)
(* every room of the socket a header fits: what arrives is the answer from *)
(* its start on, and all of it unless the socket was full, the peer left or*)
(* the file gave out, when it is all that the file gave.                   *)
(* That every answer ends needs fairness and stays with the run.           *)
(***************************************************************************)
EXTENDS Responses, WellFoundedInduction, SequenceTheorems, TLAPS

-----------------------------------------------------------------------------
(* The inductive invariant *)

Names == {"status", "blank", "type", "length", "close", "chunked", "size", "crlf", "last", "block"}
AnyCell == Names \X Nat
PCs == {"route", "write", "sendfile", "check", "last", "closed", "dead"}

\* What the socket has taken of the answer.
Sent == got \o flight

Types ==
  /\ kind \in Kinds \cup {"none"} /\ pc \in PCs /\ off \in 0..FileLen
  /\ pending \in Seq(Seq(AnyCell)) /\ flight \in Seq(AnyCell) /\ got \in Seq(AnyCell)
  /\ gone \in BOOLEAN /\ full \in BOOLEAN /\ failed \in BOOLEAN /\ Len(flight) <= SendRoom

\* It is the answer as far as it goes.
Right ==
  /\ Len(Sent) <= Len(Meant(kind))
  /\ \A j \in 1..Len(Sent) : Sent[j] = Meant(kind)[j]

\* c chunks of the file have been read.
Read(c) ==
  /\ off = IF c * Piece <= FileLen THEN c * Piece ELSE FileLen
  /\ c > 0 => (c - 1) * Piece < FileLen

\* The cell of the answer behind the writes that are due.
Target(e) ==
  \/ kind \in {"error", "json"} /\ e = Len(Meant(kind))
  \/ kind = "file" /\ e = 4 + off
  \/ kind = "video" /\ \E c \in Nat : Read(c) /\ e = 4 + off + 2 * c

\* The writes w are the cells of the answer from the one behind m up to e; st
\* says where each of them begins.  A header line is within the first four.
Places(k, w, m, e) ==
  \E st \in [1..Len(w) + 1 -> Nat] :
    /\ st[1] = m /\ st[Len(w) + 1] = e
    /\ \A i \in 1..Len(w) :
         /\ st[i + 1] = st[i] + Len(w[i]) /\ st[i + 1] <= Len(Meant(k))
         /\ \A j \in 1..Len(w[i]) : w[i][j] = Meant(k)[st[i] + j]
         /\ k # "video" => st[i + 1] <= 4 \/ (k = "json" /\ i = Len(w))
Due(e) == Places(kind, pending, Len(Sent), e)

\* The answer that is closed: all that the file gave, and all of the file
\* unless it gave out.
Ended ==
  /\ Sent = Given(kind, off)
  /\ kind \in {"file", "video"} /\ off < FileLen => failed

\* Nothing was lost.
Whole ==
  /\ ~(pc = "closed" /\ kind = "video") => Right
  /\ pc = "write" => \E e \in Nat : Target(e) /\ Due(e)
  /\ pc = "sendfile" => kind = "file" /\ Len(Sent) = 4 + off
  /\ pc = "check" => kind = "video" /\ Target(Len(Sent))
  /\ pc = "last" => kind = "video" /\ Target(Len(Sent)) /\ (off < FileLen => failed)
  /\ pc = "closed" => Ended

\* A call fell short: of an answer with a length it was the last one.
Short ==
  kind # "video" => /\ Right /\ pc \notin {"sendfile", "check", "last"}
                    /\ pc = "write" => kind = "json" /\ pending = <<>>

AnswerIInv ==
  /\ Types
  /\ pc = "route" => Sent = <<>> /\ off = 0 /\ ~full
  /\ pc # "route" => kind \in Kinds
  /\ gone => flight = <<>>
  /\ pc # "route" /\ gone /\ kind # "video" => Right
  /\ pc # "route" /\ ~gone => IF full THEN Short ELSE Whole

-----------------------------------------------------------------------------
(* Numbers *)

\* A set of numbers has a least one.
LEMMA MinOf ==
  ASSUME NEW S \in SUBSET Nat, S # {}
  PROVE  Min(S) \in S /\ \A j \in S : Min(S) <= j
<1>1. PICK i \in S : \A j \in S : <<j, i>> \notin OpToRel(<, Nat)
  BY NatLessThanWellFounded, WFMin
<1>2. \A j \in S : ~(j < i)
  BY <1>1 DEF OpToRel
<1>3. \A j \in S : i <= j
  BY <1>2
<1>. QED BY <1>3 DEF Min

\* Which of two numbers is the least.
LEMMA MinPair ==
  ASSUME NEW m \in Nat, NEW n \in Nat
  PROVE  Min({m, n}) = IF m <= n THEN m ELSE n
<1>1. {m, n} \in SUBSET Nat /\ {m, n} # {}
  OBVIOUS
<1>2. Min({m, n}) \in {m, n} /\ \A j \in {m, n} : Min({m, n}) <= j
  BY <1>1, MinOf
<1>. QED BY <1>2

\* Multiples: of a larger number, and of the next one.
LEMMA Multiples ==
  ASSUME NEW p \in Nat
  PROVE  /\ \A a \in Nat : a * p \in Nat /\ (a + 1) * p = a * p + p
         /\ \A a, b \in Nat : a <= b => a * p <= b * p
<1>1. \A a \in Nat : a * p \in Nat /\ (a + 1) * p = a * p + p
  OBVIOUS
<1>2. ASSUME NEW a \in Nat, NEW b \in Nat, a <= b PROVE a * p <= b * p
  <2>1. b - a \in Nat /\ b = a + (b - a)
    BY <1>2
  <2>2. \A d \in Nat : (a + d) * p = a * p + d * p /\ d * p >= 0
    OBVIOUS
  <2>3. b * p = a * p + (b - a) * p /\ (b - a) * p >= 0
    BY <2>1, <2>2
  <2>4. (b - a) * p \in Nat /\ a * p \in Nat
    BY <2>1
  <2>. QED BY <2>3, <2>4
<1>. QED BY <1>1, <1>2

\* Division with remainder has one answer.
LEMMA Divided ==
  ASSUME NEW m \in Nat \ {0}, NEW a \in Nat, NEW b \in 0..m - 1
  PROVE  (a * m + b) \div m = a /\ (a * m + b) % m = b
<1> DEFINE n == a * m + b
           q == n \div m
           r == n % m
<1>1. n \in Nat /\ a * m \in Nat
  OBVIOUS
<1>2. q \in Nat /\ r \in 0..m - 1 /\ n = q * m + r
  <2> HIDE DEF n
  <2>1. \A i \in Nat : i \div m \in Nat /\ i % m \in 0..m - 1 /\ i = m * (i \div m) + (i % m)
    OBVIOUS
  <2>2. q \in Nat /\ r \in 0..m - 1 /\ n = m * q + r
    BY <1>1, <2>1
  <2> HIDE DEF q, r
  <2>3. m * q = q * m
    BY <2>2
  <2>. QED BY <2>2, <2>3
<1>3. n = a * m + b
  OBVIOUS
<1> HIDE DEF n, q, r
<1>4. ~(q < a)
  <2> SUFFICES ASSUME q < a PROVE FALSE
    OBVIOUS
  <2>1. (q + 1) * m <= a * m /\ (q + 1) * m = q * m + m /\ q * m \in Nat
    BY <1>2, Multiples
  <2>. QED BY <1>1, <1>2, <1>3, <2>1
<1>5. ~(a < q)
  <2> SUFFICES ASSUME a < q PROVE FALSE
    OBVIOUS
  <2>1. (a + 1) * m <= q * m /\ (a + 1) * m = a * m + m /\ q * m \in Nat
    BY <1>2, Multiples
  <2>. QED BY <1>1, <1>2, <1>3, <2>1
<1>6. q = a
  BY <1>2, <1>4, <1>5
<1>7. r = b
  BY <1>1, <1>2, <1>3, <1>6
<1>. QED BY <1>6, <1>7 DEF n, q, r

\* How many chunks n blocks make.
LEMMA ChunksOf ==
  ASSUME NEW m \in Nat
  PROVE  /\ Chunks(m) \in Nat
         /\ \A c \in Nat : c * Piece < m => c < Chunks(m)
         /\ \A c \in Nat : c * Piece >= m /\ (c > 0 => (c - 1) * Piece < m) => c = Chunks(m)
<1>1. m \in Nat /\ Piece \in Nat \ {0}
  BY HeadsFit
<1> DEFINE n == m + Piece - 1
           q == n \div Piece
<1>2. n \in Nat /\ q \in Nat /\ Chunks(m) = q /\ \E r \in 0..Piece - 1 : n = q * Piece + r
  <2>1. n \in Nat
    BY <1>1
  <2>2. \A i \in Nat : i \div Piece \in Nat /\ i % Piece \in 0..Piece - 1 /\ i = Piece * (i \div Piece) + (i % Piece)
    BY <1>1
  <2>3. q \in Nat /\ n % Piece \in 0..Piece - 1 /\ n = Piece * q + (n % Piece)
    BY <2>1, <2>2
  <2>4. Piece * q = q * Piece
    BY <1>1, <2>3
  <2>5. Chunks(m) = q
    BY DEF Chunks
  <2>6. n = q * Piece + (n % Piece)
    BY <2>3, <2>4
  <2> HIDE DEF n, q
  <2>. QED BY <2>1, <2>3, <2>5, <2>6
<1>3. n = m + Piece - 1
  OBVIOUS
<1> HIDE DEF n, q
<1>4. q * Piece \in Nat /\ m <= q * Piece /\ q * Piece < m + Piece
  BY <1>1, <1>2, <1>3
<1>5. ASSUME NEW c \in Nat, c * Piece < m PROVE c < q
  <2> SUFFICES ASSUME q <= c PROVE FALSE
    BY <1>2
  <2>1. q * Piece <= c * Piece /\ c * Piece \in Nat
    BY <1>1, <1>2, Multiples
  <2>. QED BY <1>1, <1>4, <1>5, <2>1
<1>6. ASSUME NEW c \in Nat, c * Piece >= m, c > 0 => (c - 1) * Piece < m PROVE c = q
  <2>1. ~(c > q)
    <3> SUFFICES ASSUME c > q PROVE FALSE
      OBVIOUS
    <3>1. c - 1 \in Nat /\ q <= c - 1 /\ c > 0
      BY <1>2
    <3>2. q * Piece <= (c - 1) * Piece /\ (c - 1) * Piece \in Nat
      BY <1>1, <1>2, <3>1, Multiples
    <3>. QED BY <1>1, <1>4, <1>6, <3>1, <3>2
  <2>2. ~(c < q)
    <3> SUFFICES ASSUME c < q PROVE FALSE
      OBVIOUS
    <3>1. (c + 1) * Piece <= q * Piece /\ (c + 1) * Piece = c * Piece + Piece /\ c * Piece \in Nat
      BY <1>1, <1>2, Multiples
    <3>. QED BY <1>1, <1>4, <1>6, <3>1
  <2>. QED BY <1>2, <2>1, <2>2
<1>. QED BY <1>2, <1>5, <1>6

\* How many chunks a file has, and where one of them ends.
LEMMA PiecesOf ==
  /\ Pieces \in Nat
  /\ \A c \in Nat : c * Piece < FileLen => c < Pieces
  /\ \A c \in Nat : c * Piece >= FileLen /\ (c > 0 => (c - 1) * Piece < FileLen) => c = Pieces
  /\ \A i \in Nat : i <= FileLen =>
       PieceEnd(i) = IF i + Piece <= FileLen THEN i + Piece ELSE FileLen
<1>1. FileLen \in Nat /\ Piece \in Nat \ {0}
  BY HeadsFit
<1>2. /\ Pieces \in Nat
      /\ \A c \in Nat : c * Piece < FileLen => c < Pieces
      /\ \A c \in Nat : c * Piece >= FileLen /\ (c > 0 => (c - 1) * Piece < FileLen) => c = Pieces
  <2> HIDE DEF Chunks
  <2>. QED BY <1>1, ChunksOf DEF Pieces
<1>3. ASSUME NEW i \in Nat, i <= FileLen
      PROVE  PieceEnd(i) = IF i + Piece <= FileLen THEN i + Piece ELSE FileLen
  <2>1. i + Piece \in Nat
    BY <1>1
  <2>. QED BY <1>1, <2>1, MinPair DEF PieceEnd
<1>. QED BY <1>2, <1>3

-----------------------------------------------------------------------------
(* The answer, cell by cell *)

\* What a cell is.
LEMMA CellTypes ==
  /\ \A t \in Names : Cell(t) \in AnyCell
  /\ \A n \in Nat : Block(n) \in AnyCell
<1>1. \A t \in Names : Cell(t) \in AnyCell
  BY DEF Cell, AnyCell
<1>2. "block" \in Names
  BY DEF Names
<1>3. \A n \in Nat : <<"block", n>> \in Names \X Nat
  BY <1>2
<1>. QED BY <1>1, <1>3 DEF Block, AnyCell

\* A run of header names.
LEMMA CellsOf ==
  ASSUME NEW s \in Seq(Names)
  PROVE  /\ Cells(s) \in Seq(AnyCell) /\ Len(Cells(s)) = Len(s)
         /\ \A i \in 1..Len(s) : Cells(s)[i] = Cell(s[i])
<1>1. Len(s) \in Nat /\ DOMAIN s = 1..Len(s) /\ \A i \in 1..Len(s) : s[i] \in Names
  OBVIOUS
<1>2. \A t \in Names : Cell(t) \in AnyCell
  BY CellTypes
<1>3. Cells(s) = [i \in 1..Len(s) |-> Cell(s[i])]
  BY <1>1 DEF Cells
<1>4. Cells(s) \in [1..Len(s) -> AnyCell]
  BY <1>1, <1>2, <1>3
<1> HIDE DEF Cell
<1>. QED BY <1>1, <1>3, <1>4

\* A run of blocks.
LEMMA BlocksOf ==
  ASSUME NEW i \in Nat, NEW j \in Nat, i <= j
  PROVE  /\ Blocks(i, j) \in Seq(AnyCell) /\ Len(Blocks(i, j)) = j - i
         /\ \A k \in 1..j - i : Blocks(i, j)[k] = Block(i + k)
<1>1. \A k \in 1..j - i : Block(i + k) \in AnyCell
  <2>1. \A k \in 1..j - i : i + k \in Nat
    OBVIOUS
  <2>. QED BY <2>1, CellTypes
<1>2. Blocks(i, j) = [k \in 1..j - i |-> Block(i + k)] /\ j - i \in Nat
  BY DEF Blocks
<1> HIDE DEF Block, AnyCell
<1>3. Blocks(i, j) \in [1..j - i -> AnyCell]
  BY <1>1, <1>2
<1>. QED BY <1>2, <1>3

\* The header of each answer.
LEMMA HeaderOf ==
  /\ Header("error") \in Seq(AnyCell) /\ Len(Header("error")) = 2
  /\ Header("error")[1] = Cell("status") /\ Header("error")[2] = Cell("blank")
  /\ \A k \in {"json", "file"} :
       /\ Header(k) \in Seq(AnyCell) /\ Len(Header(k)) = 4
       /\ Header(k)[1] = Cell("status") /\ Header(k)[2] = Cell("type")
       /\ Header(k)[3] = Cell("length") /\ Header(k)[4] = Cell("close")
  /\ Header("video") \in Seq(AnyCell) /\ Len(Header("video")) = 4
  /\ Header("video")[1] = Cell("status") /\ Header("video")[2] = Cell("type")
  /\ Header("video")[3] = Cell("chunked") /\ Header("video")[4] = Cell("close")
<1> DEFINE e == <<"status", "blank">>
           l == <<"status", "type", "length", "close">>
           v == <<"status", "type", "chunked", "close">>
<1>1. Header("error") = Cells(e) /\ Header("video") = Cells(v) /\ \A k \in {"json", "file"} : Header(k) = Cells(l)
  BY DEF Header
<1>2. /\ e \in Seq(Names) /\ Len(e) = 2 /\ e[1] = "status" /\ e[2] = "blank"
      /\ l \in Seq(Names) /\ Len(l) = 4 /\ l[1] = "status" /\ l[2] = "type" /\ l[3] = "length" /\ l[4] = "close"
      /\ v \in Seq(Names) /\ Len(v) = 4 /\ v[1] = "status" /\ v[2] = "type" /\ v[3] = "chunked" /\ v[4] = "close"
  <2>1. e \in Seq(Names) /\ Len(e) = 2 /\ e[1] = "status" /\ e[2] = "blank"
    BY DEF Names
  <2>2. \A a, b, c, d \in Names : LET t == <<a, b, c, d>>
                                 IN  t \in Seq(Names) /\ Len(t) = 4 /\ t[1] = a /\ t[2] = b /\ t[3] = c /\ t[4] = d
    OBVIOUS
  <2>3. \A s \in {"status", "type", "length", "close", "chunked"} : s \in Names
    BY DEF Names
  <2>4. l \in Seq(Names) /\ Len(l) = 4 /\ l[1] = "status" /\ l[2] = "type" /\ l[3] = "length" /\ l[4] = "close"
    BY <2>2, <2>3, Zenon
  <2>5. v \in Seq(Names) /\ Len(v) = 4 /\ v[1] = "status" /\ v[2] = "type" /\ v[3] = "chunked" /\ v[4] = "close"
    BY <2>2, <2>3, Zenon
  <2>. QED BY <2>1, <2>4, <2>5, Zenon
<1> HIDE DEF e, l, v
<1>3. /\ Cells(e) \in Seq(AnyCell) /\ Len(Cells(e)) = 2 /\ Cells(e)[1] = Cell("status") /\ Cells(e)[2] = Cell("blank")
  <2>1. Cells(e) \in Seq(AnyCell) /\ Len(Cells(e)) = 2 /\ \A i \in 1..2 : Cells(e)[i] = Cell(e[i])
    BY <1>2, CellsOf
  <2> HIDE DEF Cells, Cell, AnyCell
  <2>. QED BY <1>2, <2>1
<1>4. /\ Cells(l) \in Seq(AnyCell) /\ Len(Cells(l)) = 4 /\ Cells(l)[1] = Cell("status")
      /\ Cells(l)[2] = Cell("type") /\ Cells(l)[3] = Cell("length") /\ Cells(l)[4] = Cell("close")
  <2>1. Cells(l) \in Seq(AnyCell) /\ Len(Cells(l)) = 4 /\ \A i \in 1..4 : Cells(l)[i] = Cell(l[i])
    BY <1>2, CellsOf
  <2>. QED BY <1>2, <2>1
<1>5. /\ Cells(v) \in Seq(AnyCell) /\ Len(Cells(v)) = 4 /\ Cells(v)[1] = Cell("status")
      /\ Cells(v)[2] = Cell("type") /\ Cells(v)[3] = Cell("chunked") /\ Cells(v)[4] = Cell("close")
  <2>1. Cells(v) \in Seq(AnyCell) /\ Len(Cells(v)) = 4 /\ \A i \in 1..4 : Cells(v)[i] = Cell(v[i])
    BY <1>2, CellsOf
  <2>. QED BY <1>2, <2>1
<1>. QED BY <1>1, <1>3, <1>4, <1>5

\* The chunks of a video: where the cells of the chunk c + 1 are.
LEMMA VideoOf ==
  /\ Video \in Seq(AnyCell) /\ Len(Video) = FileLen + 2 * Pieces
  /\ \A c \in Nat : c * Piece < FileLen =>
       LET m == c * Piece + 2 * c
           n == PieceEnd(c * Piece) - c * Piece
       IN  /\ m + n + 2 <= Len(Video) /\ Video[m + 1] = Cell("size")
           /\ \A j \in 1..n : Video[m + 1 + j] = Block(c * Piece + j)
           /\ Video[m + n + 2] = Cell("crlf")
<1>1. FileLen \in Nat /\ Piece \in Nat \ {0} /\ Pieces \in Nat
  BY HeadsFit, PiecesOf
<1> DEFINE l == FileLen + 2 * Pieces
           At(i) == VideoCell((i - 1) \div (Piece + 2), (i - 1) % (Piece + 2))
<1>2. l \in Nat /\ Video = [i \in 1..l |-> At(i)]
  BY <1>1 DEF Video
<1>3. \A j \in Nat, p \in Nat : VideoCell(j, p) \in AnyCell
  <2> TAKE j \in Nat, p \in Nat
  <2>1. j * Piece + p \in Nat
    BY <1>1
  <2>2. Block(j * Piece + p) \in AnyCell /\ Cell("size") \in AnyCell /\ Cell("crlf") \in AnyCell
    BY <2>1, CellTypes DEF Names
  <2> HIDE DEF Cell, Block, AnyCell
  <2>. QED BY <2>2 DEF VideoCell
<1>4. \A i \in 1..l : At(i) \in AnyCell
  <2> TAKE i \in 1..l
  <2>1. i - 1 \in Nat /\ Piece + 2 \in Nat \ {0}
    BY <1>1
  <2>2. (i - 1) \div (Piece + 2) \in Nat /\ (i - 1) % (Piece + 2) \in Nat
    BY <2>1
  <2>. QED BY <1>3, <2>2
<1>5. Video \in Seq(AnyCell) /\ Len(Video) = l
  <2> HIDE DEF At, l
  <2>1. Video \in [1..l -> AnyCell]
    BY <1>2, <1>4
  <2>. QED BY <1>2, <2>1
<1>6. ASSUME NEW c \in Nat, c * Piece < FileLen
      PROVE  LET m == c * Piece + 2 * c
                 n == PieceEnd(c * Piece) - c * Piece
             IN  /\ m + n + 2 <= Len(Video) /\ Video[m + 1] = Cell("size")
                 /\ \A j \in 1..n : Video[m + 1 + j] = Block(c * Piece + j)
                 /\ Video[m + n + 2] = Cell("crlf")
  <2> DEFINE b == c * Piece
             m == b + 2 * c
             n == PieceEnd(b) - b
  <2>1. b \in Nat /\ b < FileLen /\ c < Pieces
    BY <1>1, <1>6, PiecesOf
  <2>2. n \in 1..Piece /\ b + n <= FileLen
    <3>1. PieceEnd(b) = IF b + Piece <= FileLen THEN b + Piece ELSE FileLen
      BY <1>1, <2>1, PiecesOf
    <3>. QED BY <1>1, <2>1, <3>1
  <2>3. m = c * (Piece + 2)
    BY <1>1
  <2>4. \A p \in 0..Piece + 1 : m + p + 1 \in Nat /\ At(m + p + 1) = VideoCell(c, p)
    <3> TAKE p \in 0..Piece + 1
    <3>1. Piece + 2 \in Nat \ {0} /\ p \in 0..(Piece + 2) - 1 /\ m \in Nat
      BY <1>1, <2>1
    <3>2. (c * (Piece + 2) + p) \div (Piece + 2) = c /\ (c * (Piece + 2) + p) % (Piece + 2) = p
      BY <3>1, Divided
    <3>3. (m + p + 1) - 1 = c * (Piece + 2) + p
      BY <2>3, <3>1
    <3>4. m + p + 1 \in Nat
      BY <3>1
    <3>5. At(m + p + 1) = VideoCell(c, p)
      <4> HIDE DEF VideoCell, m
      <4>. QED BY <3>2, <3>3
    <3>. QED BY <3>4, <3>5
  <2> HIDE DEF m, At
  <2>5. m = b + 2 * c
    BY DEF m
  <2>6. m + n + 2 <= l
    BY <1>1, <2>1, <2>2, <2>5
  <2>7. VideoCell(c, 0) = Cell("size") /\ (\A j \in 1..n : VideoCell(c, j) = Block(b + j)) /\ VideoCell(c, n + 1) = Cell("crlf")
    <3> HIDE DEF Cell, Block
    <3>1. \A j \in 1..n : j # 0 /\ j <= n
      BY <2>2
    <3>2. n + 1 # 0 /\ ~(n + 1 <= n)
      BY <2>2
    <3>. QED BY <3>1, <3>2 DEF VideoCell
  <2> HIDE DEF b, n, l
  <2>8. m \in Nat
    BY <2>1, <2>5
  <2>9. \A p \in 0..n + 1 : m + p + 1 \in 1..l /\ Video[m + p + 1] = VideoCell(c, p)
    <3> TAKE p \in 0..n + 1
    <3>1. p \in 0..Piece + 1 /\ m + p + 1 \in 1..l
      BY <1>1, <1>2, <2>2, <2>6, <2>8
    <3>. QED BY <1>2, <2>4, <3>1
  <2>10. Video[m + 1] = Cell("size") /\ Video[m + n + 2] = Cell("crlf")
    <3>1. m + 0 + 1 = m + 1 /\ m + (n + 1) + 1 = m + n + 2 /\ 0 \in 0..n + 1 /\ n + 1 \in 0..n + 1
      BY <2>2, <2>8
    <3>. QED BY <2>7, <2>9, <3>1
  <2>11. \A j \in 1..n : Video[m + 1 + j] = Block(b + j)
    <3> TAKE j \in 1..n
    <3>1. m + j + 1 = m + 1 + j /\ j \in 0..n + 1
      BY <2>2, <2>8
    <3>. QED BY <2>7, <2>9, <3>1
  <2>. QED BY <1>5, <2>6, <2>10, <2>11 DEF b, m, n
<1>. QED BY <1>5, <1>6

\* One sequence behind another.
LEMMA Joined ==
  ASSUME NEW S, NEW s \in Seq(S), NEW t \in Seq(S)
  PROVE  /\ s \o t \in Seq(S) /\ Len(s) \in Nat /\ Len(t) \in Nat /\ Len(s \o t) = Len(s) + Len(t)
         /\ \A i \in 1..Len(s) : (s \o t)[i] = s[i]
         /\ \A i \in 1..Len(t) : (s \o t)[Len(s) + i] = t[i]
OBVIOUS

\* The first of a sequence and the others.
LEMMA HeadTail ==
  ASSUME NEW S, NEW s \in Seq(S), s # <<>>
  PROVE  /\ Head(s) = s[1] /\ Head(s) \in S /\ Len(s) \in Nat \ {0}
         /\ Tail(s) \in Seq(S) /\ Len(Tail(s)) = Len(s) - 1
         /\ \A i \in 1..Len(s) - 1 : Tail(s)[i] = s[i + 1]
         /\ (Tail(s) = <<>>) <=> (Len(s) = 1)
<1>1. Head(s) = s[1] /\ Head(s) \in S /\ Len(s) \in Nat \ {0}
  OBVIOUS
<1>2. Tail(s) \in Seq(S) /\ Len(Tail(s)) = Len(s) - 1
  OBVIOUS
<1>3. \A i \in 1..Len(s) - 1 : Tail(s)[i] = s[i + 1]
  OBVIOUS
<1>4. (Tail(s) = <<>>) <=> (Len(Tail(s)) = 0)
  <2> DEFINE t == Tail(s)
  <2>1. t \in Seq(S)
    BY <1>2
  <2> HIDE DEF t
  <2>2. (t = <<>>) <=> (Len(t) = 0)
    BY <2>1
  <2>. QED BY <2>2 DEF t
<1>5. (Tail(s) = <<>>) <=> (Len(s) = 1)
  BY <1>1, <1>2, <1>4
<1>. QED BY <1>1, <1>2, <1>3, <1>5

\* The whole answers.
LEMMA MeantOf ==
  /\ \A k \in Kinds : Meant(k) \in Seq(AnyCell)
  /\ Len(Meant("error")) = 2 /\ \A i \in 1..2 : Meant("error")[i] = Header("error")[i]
  /\ \A k \in {"json", "file"} :
       /\ Len(Meant(k)) = 4 + FileLen /\ \A i \in 1..4 : Meant(k)[i] = Header(k)[i]
       /\ \A i \in 1..FileLen : Meant(k)[4 + i] = Block(i)
  /\ Len(Meant("video")) = 5 + Len(Video) /\ \A i \in 1..4 : Meant("video")[i] = Header("video")[i]
  /\ \A i \in 1..Len(Video) : Meant("video")[4 + i] = Video[i]
  /\ Meant("video")[5 + Len(Video)] = Cell("last")
<1>1. FileLen \in Nat
  BY HeadsFit
<1>2. Meant("error") = Header("error")
  BY DEF Meant
<1>3. ASSUME NEW k \in {"json", "file"}
      PROVE  /\ Meant(k) \in Seq(AnyCell)
             /\ Len(Meant(k)) = 4 + FileLen /\ \A i \in 1..4 : Meant(k)[i] = Header(k)[i]
             /\ \A i \in 1..FileLen : Meant(k)[4 + i] = Block(i)
  <2>1. Meant(k) = Header(k) \o Blocks(0, FileLen)
    BY DEF Meant
  <2>2. /\ Blocks(0, FileLen) \in Seq(AnyCell) /\ Len(Blocks(0, FileLen)) = FileLen
        /\ \A i \in 1..FileLen : Blocks(0, FileLen)[i] = Block(i)
    <3>1. FileLen - 0 = FileLen /\ \A i \in 1..FileLen : 0 + i = i
      BY <1>1
    <3>2. 0 \in Nat /\ 0 <= FileLen
      BY <1>1
    <3>3. /\ Blocks(0, FileLen) \in Seq(AnyCell) /\ Len(Blocks(0, FileLen)) = FileLen - 0
          /\ \A i \in 1..FileLen - 0 : Blocks(0, FileLen)[i] = Block(0 + i)
      BY ONLY <1>1, <3>2, BlocksOf
    <3> HIDE DEF Block, Blocks, AnyCell
    <3>. QED BY <3>1, <3>3
  <2>3. Header(k) \in Seq(AnyCell) /\ Len(Header(k)) = 4
    BY HeaderOf
  <2> DEFINE h == Header(k)
             b == Blocks(0, FileLen)
  <2> HIDE DEF Block, Blocks, AnyCell, Header, h, b
  <2>4. h \in Seq(AnyCell) /\ b \in Seq(AnyCell)
    BY <2>2, <2>3 DEF h, b
  <2>5. /\ h \o b \in Seq(AnyCell) /\ Len(h \o b) = Len(h) + Len(b)
        /\ \A i \in 1..Len(h) : (h \o b)[i] = h[i]
        /\ \A i \in 1..Len(b) : (h \o b)[Len(h) + i] = b[i]
    BY ONLY <2>4, Joined
  <2>6. Meant(k) = h \o b /\ Len(h) = 4 /\ Len(b) = FileLen
    BY <2>1, <2>2, <2>3 DEF h, b
  <2>7. /\ Meant(k) \in Seq(AnyCell) /\ Len(Meant(k)) = 4 + FileLen
        /\ \A i \in 1..4 : Meant(k)[i] = Header(k)[i]
        /\ \A i \in 1..FileLen : Meant(k)[4 + i] = Blocks(0, FileLen)[i]
    BY <2>5, <2>6 DEF h, b
  <2>. QED BY <2>2, <2>7
<1>4. Meant("video") = Header("video") \o Append(Video, Cell("last"))
  BY DEF Meant
<1>5. Header("video") \in Seq(AnyCell) /\ Len(Header("video")) = 4 /\ Video \in Seq(AnyCell) /\ Len(Video) \in Nat
  BY HeaderOf, VideoOf
<1>6. Cell("last") \in AnyCell
  BY CellTypes DEF Names
<1> DEFINE v == Append(Video, Cell("last"))
<1>7. /\ v \in Seq(AnyCell) /\ Len(v) = Len(Video) + 1 /\ v[Len(Video) + 1] = Cell("last")
      /\ \A i \in 1..Len(Video) : v[i] = Video[i]
  <2> HIDE DEF Cell
  <2>. QED BY <1>5, <1>6
<1>8. Meant("video") = Header("video") \o v
  BY <1>4
<1> HIDE DEF v
<1>9. /\ Meant("video") \in Seq(AnyCell) /\ Len(Meant("video")) = 5 + Len(Video)
      /\ \A i \in 1..4 : Meant("video")[i] = Header("video")[i]
      /\ \A i \in 1..Len(Video) + 1 : Meant("video")[4 + i] = v[i]
  <2> DEFINE h == Header("video")
  <2> HIDE DEF h
  <2>1. h \in Seq(AnyCell) /\ v \in Seq(AnyCell)
    BY <1>5, <1>7 DEF h
  <2>2. /\ h \o v \in Seq(AnyCell) /\ Len(h \o v) = Len(h) + Len(v)
        /\ \A i \in 1..Len(h) : (h \o v)[i] = h[i]
        /\ \A i \in 1..Len(v) : (h \o v)[Len(h) + i] = v[i]
    BY ONLY <2>1, Joined
  <2>3. Meant("video") = h \o v /\ Len(h) = 4 /\ Len(v) = Len(Video) + 1
    BY <1>5, <1>7, <1>8 DEF h
  <2>4. /\ Meant("video") \in Seq(AnyCell) /\ Len(Meant("video")) = 4 + (Len(Video) + 1)
        /\ \A i \in 1..4 : Meant("video")[i] = Header("video")[i]
        /\ \A i \in 1..Len(Video) + 1 : Meant("video")[4 + i] = v[i]
    BY <2>2, <2>3 DEF h
  <2>5. 4 + (Len(Video) + 1) = 5 + Len(Video)
    BY <1>5
  <2>. QED BY <2>4, <2>5
<1>10. /\ \A i \in 1..Len(Video) : Meant("video")[4 + i] = Video[i]
       /\ Meant("video")[5 + Len(Video)] = Cell("last")
  <2>1. Len(Video) + 1 \in 1..Len(Video) + 1 /\ 4 + (Len(Video) + 1) = 5 + Len(Video)
        /\ \A i \in 1..Len(Video) : i \in 1..Len(Video) + 1
    BY <1>5
  <2>. QED BY <1>7, <1>9, <2>1
<1>11. Meant("error") \in Seq(AnyCell) /\ Len(Meant("error")) = 2
  BY <1>2, HeaderOf
<1>. QED BY <1>2, <1>3, <1>9, <1>10, <1>11 DEF Kinds

\* One write after the other.
LEMMA PlacesStep ==
  ASSUME NEW k \in Kinds, NEW w \in Seq(Seq(AnyCell)), NEW m \in Nat, NEW e \in Nat, w # <<>>
  PROVE  Places(k, w, m, e) <=>
           /\ Places(k, Tail(w), m + Len(Head(w)), e)
           /\ m + Len(Head(w)) <= Len(Meant(k))
           /\ \A j \in 1..Len(Head(w)) : Head(w)[j] = Meant(k)[m + j]
           /\ k # "video" => m + Len(Head(w)) <= 4 \/ (k = "json" /\ Tail(w) = <<>>)
<1> DEFINE h == Head(w)
           t == Tail(w)
<1>1. /\ h = w[1] /\ h \in Seq(AnyCell) /\ Len(h) \in Nat /\ Len(w) \in Nat \ {0}
      /\ t \in Seq(Seq(AnyCell)) /\ Len(t) = Len(w) - 1 /\ (\A i \in 1..Len(t) : t[i] = w[i + 1] /\ i + 1 \in 1..Len(w))
      /\ (t = <<>>) <=> (Len(w) = 1)
  <2>1. /\ h = w[1] /\ h \in Seq(AnyCell) /\ Len(w) \in Nat \ {0}
        /\ t \in Seq(Seq(AnyCell)) /\ Len(t) = Len(w) - 1 /\ (\A i \in 1..Len(w) - 1 : t[i] = w[i + 1])
        /\ (t = <<>>) <=> (Len(w) = 1)
    BY HeadTail
  <2> HIDE DEF h, t
  <2>2. Len(h) \in Nat
    BY <2>1
  <2>3. \A i \in 1..Len(t) : t[i] = w[i + 1] /\ i + 1 \in 1..Len(w)
    BY <2>1
  <2>. QED BY <2>1, <2>2, <2>3
<1> HIDE DEF h, t
<1>2. ASSUME Places(k, w, m, e)
      PROVE  /\ Places(k, t, m + Len(h), e)
             /\ m + Len(h) <= Len(Meant(k))
             /\ \A j \in 1..Len(h) : h[j] = Meant(k)[m + j]
             /\ k # "video" => m + Len(h) <= 4 \/ (k = "json" /\ t = <<>>)
  <2>1. PICK st \in [1..Len(w) + 1 -> Nat] :
          /\ st[1] = m /\ st[Len(w) + 1] = e
          /\ \A i \in 1..Len(w) :
               /\ st[i + 1] = st[i] + Len(w[i]) /\ st[i + 1] <= Len(Meant(k))
               /\ \A j \in 1..Len(w[i]) : w[i][j] = Meant(k)[st[i] + j]
               /\ k # "video" => st[i + 1] <= 4 \/ (k = "json" /\ i = Len(w))
    BY <1>2 DEF Places
  <2>2. 1 \in 1..Len(w)
    BY <1>1
  <2>3. st[2] = m + Len(h)
    BY <1>1, <2>1, <2>2
  <2> DEFINE su == [i \in 1..Len(t) + 1 |-> st[i + 1]]
  <2>4. su \in [1..Len(t) + 1 -> Nat] /\ su[1] = m + Len(h) /\ su[Len(t) + 1] = e
        /\ \A i \in 1..Len(t) : su[i] = st[i + 1] /\ su[i + 1] = st[(i + 1) + 1]
    <3>1. Len(t) \in Nat /\ (Len(t) + 1) + 1 = Len(w) + 1 /\ \A i \in 1..Len(t) + 1 : i + 1 \in 1..Len(w) + 1
      BY <1>1
    <3>2. \A i \in 1..Len(t) + 1 : st[i + 1] \in Nat
      BY <2>1, <3>1
    <3>3. 1 \in 1..Len(t) + 1 /\ Len(t) + 1 \in 1..Len(t) + 1 /\ 1 + 1 = 2
          /\ \A i \in 1..Len(t) : i \in 1..Len(t) + 1 /\ i + 1 \in 1..Len(t) + 1
      BY <3>1
    <3>4. su \in [1..Len(t) + 1 -> Nat] /\ \A i \in 1..Len(t) + 1 : su[i] = st[i + 1]
      BY <3>2
    <3> HIDE DEF su
    <3>5. su[1] = m + Len(h) /\ su[Len(t) + 1] = e
      BY <2>1, <2>3, <3>1, <3>3, <3>4
    <3>6. \A i \in 1..Len(t) : su[i] = st[i + 1] /\ su[i + 1] = st[(i + 1) + 1]
      BY <3>3, <3>4
    <3>. QED BY <3>4, <3>5, <3>6
  <2> HIDE DEF su
  <2>5. ASSUME NEW i \in 1..Len(t)
        PROVE  /\ su[i + 1] = su[i] + Len(t[i]) /\ su[i + 1] <= Len(Meant(k))
               /\ \A j \in 1..Len(t[i]) : t[i][j] = Meant(k)[su[i] + j]
               /\ k # "video" => su[i + 1] <= 4 \/ (k = "json" /\ i = Len(t))
    <3>1. t[i] = w[i + 1] /\ i + 1 \in 1..Len(w)
      BY <1>1
    <3>2. su[i] = st[i + 1] /\ su[i + 1] = st[(i + 1) + 1]
      BY <2>4
    <3>3. i + 1 = Len(w) => i = Len(t)
      BY <1>1
    <3>. QED BY <2>1, <3>1, <3>2, <3>3
  <2>6. Places(k, t, m + Len(h), e)
    BY <2>4, <2>5 DEF Places
  <2>. QED BY <1>1, <2>1, <2>2, <2>3, <2>6
<1>3. ASSUME /\ Places(k, t, m + Len(h), e)
             /\ m + Len(h) <= Len(Meant(k))
             /\ \A j \in 1..Len(h) : h[j] = Meant(k)[m + j]
             /\ k # "video" => m + Len(h) <= 4 \/ (k = "json" /\ t = <<>>)
      PROVE  Places(k, w, m, e)
  <2>1. PICK st \in [1..Len(t) + 1 -> Nat] :
          /\ st[1] = m + Len(h) /\ st[Len(t) + 1] = e
          /\ \A i \in 1..Len(t) :
               /\ st[i + 1] = st[i] + Len(t[i]) /\ st[i + 1] <= Len(Meant(k))
               /\ \A j \in 1..Len(t[i]) : t[i][j] = Meant(k)[st[i] + j]
               /\ k # "video" => st[i + 1] <= 4 \/ (k = "json" /\ i = Len(t))
    BY <1>3 DEF Places
  <2> DEFINE su == [i \in 1..Len(w) + 1 |-> IF i = 1 THEN m ELSE st[i - 1]]
  <2>2. su \in [1..Len(w) + 1 -> Nat] /\ su[1] = m /\ su[2] = m + Len(h) /\ su[Len(w) + 1] = e
        /\ \A i \in 1..Len(t) : su[i + 1] = st[i] /\ su[(i + 1) + 1] = st[i + 1]
    <3>1. /\ Len(t) \in Nat /\ (Len(w) + 1) - 1 = Len(t) + 1 /\ 1 \in 1..Len(w) + 1 /\ 2 \in 1..Len(w) + 1
          /\ Len(w) + 1 \in 1..Len(w) + 1 /\ Len(w) + 1 # 1
          /\ \A i \in 1..Len(w) + 1 : i # 1 => i - 1 \in 1..Len(t) + 1
      BY <1>1
    <3>2. \A i \in 1..Len(w) + 1 : (IF i = 1 THEN m ELSE st[i - 1]) \in Nat
      BY <2>1, <3>1
    <3>3. \A i \in 1..Len(t) : i + 1 \in 1..Len(w) + 1 /\ (i + 1) + 1 \in 1..Len(w) + 1 /\ (i + 1) - 1 = i
                               /\ ((i + 1) + 1) - 1 = i + 1 /\ i + 1 # 1 /\ (i + 1) + 1 # 1
      BY <1>1
    <3>4. su \in [1..Len(w) + 1 -> Nat] /\ su[1] = m /\ su[2] = m + Len(h) /\ su[Len(w) + 1] = e
      BY <2>1, <3>1, <3>2
    <3>5. \A i \in 1..Len(t) : su[i + 1] = st[i] /\ su[(i + 1) + 1] = st[i + 1]
      BY <3>3
    <3>. QED BY <3>4, <3>5
  <2> HIDE DEF su
  <2>3. ASSUME NEW i \in 1..Len(w)
        PROVE  /\ su[i + 1] = su[i] + Len(w[i]) /\ su[i + 1] <= Len(Meant(k))
               /\ \A j \in 1..Len(w[i]) : w[i][j] = Meant(k)[su[i] + j]
               /\ k # "video" => su[i + 1] <= 4 \/ (k = "json" /\ i = Len(w))
    <3>1. CASE i = 1
      <4>1. w[i] = h /\ su[i] = m /\ su[i + 1] = m + Len(h) /\ (t = <<>> => i = Len(w))
        BY <1>1, <2>2, <3>1
      <4>. QED BY <1>3, <4>1
    <3>2. CASE i # 1
      <4>1. PICK n \in 1..Len(t) : i = n + 1
        <5>1. i - 1 \in 1..Len(t) /\ i = (i - 1) + 1
          BY <1>1, <3>2
        <5>. QED BY <5>1
      <4>2. w[i] = t[n]
        BY <1>1, <4>1
      <4>3. su[i] = st[n] /\ su[i + 1] = st[n + 1]
        BY <2>2, <4>1
      <4>4. n = Len(t) => i = Len(w)
        BY <1>1, <4>1
      <4>. QED BY <2>1, <4>2, <4>3, <4>4
    <3>. QED BY <3>1, <3>2
  <2>. QED BY <2>2, <2>3 DEF Places
<1>. QED BY <1>2, <1>3 DEF h, t

\* Nothing is due, and nothing is left to be.
LEMMA PlacesEnd ==
  ASSUME NEW k, NEW m \in Nat, NEW e \in Nat
  PROVE  Places(k, <<>>, m, e) <=> m = e
<1>1. Len(<<>>) = 0 /\ 1..0 = {}
  OBVIOUS
<1>2. Places(k, <<>>, m, e) => m = e
  BY <1>1 DEF Places
<1>3. ASSUME m = e PROVE Places(k, <<>>, m, e)
  <2> DEFINE st == [i \in 1..Len(<<>>) + 1 |-> m]
  <2>1. st \in [1..Len(<<>>) + 1 -> Nat] /\ st[1] = m /\ st[Len(<<>>) + 1] = e
    BY <1>1, <1>3
  <2>. QED BY <1>1, <2>1 DEF Places
<1>. QED BY <1>2, <1>3

\* The header lines of an answer, each group of them one write.
LEMMA LinesOf ==
  ASSUME NEW h \in Seq(Seq(Names))
  PROVE  LET f == [i \in DOMAIN h |-> Cells(h[i])]
         IN  f \in Seq(Seq(AnyCell)) /\ Len(f) = Len(h) /\ \A i \in 1..Len(h) : f[i] = Cells(h[i])
<1> DEFINE f == [i \in DOMAIN h |-> Cells(h[i])]
<1>1. Len(h) \in Nat /\ DOMAIN h = 1..Len(h) /\ \A i \in 1..Len(h) : h[i] \in Seq(Names)
  OBVIOUS
<1>2. \A i \in 1..Len(h) : Cells(h[i]) \in Seq(AnyCell)
  BY <1>1, CellsOf
<1> HIDE DEF Cells, AnyCell
<1>3. f = [i \in 1..Len(h) |-> Cells(h[i])]
  BY <1>1
<1> HIDE DEF f
<1>4. f \in [1..Len(h) -> Seq(AnyCell)]
  BY <1>2, <1>3
<1>5. f \in Seq(Seq(AnyCell)) /\ Len(f) = Len(h) /\ \A i \in 1..Len(h) : f[i] = Cells(h[i])
  BY <1>1, <1>3, <1>4
<1>. QED BY <1>5 DEF f

\* A header line on its own.
LEMMA LineOf ==
  ASSUME NEW a \in Names
  PROVE  Cells(<<a>>) \in Seq(AnyCell) /\ Len(Cells(<<a>>)) = 1 /\ Cells(<<a>>)[1] = Cell(a)
<1> DEFINE s == <<a>>
<1>1. s \in Seq(Names) /\ Len(s) = 1 /\ s[1] = a
  OBVIOUS
<1> HIDE DEF s
<1>2. Cells(s) \in Seq(AnyCell) /\ Len(Cells(s)) = 1 /\ \A i \in 1..1 : Cells(s)[i] = Cell(s[i])
  BY <1>1, CellsOf
<1> HIDE DEF Cells, Cell, AnyCell
<1>3. Cells(s)[1] = Cell(a)
  BY <1>1, <1>2
<1>. QED BY <1>2, <1>3 DEF s

\* The writes an answer starts with are its cells from the first one on.
LEMMA FirstOf ==
  ASSUME NEW k \in Kinds
  PROVE  /\ FirstWrites(k) \in Seq(Seq(AnyCell)) /\ FirstWrites(k) # <<>>
         /\ Places(k, FirstWrites(k), 0, IF k \in {"error", "json"} THEN Len(Meant(k)) ELSE 4)
<1>0. FileLen \in Nat
  BY HeadsFit
<1>1. CASE k = "error"
  <2> DEFINE h == <<<<"status">>, <<"blank">>>>
             w == FirstWrites("error")
             st == [i \in 1..3 |-> i - 1]
  <2>1. w = [i \in DOMAIN h |-> Cells(h[i])]
    BY DEF FirstWrites, Heads
  <2>2. "status" \in Names /\ "blank" \in Names
    BY DEF Names
  <2>3. h \in Seq(Seq(Names)) /\ Len(h) = 2 /\ h[1] = <<"status">> /\ h[2] = <<"blank">>
    BY <2>2
  <2> HIDE DEF h, w
  <2>4. w \in Seq(Seq(AnyCell)) /\ Len(w) = 2 /\ w[1] = Cells(<<"status">>) /\ w[2] = Cells(<<"blank">>)
    <3>1. w \in Seq(Seq(AnyCell)) /\ Len(w) = Len(h) /\ \A i \in 1..Len(h) : w[i] = Cells(h[i])
      BY <2>1, <2>3, LinesOf
    <3>2. Len(w) = 2 /\ w[1] = Cells(h[1]) /\ w[2] = Cells(h[2])
      <4>1. Len(h) = 2
        BY <2>3
      <4>2. 1 \in 1..Len(h) /\ 2 \in 1..Len(h)
        BY <4>1
      <4>. QED BY <3>1, <4>1, <4>2, Zenon
    <3>. QED BY <2>3, <3>1, <3>2
  <2>5. Len(w[1]) = 1 /\ w[1][1] = Cell("status") /\ Len(w[2]) = 1 /\ w[2][1] = Cell("blank")
    BY <2>2, <2>4, LineOf
  <2>6. Len(Meant("error")) = 2 /\ Meant("error")[1] = Cell("status") /\ Meant("error")[2] = Cell("blank")
    BY MeantOf, HeaderOf
  <2>7. st \in [1..Len(w) + 1 -> Nat] /\ st[1] = 0 /\ st[2] = 1 /\ st[3] = 2 /\ Len(w) + 1 = 3
    BY <2>4
  <2> HIDE DEF st, Cells, Cell, AnyCell
  <2>8. ASSUME NEW i \in 1..Len(w)
        PROVE  /\ st[i + 1] = st[i] + Len(w[i]) /\ st[i + 1] <= Len(Meant("error"))
               /\ \A j \in 1..Len(w[i]) : w[i][j] = Meant("error")[st[i] + j]
               /\ st[i + 1] <= 4
    <3>1. i = 1 \/ i = 2
      BY <2>4
    <3>2. CASE i = 1
      <4>1. st[i] = 0 /\ st[i + 1] = 1 /\ 0 + 1 = 1
        BY <2>7, <3>2
      <4>2. Len(w[i]) = 1 /\ w[i][1] = Meant("error")[1]
        BY <2>5, <2>6, <3>2
      <4>3. \A j \in 1..1 : j = 1
        OBVIOUS
      <4>. QED BY <2>6, <4>1, <4>2, <4>3
    <3>3. CASE i = 2
      <4>1. st[i] = 1 /\ st[i + 1] = 2
        BY <2>7, <3>3
      <4>2. Len(w[i]) = 1 /\ w[i][1] = Meant("error")[2]
        BY <2>5, <2>6, <3>3
      <4>3. \A j \in 1..1 : j = 1
        OBVIOUS
      <4>. QED BY <2>6, <4>1, <4>2, <4>3
    <3>. QED BY <3>1, <3>2, <3>3
  <2>9. Places("error", w, 0, 2)
    BY <2>7, <2>8 DEF Places
  <2>10. w # <<>>
    <3>1. Len(<<>>) = 0 /\ Len(w) = 2
      BY <2>4
    <3>2. Len(w) # Len(<<>>)
      BY ONLY <3>1
    <3>. QED BY <3>2, Zenon
  <2>. QED BY <1>1, <2>4, <2>6, <2>9, <2>10 DEF w
<1>2. CASE k = "json"
  <2> DEFINE h == <<<<"status">>, <<"type">>, <<"length">>, <<"close">>>>
             f == [i \in DOMAIN h |-> Cells(h[i])]
             b == Blocks(0, FileLen)
             w == FirstWrites("json")
             st == [i \in 1..6 |-> IF i = 6 THEN 4 + FileLen ELSE i - 1]
  <2>1. w = f \o <<b>>
    BY DEF FirstWrites, Heads
  <2>2. "status" \in Names /\ "type" \in Names /\ "length" \in Names /\ "close" \in Names
    BY DEF Names
  <2>3. h \in Seq(Seq(Names)) /\ Len(h) = 4 /\ h[1] = <<"status">> /\ h[2] = <<"type">> /\ h[3] = <<"length">> /\ h[4] = <<"close">>
    BY <2>2
  <2> HIDE DEF h
  <2>4. f \in Seq(Seq(AnyCell)) /\ Len(f) = 4 /\ f[1] = Cells(<<"status">>) /\ f[2] = Cells(<<"type">>)
        /\ f[3] = Cells(<<"length">>) /\ f[4] = Cells(<<"close">>)
    <3>1. f \in Seq(Seq(AnyCell)) /\ Len(f) = Len(h) /\ \A i \in 1..Len(h) : f[i] = Cells(h[i])
      BY <2>3, LinesOf
    <3> HIDE DEF f
    <3>2. Len(f) = 4 /\ f[1] = Cells(h[1]) /\ f[2] = Cells(h[2]) /\ f[3] = Cells(h[3]) /\ f[4] = Cells(h[4])
      <4>1. Len(h) = 4
        BY <2>3
      <4>2. 1 \in 1..Len(h) /\ 2 \in 1..Len(h) /\ 3 \in 1..Len(h) /\ 4 \in 1..Len(h)
        BY <4>1
      <4>. QED BY <3>1, <4>1, <4>2, Zenon
    <3>. QED BY <2>3, <3>1, <3>2
  <2>5. /\ Len(f[1]) = 1 /\ f[1][1] = Cell("status") /\ Len(f[2]) = 1 /\ f[2][1] = Cell("type")
        /\ Len(f[3]) = 1 /\ f[3][1] = Cell("length") /\ Len(f[4]) = 1 /\ f[4][1] = Cell("close")
    <3> HIDE DEF f
    <3>1. \A a \in Names : Len(Cells(<<a>>)) = 1 /\ Cells(<<a>>)[1] = Cell(a)
      BY LineOf
    <3> HIDE DEF Cells, Cell
    <3>. QED BY <2>2, <2>4, <3>1
  <2>6. b \in Seq(AnyCell) /\ Len(b) = FileLen /\ \A i \in 1..FileLen : b[i] = Block(i)
    <3>1. /\ b \in Seq(AnyCell) /\ Len(b) = FileLen - 0
          /\ \A i \in 1..FileLen - 0 : b[i] = Block(0 + i)
      <4>1. 0 \in Nat /\ 0 <= FileLen
        BY <1>0
      <4>. QED BY ONLY <1>0, <4>1, BlocksOf
    <3>2. FileLen - 0 = FileLen /\ \A i \in 1..FileLen : 0 + i = i
      BY <1>0
    <3> HIDE DEF b, Block, AnyCell
    <3>. QED BY <3>1, <3>2
  <2> HIDE DEF f, b, w
  <2>7. w \in Seq(Seq(AnyCell)) /\ Len(w) = 5 /\ (\A i \in 1..4 : w[i] = f[i]) /\ w[5] = b
    <3> DEFINE g == <<b>>
    <3>1. g \in Seq(Seq(AnyCell)) /\ Len(g) = 1 /\ g[1] = b
      BY <2>6
    <3>2. w = f \o g
      BY <2>1
    <3> HIDE DEF g
    <3>3. /\ f \o g \in Seq(Seq(AnyCell)) /\ Len(f \o g) = Len(f) + Len(g)
          /\ \A i \in 1..Len(f) : (f \o g)[i] = f[i]
          /\ \A i \in 1..Len(g) : (f \o g)[Len(f) + i] = g[i]
      <4> HIDE DEF AnyCell
      <4>1. f \in Seq(Seq(AnyCell)) /\ g \in Seq(Seq(AnyCell))
        BY <2>4, <3>1
      <4>. QED BY ONLY <4>1, Joined
    <3>4. 1 \in 1..Len(g) /\ 4 + 1 = 5
      BY <3>1
    <3>. QED BY <2>4, <3>1, <3>2, <3>3, <3>4
  <2>8. /\ Len(Meant("json")) = 4 + FileLen /\ Meant("json")[1] = Cell("status") /\ Meant("json")[2] = Cell("type")
        /\ Meant("json")[3] = Cell("length") /\ Meant("json")[4] = Cell("close")
        /\ \A i \in 1..FileLen : Meant("json")[4 + i] = Block(i)
    BY MeantOf, HeaderOf
  <2>9. st \in [1..Len(w) + 1 -> Nat] /\ (\A i \in 1..5 : st[i] = i - 1) /\ st[6] = 4 + FileLen /\ Len(w) + 1 = 6
    BY <1>0, <2>7
  <2> HIDE DEF st, Cells, Cell, AnyCell, Block
  <2>10. ASSUME NEW i \in 1..Len(w)
         PROVE  /\ st[i + 1] = st[i] + Len(w[i]) /\ st[i + 1] <= Len(Meant("json"))
                /\ \A j \in 1..Len(w[i]) : w[i][j] = Meant("json")[st[i] + j]
                /\ st[i + 1] <= 4 \/ i = Len(w)
    <3>1. i \in 1..4 \/ i = 5
      BY <2>7
    <3>2. CASE i \in 1..4
      <4>1. st[i] = i - 1 /\ st[i + 1] = i /\ w[i] = f[i]
        BY <2>7, <2>9, <3>2
      <4>2. Len(f[i]) = 1 /\ f[i][1] = Meant("json")[i]
        BY <2>5, <2>8, <3>2
      <4>. QED BY <1>0, <2>8, <3>2, <4>1, <4>2
    <3>3. CASE i = 5
      BY <1>0, <2>6, <2>7, <2>8, <2>9, <3>3
    <3>. QED BY <3>1, <3>2, <3>3
  <2>11. Places("json", w, 0, 4 + FileLen)
    <3>1. st[1] = 0 /\ st[Len(w) + 1] = 4 + FileLen
      BY <2>9
    <3>2. \A i \in 1..Len(w) :
            /\ st[i + 1] = st[i] + Len(w[i]) /\ st[i + 1] <= Len(Meant("json"))
            /\ \A j \in 1..Len(w[i]) : w[i][j] = Meant("json")[st[i] + j]
            /\ "json" # "video" => st[i + 1] <= 4 \/ ("json" = "json" /\ i = Len(w))
      BY <2>10, Zenon
    <3>. QED BY <2>9, <3>1, <3>2, Zenon DEF Places
  <2>12. w # <<>>
    <3>1. Len(<<>>) = 0 /\ Len(w) = 5
      BY <2>7
    <3>2. Len(w) # Len(<<>>)
      BY ONLY <3>1
    <3>. QED BY <3>2, Zenon
  <2>. QED BY <1>2, <2>7, <2>8, <2>11, <2>12 DEF w
<1>3. CASE k \in {"file", "video"}
  <2> DEFINE x == IF k = "file" THEN "length" ELSE "chunked"
             h == <<<<"status">>, <<"type", x, "close">>>>
             w == FirstWrites(k)
             st == [i \in 1..3 |-> IF i = 3 THEN 4 ELSE i - 1]
  <2>1. w = [i \in DOMAIN h |-> Cells(h[i])]
    BY <1>3 DEF FirstWrites, Heads
  <2>2. "status" \in Names /\ "type" \in Names /\ x \in Names /\ "close" \in Names
    BY DEF Names
  <2>6. /\ 4 <= Len(Meant(k)) /\ Meant(k)[1] = Cell("status") /\ Meant(k)[2] = Cell("type")
        /\ Meant(k)[3] = Cell(x) /\ Meant(k)[4] = Cell("close")
    <3>1. CASE k = "file"
      BY <1>0, <3>1, MeantOf, HeaderOf
    <3>2. CASE k = "video"
      <4>1. Len(Video) \in Nat
        BY VideoOf
      <4>. QED BY <3>2, <4>1, MeantOf, HeaderOf
    <3>. QED BY <1>3, <3>1, <3>2
  <2> HIDE DEF x
  <2>3. h \in Seq(Seq(Names)) /\ Len(h) = 2 /\ h[1] = <<"status">> /\ h[2] = <<"type", x, "close">>
    BY <2>2
  <2> HIDE DEF h, w
  <2>4. w \in Seq(Seq(AnyCell)) /\ Len(w) = 2 /\ w[1] = Cells(<<"status">>) /\ w[2] = Cells(<<"type", x, "close">>)
    <3>1. w \in Seq(Seq(AnyCell)) /\ Len(w) = Len(h) /\ \A i \in 1..Len(h) : w[i] = Cells(h[i])
      BY <2>1, <2>3, LinesOf
    <3>2. Len(w) = 2 /\ w[1] = Cells(h[1]) /\ w[2] = Cells(h[2])
      <4>1. Len(h) = 2
        BY <2>3
      <4>2. 1 \in 1..Len(h) /\ 2 \in 1..Len(h)
        BY <4>1
      <4>. QED BY <3>1, <4>1, <4>2, Zenon
    <3>. QED BY <2>3, <3>1, <3>2
  <2>5. /\ Len(w[1]) = 1 /\ w[1][1] = Cell("status")
        /\ Len(w[2]) = 3 /\ w[2][1] = Cell("type") /\ w[2][2] = Cell(x) /\ w[2][3] = Cell("close")
    <3>1. Len(Cells(<<"status">>)) = 1 /\ Cells(<<"status">>)[1] = Cell("status")
      BY <2>2, LineOf
    <3> DEFINE r == <<"type", x, "close">>
               t == Cells(r)
    <3>2. Len(t) = 3 /\ t[1] = Cell("type") /\ t[2] = Cell(x) /\ t[3] = Cell("close")
      <4>1. r \in Seq(Names) /\ Len(r) = 3 /\ r[1] = "type" /\ r[2] = x /\ r[3] = "close"
        <5>1. \A a, b, c \in Names :
                <<a, b, c>> \in Seq(Names) /\ Len(<<a, b, c>>) = 3 /\ <<a, b, c>>[1] = a /\ <<a, b, c>>[2] = b /\ <<a, b, c>>[3] = c
          OBVIOUS
        <5>. QED BY <2>2, <5>1
      <4> HIDE DEF r
      <4>2. Len(t) = 3 /\ \A i \in 1..3 : t[i] = Cell(r[i])
        BY <4>1, CellsOf
      <4> HIDE DEF t, Cell
      <4>. QED BY <4>1, <4>2
    <3>3. w[2] = t
      BY <2>4
    <3> HIDE DEF t, Cells, Cell
    <3>. QED BY <2>4, <3>1, <3>2, <3>3
  <2>7. st \in [1..Len(w) + 1 -> Nat] /\ st[1] = 0 /\ st[2] = 1 /\ st[3] = 4 /\ Len(w) + 1 = 3
    BY <2>4
  <2> HIDE DEF st, Cells, Cell, AnyCell
  <2>8. ASSUME NEW i \in 1..Len(w)
        PROVE  /\ st[i + 1] = st[i] + Len(w[i]) /\ st[i + 1] <= Len(Meant(k))
               /\ \A j \in 1..Len(w[i]) : w[i][j] = Meant(k)[st[i] + j]
               /\ st[i + 1] <= 4
    <3>0. Len(Meant(k)) \in Nat
      BY MeantOf
    <3>1. i = 1 \/ i = 2
      BY <2>4
    <3>2. CASE i = 1
      <4>1. st[i] = 0 /\ st[i + 1] = 1 /\ 0 + 1 = 1
        BY <2>7, <3>2
      <4>2. Len(w[i]) = 1 /\ w[i][1] = Meant(k)[1]
        BY <2>5, <2>6, <3>2
      <4>3. \A j \in 1..1 : j = 1
        OBVIOUS
      <4>. QED BY <2>6, <4>1, <4>2, <4>3, <3>0
    <3>3. CASE i = 2
      <4>1. st[i] = 1 /\ st[i + 1] = 4
        BY <2>7, <3>3
      <4>2. Len(w[i]) = 3 /\ w[i][1] = Meant(k)[2] /\ w[i][2] = Meant(k)[3] /\ w[i][3] = Meant(k)[4]
        BY <2>5, <2>6, <3>3
      <4>3. \A j \in 1..3 : j = 1 \/ j = 2 \/ j = 3
        OBVIOUS
      <4>4. \A j \in 1..3 : w[i][j] = Meant(k)[1 + j]
        BY <4>2, <4>3
      <4>. QED BY <2>6, <3>0, <4>1, <4>2, <4>4
    <3>. QED BY <3>1, <3>2, <3>3
  <2>9. Places(k, w, 0, 4)
    BY <2>7, <2>8 DEF Places
  <2>10. w # <<>>
    <3>1. Len(<<>>) = 0 /\ Len(w) = 2
      BY <2>4
    <3>2. Len(w) # Len(<<>>)
      BY ONLY <3>1
    <3>. QED BY <3>2, Zenon
  <2>. QED BY <1>3, <2>4, <2>9, <2>10 DEF w
<1>. QED BY <1>1, <1>2, <1>3 DEF Kinds

\* The writes of a chunk of a video are its cells, and end where the next one
\* begins.
LEMMA ChunkOf ==
  ASSUME NEW c \in Nat, c * Piece < FileLen
  PROVE  LET i == c * Piece
             j == PieceEnd(c * Piece)
         IN  /\ Chunk(i, j) \in Seq(Seq(AnyCell)) /\ Chunk(i, j) # <<>> /\ j \in 1..FileLen
             /\ Places("video", Chunk(i, j), 4 + i + 2 * c, 4 + j + 2 * (c + 1))
<1>0. FileLen \in Nat /\ Piece \in Nat \ {0}
  BY HeadsFit
<1> DEFINE i == c * Piece
           j == PieceEnd(i)
           n == j - i
           m == 4 + i + 2 * c
           sz == <<Cell("size")>>
           b == Blocks(i, j)
           cr == <<Cell("crlf")>>
           w == Chunk(i, j)
           st == [k \in 1..4 |-> IF k = 1 THEN m ELSE IF k = 2 THEN m + 1 ELSE IF k = 3 THEN m + n + 1 ELSE m + n + 2]
<1>1. i \in Nat /\ i < FileLen
  BY <1>0
<1>2. j \in 1..FileLen /\ i <= j /\ n \in Nat
  <2>1. j = IF i + Piece <= FileLen THEN i + Piece ELSE FileLen
    <3> HIDE DEF i
    <3>1. i \in Nat /\ i <= FileLen
      BY <1>0, <1>1
    <3>2. PieceEnd(i) = IF i + Piece <= FileLen THEN i + Piece ELSE FileLen
      BY ONLY <3>1, PiecesOf, Zenon
    <3>. QED BY <3>2
  <2> HIDE DEF i, j
  <2>2. j \in 1..FileLen /\ i <= j
    BY <1>0, <1>1, <2>1
  <2>. QED BY <1>1, <2>2
<1>3. Cell("size") \in AnyCell /\ Cell("crlf") \in AnyCell
  BY CellTypes DEF Names
<1>4. b \in Seq(AnyCell) /\ Len(b) = n /\ \A k \in 1..n : b[k] = Block(i + k)
  <2> HIDE DEF i, j
  <2>. QED BY <1>1, <1>2, BlocksOf
<1>5. w = <<sz, b, cr>>
  BY DEF Chunk
<1>6. sz \in Seq(AnyCell) /\ Len(sz) = 1 /\ sz[1] = Cell("size")
  <2> HIDE DEF Cell, AnyCell
  <2>. QED BY <1>3
<1>7. cr \in Seq(AnyCell) /\ Len(cr) = 1 /\ cr[1] = Cell("crlf")
  <2> HIDE DEF Cell, AnyCell
  <2>. QED BY <1>3
<1>8. /\ (m - 4) + n + 2 <= Len(Video) /\ Video[(m - 4) + 1] = Cell("size")
      /\ \A k \in 1..n : Video[(m - 4) + 1 + k] = Block(i + k)
      /\ Video[(m - 4) + n + 2] = Cell("crlf")
  <2>1. LET d == c * Piece + 2 * c
            l == PieceEnd(c * Piece) - c * Piece
        IN  /\ d + l + 2 <= Len(Video) /\ Video[d + 1] = Cell("size")
            /\ \A k \in 1..l : Video[d + 1 + k] = Block(c * Piece + k)
            /\ Video[d + l + 2] = Cell("crlf")
    BY VideoOf
  <2>2. m - 4 = c * Piece + 2 * c
    BY <1>1
  <2> HIDE DEF Cell, Block
  <2>. QED BY <2>1, <2>2
<1>9. m \in Nat /\ m >= 4 /\ m + n \in Nat /\ m = 4 + i + 2 * c
  BY <1>1, <1>2
<1>10. m + n + 2 = 4 + j + 2 * (c + 1)
  <2> HIDE DEF i, j
  <2>. QED BY <1>1, <1>2
<1> HIDE DEF n, i, j, b, sz, cr, w
<1>11. w \in Seq(Seq(AnyCell)) /\ Len(w) = 3 /\ w[1] = sz /\ w[2] = b /\ w[3] = cr
  <2> HIDE DEF m, AnyCell
  <2>. QED BY <1>4, <1>5, <1>6, <1>7
<1> HIDE DEF m
<1>12. /\ m + n + 2 <= Len(Meant("video")) /\ Meant("video")[m + 1] = Cell("size")
       /\ \A k \in 1..n : Meant("video")[m + 1 + k] = b[k]
       /\ Meant("video")[m + n + 2] = Cell("crlf") /\ Len(Meant("video")) \in Nat
  <2> DEFINE l == Len(Video)
             d == m - 4
  <2>1. l \in Nat
    BY VideoOf
  <2>2. Len(Meant("video")) = 5 + l /\ \A k \in 1..l : Meant("video")[4 + k] = Video[k]
    BY MeantOf
  <2>3. d + n + 2 <= l /\ d \in Nat /\ n \in Nat /\ m = d + 4
    <3>1. (m - 4) + n + 2 <= l
      BY <1>8, Zenon
    <3>2. m \in Nat /\ m >= 4 /\ n \in Nat
      BY <1>2, <1>9
    <3> HIDE DEF l
    <3>. QED BY ONLY <2>1, <3>1, <3>2
  <2>4. Video[d + 1] = Cell("size") /\ Video[d + n + 2] = Cell("crlf") /\ \A k \in 1..n : Video[d + 1 + k] = b[k]
    BY <1>4, <1>8, Zenon
  <2> HIDE DEF l, d, Cell, Block
  <2>5. 4 + (d + 1) = m + 1 /\ 4 + (d + n + 2) = m + n + 2 /\ d + 1 \in 1..l /\ d + n + 2 \in 1..l
    BY ONLY <2>1, <2>3
  <2>6. \A k \in 1..n : 4 + (d + 1 + k) = m + 1 + k /\ d + 1 + k \in 1..l
    BY ONLY <2>1, <2>3
  <2>7. m + n + 2 <= 5 + l /\ 5 + l \in Nat
    BY ONLY <2>1, <2>3
  <2>8. Meant("video")[4 + (d + 1)] = Cell("size") /\ Meant("video")[4 + (d + n + 2)] = Cell("crlf")
    BY <2>2, <2>4, <2>5, Zenon
  <2>9. \A k \in 1..n : Meant("video")[4 + (d + 1 + k)] = b[k]
    BY <2>2, <2>4, <2>6, Zenon
  <2>. QED BY <2>2, <2>5, <2>6, <2>7, <2>8, <2>9
<1>13. /\ st \in [1..Len(w) + 1 -> Nat] /\ st[1] = m /\ st[2] = m + 1 /\ st[3] = m + n + 1 /\ st[4] = m + n + 2
       /\ Len(w) + 1 = 4
  <2>1. m \in Nat /\ n \in Nat /\ Len(w) + 1 = 4
    BY <1>2, <1>9, <1>11
  <2>2. m + 1 \in Nat /\ m + n + 1 \in Nat /\ m + n + 2 \in Nat
    BY ONLY <2>1
  <2>3. st \in [1..4 -> Nat] /\ st[1] = m /\ st[2] = m + 1 /\ st[3] = m + n + 1 /\ st[4] = m + n + 2
    BY ONLY <2>1, <2>2
  <2> HIDE DEF st
  <2>. QED BY <2>1, <2>3
<1> HIDE DEF st, Cell, AnyCell, Block
<1>14. ASSUME NEW k \in 1..Len(w)
       PROVE  /\ st[k + 1] = st[k] + Len(w[k]) /\ st[k + 1] <= Len(Meant("video"))
              /\ \A l \in 1..Len(w[k]) : w[k][l] = Meant("video")[st[k] + l]
  <2>1. k = 1 \/ k = 2 \/ k = 3
    BY <1>11
  <2>2. m \in Nat /\ n \in Nat /\ m + n + 2 <= Len(Meant("video")) /\ Len(Meant("video")) \in Nat
    BY <1>2, <1>9, <1>12
  <2>3. m + 1 <= Len(Meant("video")) /\ m + n + 1 <= Len(Meant("video"))
    BY ONLY <2>2
  <2>4. (\A l \in 1..1 : l = 1) /\ (m + n + 1) + 1 = m + n + 2 /\ (m + 1) + n = m + n + 1
    BY ONLY <2>2
  <2>5. CASE k = 1
    <3>1. st[k] = m /\ st[k + 1] = m + 1
      BY <1>13, <2>5
    <3>2. Len(w[k]) = 1 /\ w[k][1] = Meant("video")[m + 1]
      BY <1>6, <1>11, <1>12, <2>5
    <3>3. \A l \in 1..1 : w[k][l] = Meant("video")[m + l]
      BY <2>4, <3>2
    <3>. QED BY <2>3, <3>1, <3>2, <3>3
  <2>6. CASE k = 2
    <3>1. st[k] = m + 1 /\ st[k + 1] = m + n + 1
      BY <1>13, <2>6
    <3>2. Len(w[k]) = n /\ w[k] = b
      BY <1>4, <1>11, <2>6
    <3>. QED BY <1>12, <2>3, <2>4, <3>1, <3>2
  <2>7. CASE k = 3
    <3>1. st[k] = m + n + 1 /\ st[k + 1] = m + n + 2
      BY <1>13, <2>7
    <3>2. Len(w[k]) = 1 /\ w[k][1] = Meant("video")[(m + n + 1) + 1]
      BY <1>7, <1>11, <1>12, <2>4, <2>7
    <3>3. \A l \in 1..1 : w[k][l] = Meant("video")[(m + n + 1) + l]
      BY <2>4, <3>2
    <3>. QED BY <2>2, <2>4, <3>1, <3>2, <3>3
  <2>. QED BY <2>1, <2>5, <2>6, <2>7
<1>15. Places("video", w, m, m + n + 2)
  BY <1>13, <1>14 DEF Places
<1>16. w # <<>>
  <2>1. Len(<<>>) = 0 /\ Len(w) = 3
    BY <1>11
  <2>2. Len(w) # Len(<<>>)
    BY ONLY <2>1
  <2>. QED BY <2>2, Zenon
<1>. QED BY <1>2, <1>9, <1>10, <1>11, <1>15, <1>16 DEF w, i, j

-----------------------------------------------------------------------------
(* The bytes sent *)

\* What has been sent is a sequence of cells.
LEMMA SentOf ==
  ASSUME Types
  PROVE  Sent \in Seq(AnyCell) /\ Len(Sent) = Len(got) + Len(flight) /\ Len(Sent) \in Nat /\ Len(flight) \in 0..SendRoom
<1>1. got \in Seq(AnyCell) /\ flight \in Seq(AnyCell) /\ Len(flight) <= SendRoom /\ SendRoom \in Nat
  BY HeadsFit DEF Types
<1> HIDE DEF AnyCell
<1>2. Sent \in Seq(AnyCell) /\ Len(Sent) = Len(got) + Len(flight) /\ Len(got) \in Nat /\ Len(flight) \in Nat
  BY <1>1, Joined DEF Sent
<1>. QED BY <1>1, <1>2

\* The socket takes some more of the answer.
LEMMA Grows ==
  ASSUME Types, NEW s \in Seq(AnyCell), flight' = flight \o s, got' = got
  PROVE  /\ flight' \in Seq(AnyCell) /\ Len(flight') = Len(flight) + Len(s) /\ got' \in Seq(AnyCell)
         /\ Len(Sent') = Len(Sent) + Len(s) /\ Len(s) \in Nat
         /\ \A j \in 1..Len(Sent) : (Sent')[j] = Sent[j]
         /\ \A j \in 1..Len(s) : (Sent')[Len(Sent) + j] = s[j]
<1>1. got \in Seq(AnyCell) /\ flight \in Seq(AnyCell)
  BY DEF Types
<1>2. Sent \in Seq(AnyCell)
  BY SentOf
<1> HIDE DEF AnyCell
<1>3. Sent' = got \o (flight \o s)
  BY DEF Sent
<1>4. Sent' = Sent \o s
  BY <1>1, <1>3, ConcatAssociative DEF Sent
<1>5. flight \o s \in Seq(AnyCell) /\ Len(flight \o s) = Len(flight) + Len(s) /\ Len(s) \in Nat
  BY <1>1, Joined
<1>6. /\ Len(Sent \o s) = Len(Sent) + Len(s)
      /\ \A j \in 1..Len(Sent) : (Sent \o s)[j] = Sent[j]
      /\ \A j \in 1..Len(s) : (Sent \o s)[Len(Sent) + j] = s[j]
  <2> HIDE DEF Sent
  <2>. QED BY <1>2, Joined
<1>. QED BY <1>1, <1>4, <1>5, <1>6

\* The cells that are due next keep it right.
LEMMA StaysRight ==
  ASSUME Types, Right, kind \in Kinds, NEW s \in Seq(AnyCell), flight' = flight \o s, got' = got, kind' = kind,
         Len(Sent) + Len(s) <= Len(Meant(kind)),
         \A j \in 1..Len(s) : s[j] = Meant(kind)[Len(Sent) + j]
  PROVE  Right'
<1>1. /\ Len(Sent') = Len(Sent) + Len(s) /\ Len(s) \in Nat
      /\ \A j \in 1..Len(Sent) : (Sent')[j] = Sent[j]
      /\ \A j \in 1..Len(s) : (Sent')[Len(Sent) + j] = s[j]
  BY Grows
<1>2. Len(Sent) \in Nat
  BY SentOf
<1>3. \A j \in 1..Len(Sent) : Sent[j] = Meant(kind)[j]
  BY DEF Right
<1> HIDE DEF Sent
<1>4. ASSUME NEW j \in 1..Len(Sent') PROVE (Sent')[j] = Meant(kind)[j]
  <2>1. CASE j \in 1..Len(Sent)
    BY <1>1, <1>3, <2>1
  <2>2. CASE j \notin 1..Len(Sent)
    <3>1. j - Len(Sent) \in 1..Len(s) /\ Len(Sent) + (j - Len(Sent)) = j
      BY <1>1, <1>2, <2>2
    <3>2. (Sent')[Len(Sent) + (j - Len(Sent))] = Meant(kind)[Len(Sent) + (j - Len(Sent))]
      BY <1>1, <3>1
    <3>. QED BY <3>1, <3>2
  <2>. QED BY <2>1, <2>2
<1>5. Right' = (Len(Sent') <= Len(Meant(kind)) /\ \A j \in 1..Len(Sent') : (Sent')[j] = Meant(kind)[j])
  BY DEF Right
<1>. QED BY <1>1, <1>4, <1>5

\* What does not touch the socket keeps it right.
LEMMA Quiet ==
  ASSUME Right, UNCHANGED <<kind, flight, got>>
  PROVE  Right'
BY DEF Right, Sent

\* The start of a run of cells.
LEMMA StartOf ==
  ASSUME NEW S, NEW h \in Seq(S), NEW n \in 0..Len(h)
  PROVE  /\ SubSeq(h, 1, n) \in Seq(S) /\ Len(SubSeq(h, 1, n)) = n
         /\ \A j \in 1..n : SubSeq(h, 1, n)[j] = h[j]
<1>1. Len(h) \in Nat /\ n \in Int /\ 1 \in Int /\ \A j \in 1..n : h[j] \in S
  OBVIOUS
<1>2. /\ SubSeq(h, 1, n) \in Seq(S)
      /\ Len(SubSeq(h, 1, n)) = IF 1 <= n THEN n - 1 + 1 ELSE 0
      /\ \A j \in 1..n - 1 + 1 : SubSeq(h, 1, n)[j] = h[1 + j - 1]
  BY ONLY <1>1, SubSeqProperties
<1>3. (IF 1 <= n THEN n - 1 + 1 ELSE 0) = n /\ n - 1 + 1 = n /\ \A j \in 1..n : 1 + j - 1 = j
  OBVIOUS
<1>. QED BY <1>2, <1>3

\* The blocks of a video that have been read make whole chunks.
LEMMA ReadChunks ==
  ASSUME Types, NEW c \in Nat, Read(c)
  PROVE  Chunks(off) = c /\ off + 2 * c \in Nat /\ off + 2 * c <= Len(Video)
<1>1. FileLen \in Nat /\ Piece \in Nat \ {0} /\ off \in Nat /\ off <= FileLen
  BY HeadsFit DEF Types
<1>2. c * Piece \in Nat /\ off = (IF c * Piece <= FileLen THEN c * Piece ELSE FileLen)
      /\ (c > 0 => (c - 1) * Piece < FileLen)
  BY <1>1, Multiples DEF Read
<1>3. c > 0 => c - 1 \in Nat /\ (c - 1) * Piece \in Nat /\ c * Piece = (c - 1) * Piece + Piece
  <2> SUFFICES ASSUME c > 0 PROVE c - 1 \in Nat /\ (c - 1) * Piece \in Nat /\ c * Piece = (c - 1) * Piece + Piece
    OBVIOUS
  <2>1. c - 1 \in Nat /\ (c - 1) + 1 = c
    OBVIOUS
  <2>2. (c - 1) * Piece \in Nat /\ ((c - 1) + 1) * Piece = (c - 1) * Piece + Piece
    BY <1>1, <2>1, Multiples
  <2>. QED BY <2>1, <2>2
<1>4. c * Piece >= off /\ (c > 0 => (c - 1) * Piece < off)
  BY <1>1, <1>2, <1>3
<1>5. Chunks(off) = c
  BY <1>1, <1>4, ChunksOf
<1>6. c <= Pieces /\ Pieces \in Nat
  <2>1. CASE c = 0
    BY <2>1, PiecesOf
  <2>2. CASE c > 0
    <3>1. c - 1 < Pieces /\ Pieces \in Nat
      BY <1>2, <1>3, <2>2, PiecesOf
    <3>. QED BY <3>1
  <2>. QED BY <2>1, <2>2
<1>7. Len(Video) = FileLen + 2 * Pieces
  BY VideoOf
<1>. QED BY <1>1, <1>5, <1>6, <1>7

\* An answer that is right and all there is what HTTP makes of it.
LEMMA AllGiven ==
  ASSUME Types, Right, kind \in {"error", "json"}, Len(Sent) = Len(Meant(kind))
  PROVE  Sent = Given(kind, off)
<1>1. Given(kind, off) = Meant(kind)
  BY DEF Given
<1>2. Sent \in Seq(AnyCell) /\ Meant(kind) \in Seq(AnyCell)
  BY SentOf, MeantOf DEF Kinds
<1>3. \A j \in 1..Len(Sent) : Sent[j] = Meant(kind)[j]
  BY DEF Right
<1> HIDE DEF Sent, AnyCell
<1>. QED BY <1>1, <1>2, <1>3, SeqEqual

\* The header and the blocks sent are the answer cut behind them.
LEMMA FileGiven ==
  ASSUME Types, Right, kind = "file", Len(Sent) = 4 + off
  PROVE  Sent = Given(kind, off)
<1>1. off \in Nat /\ FileLen \in Nat /\ off <= FileLen
  BY HeadsFit DEF Types
<1> DEFINE h == Header("file")
           b == Blocks(0, off)
<1>2. h \in Seq(AnyCell) /\ Len(h) = 4
  BY HeaderOf
<1>3. b \in Seq(AnyCell) /\ Len(b) = off /\ \A i \in 1..off : b[i] = Block(i)
  <2>1. off - 0 = off /\ 0 \in Nat /\ 0 <= off /\ \A i \in 1..off : 0 + i = i
    BY <1>1
  <2>2. b \in Seq(AnyCell) /\ Len(b) = off - 0 /\ \A i \in 1..off - 0 : b[i] = Block(0 + i)
    BY ONLY <1>1, <2>1, BlocksOf
  <2> HIDE DEF b, Block, AnyCell
  <2>. QED BY <2>1, <2>2
<1>4. Given(kind, off) = h \o b
  BY DEF Given
<1>5. Sent \in Seq(AnyCell) /\ \A j \in 1..Len(Sent) : Sent[j] = Meant("file")[j]
  BY SentOf DEF Right
<1>6. /\ \A i \in 1..4 : Meant("file")[i] = h[i]
      /\ \A i \in 1..FileLen : Meant("file")[4 + i] = Block(i)
  BY MeantOf
<1> HIDE DEF h, b, Sent, AnyCell, Block
<1>7. /\ h \o b \in Seq(AnyCell) /\ Len(h \o b) = 4 + off
      /\ \A i \in 1..4 : (h \o b)[i] = h[i]
      /\ \A i \in 1..off : (h \o b)[4 + i] = b[i]
  <2>1. /\ h \o b \in Seq(AnyCell) /\ Len(h \o b) = Len(h) + Len(b)
        /\ \A i \in 1..Len(h) : (h \o b)[i] = h[i]
        /\ \A i \in 1..Len(b) : (h \o b)[Len(h) + i] = b[i]
    <3>1. h \in Seq(AnyCell) /\ b \in Seq(AnyCell)
      BY <1>2, <1>3
    <3>. QED BY ONLY <3>1, Joined
  <2>. QED BY <1>2, <1>3, <2>1
<1>8. \A j \in 1..4 + off : (h \o b)[j] = Sent[j]
  <2> TAKE j \in 1..4 + off
  <2>1. CASE j <= 4
    <3>1. j \in 1..4 /\ j \in 1..Len(Sent)
      BY <1>1, <2>1
    <3>. QED BY <1>5, <1>6, <1>7, <3>1
  <2>2. CASE j > 4
    <3>1. PICK i \in 1..off : j = 4 + i
      <4>1. j - 4 \in 1..off /\ j = 4 + (j - 4)
        BY <1>1, <2>2
      <4>. QED BY <4>1
    <3>2. i \in 1..FileLen /\ 4 + i \in 1..Len(Sent)
      BY <1>1, <3>1
    <3>. QED BY <1>3, <1>5, <1>6, <1>7, <3>1, <3>2
  <2>3. j <= 4 \/ j > 4
    BY <1>1
  <2>. QED BY <2>1, <2>2, <2>3, Zenon
<1>. QED BY <1>4, <1>5, <1>7, <1>8, SeqEqual

\* The header, the chunks sent and the last one are a whole stream.
LEMMA VideoGiven ==
  ASSUME Types, Right, kind = "video", Target(Len(Sent)), NEW t \in Seq(AnyCell), Len(t) = Len(Sent) + 1,
         \A j \in 1..Len(Sent) : t[j] = Sent[j], t[Len(Sent) + 1] = Cell("last")
  PROVE  t = Given(kind, off)
<1>1. PICK c \in Nat : Read(c) /\ Len(Sent) = 4 + off + 2 * c
  BY DEF Target
<1> DEFINE m == off + 2 * Chunks(off)
           h == Header("video")
           v == SubSeq(Video, 1, m)
           l == Cell("last")
           w == Append(v, l)
<1>2. m \in Nat /\ m <= Len(Video) /\ Len(Sent) = 4 + m
  <2>1. Chunks(off) = c /\ off + 2 * c \in Nat /\ off + 2 * c <= Len(Video)
    BY <1>1, ReadChunks
  <2>2. off \in Nat
    BY HeadsFit DEF Types
  <2> HIDE DEF Sent
  <2>. QED BY <1>1, <2>1, <2>2
<1>3. Video \in Seq(AnyCell) /\ h \in Seq(AnyCell) /\ Len(h) = 4 /\ l \in AnyCell
  BY VideoOf, HeaderOf, CellTypes DEF Names
<1>4. Given(kind, off) = h \o w
  BY DEF Given
<1>5. /\ Len(Sent) \in Nat
      /\ \A j \in 1..Len(Sent) : Sent[j] = Meant("video")[j]
      /\ \A i \in 1..4 : Meant("video")[i] = h[i]
      /\ \A i \in 1..Len(Video) : Meant("video")[4 + i] = Video[i]
  BY SentOf, MeantOf DEF Right
<1> HIDE DEF m, h, Sent, AnyCell
<1>6. v \in Seq(AnyCell) /\ Len(v) = m /\ \A j \in 1..m : v[j] = Video[j]
  <2>1. m \in 0..Len(Video)
    BY <1>2, <1>3
  <2>. QED BY <1>3, <2>1, StartOf
<1> HIDE DEF v, l
<1>7. w \in Seq(AnyCell) /\ Len(w) = m + 1 /\ w[m + 1] = l /\ \A j \in 1..m : w[j] = v[j]
  BY <1>2, <1>3, <1>6
<1> HIDE DEF w
<1>8. /\ h \o w \in Seq(AnyCell) /\ Len(h \o w) = 4 + (m + 1)
      /\ \A i \in 1..4 : (h \o w)[i] = h[i]
      /\ \A i \in 1..m + 1 : (h \o w)[4 + i] = w[i]
  <2>1. /\ h \o w \in Seq(AnyCell) /\ Len(h \o w) = Len(h) + Len(w)
        /\ \A i \in 1..Len(h) : (h \o w)[i] = h[i]
        /\ \A i \in 1..Len(w) : (h \o w)[Len(h) + i] = w[i]
    <3>1. h \in Seq(AnyCell) /\ w \in Seq(AnyCell)
      BY <1>3, <1>7
    <3>. QED BY ONLY <3>1, Joined
  <2>. QED BY <1>3, <1>7, <2>1
<1>9. Len(t) = 4 + (m + 1)
  BY <1>2
<1>10. ASSUME NEW j \in 1..4 + (m + 1) PROVE (h \o w)[j] = t[j]
  <2>1. CASE j <= 4
    <3>1. j \in 1..4 /\ j \in 1..Len(Sent)
      BY <1>2, <2>1
    <3>. QED BY <1>5, <1>8, <3>1
  <2>2. CASE j > 4 /\ j <= 4 + m
    <3>1. PICK i \in 1..m : j = 4 + i
      <4>1. j - 4 \in 1..m /\ j = 4 + (j - 4)
        BY <1>2, <2>2
      <4>. QED BY <4>1
    <3>2. i \in 1..Len(Video) /\ i \in 1..m + 1 /\ 4 + i \in 1..Len(Sent)
      BY <1>2, <1>3, <3>1
    <3>3. (h \o w)[j] = w[i] /\ w[i] = v[i] /\ v[i] = Video[i]
      BY <1>6, <1>7, <1>8, <3>1, <3>2
    <3>4. t[j] = Sent[j] /\ Sent[j] = Meant("video")[4 + i] /\ Meant("video")[4 + i] = Video[i]
      BY <1>5, <3>1, <3>2
    <3>. QED BY <3>3, <3>4
  <2>3. CASE j > 4 + m
    <3>1. j = 4 + (m + 1) /\ j = Len(Sent) + 1 /\ m + 1 \in 1..m + 1
      BY <1>2, <2>3
    <3>. QED BY <1>7, <1>8, <3>1 DEF l
  <2>4. j <= 4 \/ (j > 4 /\ j <= 4 + m) \/ j > 4 + m
    BY <1>2
  <2>. QED BY <2>1, <2>2, <2>3, <2>4, Zenon
<1>. QED BY <1>4, <1>8, <1>9, <1>10, SeqEqual

-----------------------------------------------------------------------------
(* One lemma per action *)

\* Nothing is written yet.
LEMMA InitAnswer == Init => AnswerIInv
<1> SUFFICES ASSUME Init PROVE AnswerIInv
  OBVIOUS
<1>1. Types
  <2>1. \A S : <<>> \in Seq(S)
    BY EmptySeq
  <2>2. Len(<<>>) = 0 /\ 0 \in 0..FileLen /\ SendRoom \in Nat
    BY HeadsFit
  <2> HIDE DEF AnyCell
  <2>3. pending = <<>> /\ flight = <<>> /\ got = <<>> /\ kind = "none" /\ pc = "route" /\ off = 0 /\ gone = FALSE /\ full = FALSE /\ failed = FALSE
    BY DEF Init
  <2>4. pending \in Seq(Seq(AnyCell)) /\ flight \in Seq(AnyCell) /\ got \in Seq(AnyCell)
    BY <2>1, <2>3
  <2>5. Len(flight) <= SendRoom
    BY <2>2, <2>3
  <2>6. pc \in PCs /\ gone \in BOOLEAN /\ full \in BOOLEAN /\ failed \in BOOLEAN /\ kind \in Kinds \cup {"none"} /\ off \in 0..FileLen
    BY <2>2, <2>3 DEF PCs
  <2>. QED BY <2>4, <2>5, <2>6 DEF Types
<1>2. Sent = <<>>
  BY DEF Init, Sent
<1>. QED BY <1>1, <1>2 DEF AnswerIInv, Init

\* The answer begins.
LEMMA RouteAnswer == AnswerIInv /\ Route => AnswerIInv'
<1> SUFFICES ASSUME AnswerIInv, Route PROVE AnswerIInv'
  OBVIOUS
<1>1. /\ Types /\ Sent = <<>> /\ off = 0 /\ ~full /\ kind' \in Kinds /\ pending' = FirstWrites(kind')
      /\ pc' = "write" /\ off' = 0 /\ flight' = flight /\ got' = got /\ gone' = gone /\ full' = full /\ failed' = failed
      /\ (gone => flight = <<>>)
  BY DEF AnswerIInv, Route, wire, marks
<1>2. PICK k \in Kinds : kind' = k
  BY <1>1
<1>3. Len(Meant(k)) \in Nat
  <2>1. Meant(k) \in Seq(AnyCell)
    BY MeantOf
  <2>. QED BY <2>1
<1>4. PICK e \in Nat : e = IF k \in {"error", "json"} THEN Len(Meant(k)) ELSE 4
  BY <1>3
<1>5. pending' \in Seq(Seq(AnyCell)) /\ Places(k, pending', 0, e)
  <2>1. FirstWrites(k) \in Seq(Seq(AnyCell)) /\ Places(k, FirstWrites(k), 0, IF k \in {"error", "json"} THEN Len(Meant(k)) ELSE 4)
    BY FirstOf
  <2>. QED BY <1>1, <1>2, <1>4, <2>1
<1>6. Types'
  BY <1>1, <1>5 DEF Types, PCs
<1>7. Sent' = <<>> /\ Len(Sent') = 0
  BY <1>1 DEF Sent
<1>8. Right'
  <2> HIDE DEF Sent
  <2>1. Right' = (Len(Sent') <= Len(Meant(k)) /\ \A j \in 1..Len(Sent') : (Sent')[j] = Meant(k)[j])
    BY <1>2 DEF Right
  <2>2. 1..0 = {} /\ 0 <= Len(Meant(k))
    BY <1>3
  <2>. QED BY <1>7, <2>1, <2>2
<1>9. Due(e)'
  <2> HIDE DEF Sent, Places
  <2>1. Due(e)' <=> Places(k, pending', Len(Sent'), e)
    BY <1>2 DEF Due
  <2>. QED BY <1>5, <1>7, <2>1
<1>10. Target(e)'
  <2>1. CASE k \in {"error", "json"}
    BY <1>2, <1>4, <2>1 DEF Target
  <2>2. CASE k = "file"
    BY <1>1, <1>2, <1>4, <2>2 DEF Target
  <2>3. CASE k = "video"
    <3>1. Read(0)'
      <4>1. FileLen \in Nat /\ Piece \in Nat
        BY HeadsFit
      <4>. QED BY <1>1, <4>1 DEF Read
    <3>2. e = 4 + off' + 2 * 0
      BY <1>1, <1>4, <2>3
    <3>. QED BY <1>2, <2>3, <3>1, <3>2 DEF Target
  <2>. QED BY <2>1, <2>2, <2>3 DEF Kinds
<1>11. Whole'
  BY <1>1, <1>8, <1>9, <1>10 DEF Whole
<1>. QED BY <1>1, <1>6, <1>8, <1>11 DEF AnswerIInv

\* A write of which the socket takes all or, at the end of the JSON text, some.
LEMMA WriteAnswer == AnswerIInv /\ Write => AnswerIInv'
<1> SUFFICES ASSUME AnswerIInv, Write PROVE AnswerIInv'
  OBVIOUS
<1> DEFINE h == Head(pending)
           n == Min({Free, Len(h)})
           s == SubSeq(h, 1, n)
<1>1. /\ Types /\ pc = "write" /\ pending # <<>> /\ ~gone /\ kind \in Kinds
      /\ flight' = flight \o s /\ full' = (full \/ n < Len(h)) /\ pending' = Tail(pending)
      /\ kind' = kind /\ off' = off /\ pc' = pc /\ got' = got /\ gone' = gone /\ failed' = failed
  BY DEF AnswerIInv, Write, file
<1>2. /\ h \in Seq(AnyCell) /\ pending' \in Seq(Seq(AnyCell)) /\ pending \in Seq(Seq(AnyCell))
  <2>1. pending \in Seq(Seq(AnyCell))
    BY <1>1 DEF Types
  <2> HIDE DEF AnyCell
  <2>. QED BY <1>1, <2>1, HeadTail
<1>3. Len(Sent) \in Nat /\ Len(flight) \in 0..SendRoom /\ Len(flight) <= Len(Sent) /\ SendRoom \in Nat /\ SendRoom >= 4
  <2>1. Len(got) \in Nat
    BY <1>1 DEF Types
  <2>. QED BY <1>1, <2>1, SentOf, HeadsFit
<1>4. n \in 0..Len(h) /\ Len(h) \in Nat /\ n <= SendRoom - Len(flight)
      /\ (n < Len(h) => n = SendRoom - Len(flight))
  <2> HIDE DEF h
  <2>1. Free \in Nat /\ Len(h) \in Nat /\ Free = SendRoom - Len(flight)
    BY <1>2, <1>3 DEF Free
  <2>2. n = IF Free <= Len(h) THEN Free ELSE Len(h)
    BY <2>1, MinPair
  <2> HIDE DEF n
  <2>. QED BY <2>1, <2>2
<1> HIDE DEF h, n
<1>5. s \in Seq(AnyCell) /\ Len(s) = n /\ \A j \in 1..n : s[j] = h[j]
  <2> HIDE DEF AnyCell
  <2>. QED BY <1>2, <1>4, StartOf
<1> HIDE DEF s
<1>6. Types'
  <2>1. flight' \in Seq(AnyCell) /\ Len(flight') = Len(flight) + n /\ got' \in Seq(AnyCell)
    BY <1>1, <1>5, Grows
  <2>2. Len(flight') <= SendRoom
    BY <1>3, <1>4, <2>1
  <2>. QED BY <1>1, <1>2, <2>1, <2>2 DEF Types
<1>7. CASE full
  <2>1. Short
    BY <1>1, <1>7 DEF AnswerIInv
  <2>2. kind = "video"
    BY <1>1, <2>1 DEF Short
  <2>3. Short'
    BY <1>1, <2>2 DEF Short
  <2>. QED BY <1>1, <1>6, <1>7, <2>3 DEF AnswerIInv
<1>8. CASE ~full
  <2>1. Whole
    BY <1>1, <1>8 DEF AnswerIInv
  <2>2. PICK e \in Nat : Target(e) /\ Due(e)
    BY <1>1, <2>1 DEF Whole
  <2>3. /\ Places(kind, pending', Len(Sent) + Len(h), e)
        /\ Len(Sent) + Len(h) <= Len(Meant(kind))
        /\ \A j \in 1..Len(h) : h[j] = Meant(kind)[Len(Sent) + j]
        /\ kind # "video" => Len(Sent) + Len(h) <= 4 \/ (kind = "json" /\ pending' = <<>>)
    <3>1. Places(kind, pending, Len(Sent), e)
      BY <2>2 DEF Due
    <3> HIDE DEF AnyCell, Places, Sent
    <3>. QED BY <1>1, <1>2, <1>3, <3>1, PlacesStep DEF h
  <2>4. Right
    BY <1>1, <2>1 DEF Whole
  <2>5. Len(Meant(kind)) \in Nat
    <3>1. Meant(kind) \in Seq(AnyCell)
      BY <1>1, MeantOf
    <3>. QED BY <3>1
  <2>6. Right'
    <3>1. Len(Sent) + Len(s) <= Len(Meant(kind))
      BY <1>3, <1>4, <1>5, <2>3, <2>5
    <3>2. \A j \in 1..Len(s) : s[j] = Meant(kind)[Len(Sent) + j]
      BY <1>4, <1>5, <2>3
    <3>. QED BY <1>1, <1>5, <2>4, <3>1, <3>2, StaysRight
  <2>7. CASE n = Len(h)
    <3>1. ~full'
      <4>1. ~(n < Len(h))
        BY <1>4, <2>7
      <4>. QED BY <1>1, <1>8, <4>1, Zenon
    <3>2. Len(Sent') = Len(Sent) + Len(h)
      BY <1>1, <1>5, <2>7, Grows
    <3>3. Due(e)'
      <4> HIDE DEF Places, Sent
      <4>1. Due(e)' <=> Places(kind, pending', Len(Sent'), e)
        BY <1>1 DEF Due
      <4>. QED BY <2>3, <3>2, <4>1
    <3>4. Target(e)'
      BY <1>1, <2>2 DEF Target, Read
    <3>5. Whole'
      BY <1>1, <2>6, <3>3, <3>4 DEF Whole
    <3>. QED BY <1>1, <1>6, <3>1, <3>5 DEF AnswerIInv
  <2>8. CASE n # Len(h)
    <3>1. full' /\ n = SendRoom - Len(flight)
      <4>1. n < Len(h)
        BY <1>4, <2>8
      <4>2. full'
        BY <1>1, <4>1, Zenon
      <4>. QED BY <1>4, <4>1, <4>2
    <3>2. kind # "video" => kind = "json" /\ pending' = <<>>
      <4> SUFFICES ASSUME Len(Sent) + Len(h) <= 4 PROVE FALSE
        BY <2>3
      <4>. QED BY <1>3, <1>4, <2>8, <3>1
    <3>3. Short'
      BY <1>1, <2>6, <3>2 DEF Short
    <3>. QED BY <1>1, <1>6, <3>1, <3>3 DEF AnswerIInv
  <2>. QED BY <2>7, <2>8
<1>. QED BY <1>7, <1>8

\* A write to a peer that has left.
LEMMA VanishAnswer == AnswerIInv /\ (WriteVanishes \/ BrokenPipe) => AnswerIInv'
<1> SUFFICES ASSUME AnswerIInv, WriteVanishes \/ BrokenPipe PROVE AnswerIInv'
  OBVIOUS
<1>1. /\ Types /\ gone /\ pc # "route" /\ pc' # "route" /\ kind \in Kinds /\ flight = <<>> /\ (kind # "video" => Right)
      /\ kind' = kind /\ off' = off /\ flight' = flight /\ got' = got /\ gone' = gone /\ full' = full /\ pc' \in PCs
      /\ failed' = failed
  BY DEF AnswerIInv, WriteVanishes, BrokenPipe, Types, PCs, file, wire, marks
<1>2. pending' \in Seq(Seq(AnyCell))
  <2>1. pending \in Seq(Seq(AnyCell))
    BY <1>1 DEF Types
  <2>2. pending' = pending \/ (pending # <<>> /\ pending' = Tail(pending))
    BY DEF WriteVanishes, BrokenPipe
  <2> HIDE DEF AnyCell
  <2>. QED BY <2>1, <2>2, HeadTail
<1>3. Types'
  BY <1>1, <1>2 DEF Types
<1>4. kind' # "video" => Right'
  BY <1>1, Quiet
<1>. QED BY <1>1, <1>3, <1>4 DEF AnswerIInv

\* All the writes that were due are done.
LEMMA WrittenAnswer == AnswerIInv /\ Written => AnswerIInv'
<1> SUFFICES ASSUME AnswerIInv, Written PROVE AnswerIInv'
  OBVIOUS
<1>1. /\ Types /\ pc = "write" /\ pending = <<>> /\ kind \in Kinds
      /\ pc' = CASE kind = "file" -> "sendfile" [] kind = "video" -> "check" [] OTHER -> "closed"
      /\ UNCHANGED <<kind, off, pending, flight, got, gone, full, failed>>
      /\ (gone => flight = <<>>) /\ (gone /\ kind # "video" => Right) /\ (~gone => IF full THEN Short ELSE Whole)
  BY DEF AnswerIInv, Written, file, wire, marks
<1>2. Types' /\ pc' # "route" /\ pc' # "write" /\ pc' # "last"
  BY <1>1 DEF Types, PCs
<1>3. Right => Right'
  BY <1>1, Quiet
<1>4. CASE gone
  BY <1>1, <1>2, <1>3, <1>4 DEF AnswerIInv
<1>5. CASE ~gone /\ full
  <2>1. Short'
    BY <1>1, <1>2, <1>3, <1>5 DEF Short
  <2>. QED BY <1>1, <1>2, <1>5, <2>1 DEF AnswerIInv
<1>6. CASE ~gone /\ ~full
  <2>1. PICK e \in Nat : Target(e) /\ Due(e)
    BY <1>1, <1>6 DEF Whole
  <2>2. Len(Sent) = e
    <3>1. Len(Sent) \in Nat
      BY <1>1, SentOf
    <3> HIDE DEF Places, Sent
    <3>. QED BY <1>1, <2>1, <3>1, PlacesEnd DEF Due
  <2>3. Sent' = Sent
    BY <1>1 DEF Sent
  <2>4. Target(Len(Sent))
    BY <2>1, <2>2
  <2> HIDE DEF Sent
  <2>5. Right'
    BY <1>1, <1>3, <1>6 DEF Whole
  <2>6. CASE kind = "file"
    <3>1. pc' = "sendfile" /\ Len(Sent') = 4 + off'
      BY <1>1, <2>3, <2>4, <2>6 DEF Target
    <3>2. Whole'
      BY <1>1, <2>5, <2>6, <3>1 DEF Whole
    <3>. QED BY <1>1, <1>2, <1>6, <3>2 DEF AnswerIInv
  <2>7. CASE kind = "video"
    <3>1. pc' = "check" /\ Target(Len(Sent))'
      BY <1>1, <2>3, <2>4, <2>7 DEF Target, Read
    <3>2. Whole'
      BY <1>1, <2>5, <2>7, <3>1 DEF Whole
    <3>. QED BY <1>1, <1>2, <1>6, <3>2 DEF AnswerIInv
  <2>8. CASE kind \in {"error", "json"}
    <3>1. pc' = "closed" /\ Ended'
      <4>1. Len(Sent) = Len(Meant(kind)) /\ Right
        BY <1>1, <1>6, <2>4, <2>8 DEF Target, Whole
      <4>2. Sent = Given(kind, off)
        BY <1>1, <2>8, <4>1, AllGiven
      <4>. QED BY <1>1, <2>3, <2>8, <4>2 DEF Ended
    <3>2. Whole'
      BY <1>1, <2>5, <2>8, <3>1 DEF Whole
    <3>. QED BY <1>1, <1>2, <1>6, <3>2 DEF AnswerIInv
  <2>. QED BY <1>1, <2>6, <2>7, <2>8 DEF Kinds
<1>. QED BY <1>4, <1>5, <1>6

\* sendfile moves on in the file by what the socket takes.
LEMMA SendFileAnswer == AnswerIInv /\ SendFile => AnswerIInv'
<1> SUFFICES ASSUME AnswerIInv, SendFile PROVE AnswerIInv'
  OBVIOUS
<1>0. PICK n \in 1..Min({Free, FileLen - off}) : flight' = flight \o Blocks(off, off + n) /\ off' = off + n
  BY DEF SendFile
<1> DEFINE s == Blocks(off, off + n)
<1>1. /\ Types /\ pc = "sendfile" /\ off < FileLen /\ ~gone /\ kind \in Kinds
      /\ flight' = flight \o s /\ off' = off + n
      /\ kind' = kind /\ pending' = pending /\ pc' = pc /\ got' = got /\ gone' = gone /\ full' = full /\ failed' = failed
  BY <1>0 DEF AnswerIInv, SendFile, marks
<1>2. Len(Sent) \in Nat /\ Len(flight) \in 0..SendRoom /\ SendRoom \in Nat /\ off \in 0..FileLen /\ FileLen \in Nat
  BY <1>1, SentOf, HeadsFit DEF Types
<1>3. n \in Nat /\ off + n <= FileLen /\ Len(flight) + n <= SendRoom
  <2> DEFINE m == Min({Free, FileLen - off})
  <2>1. Free \in Nat /\ Free = SendRoom - Len(flight) /\ FileLen - off \in Nat
    BY <1>2 DEF Free
  <2>2. m = IF Free <= FileLen - off THEN Free ELSE FileLen - off
    BY <2>1, MinPair
  <2>3. n \in 1..m
    BY <1>0
  <2> HIDE DEF m
  <2>. QED BY <1>2, <2>1, <2>2, <2>3
<1>4. s \in Seq(AnyCell) /\ Len(s) = n /\ \A j \in 1..n : s[j] = Block(off + j)
  <2>1. off \in Nat /\ off + n \in Nat /\ off <= off + n /\ (off + n) - off = n
    BY <1>2, <1>3
  <2>2. /\ s \in Seq(AnyCell) /\ Len(s) = (off + n) - off
        /\ \A j \in 1..(off + n) - off : s[j] = Block(off + j)
    BY ONLY <2>1, BlocksOf
  <2> HIDE DEF AnyCell, Block, s
  <2>. QED BY <2>1, <2>2
<1> HIDE DEF s
<1>5. flight' \in Seq(AnyCell) /\ Len(flight') = Len(flight) + n /\ got' \in Seq(AnyCell) /\ Len(Sent') = Len(Sent) + n
  BY <1>1, <1>4, Grows
<1>6. Types'
  <2>1. Len(flight') <= SendRoom /\ off' \in 0..FileLen
    BY <1>1, <1>2, <1>3, <1>5
  <2>. QED BY <1>1, <1>5, <2>1 DEF Types
<1>7. CASE full
  <2>1. kind = "video"
    BY <1>1, <1>7 DEF AnswerIInv, Short
  <2>2. Short'
    BY <1>1, <2>1 DEF Short
  <2>. QED BY <1>1, <1>6, <1>7, <2>2 DEF AnswerIInv
<1>8. CASE ~full
  <2>1. Right /\ kind = "file" /\ Len(Sent) = 4 + off
    BY <1>1, <1>8 DEF AnswerIInv, Whole
  <2>2. Len(Meant("file")) = 4 + FileLen /\ \A i \in 1..FileLen : Meant("file")[4 + i] = Block(i)
    BY MeantOf
  <2>3. Right'
    <3>1. Len(Sent) + Len(s) <= Len(Meant(kind))
      BY <1>2, <1>3, <1>4, <2>1, <2>2
    <3>2. \A j \in 1..Len(s) : s[j] = Meant(kind)[Len(Sent) + j]
      <4> TAKE j \in 1..Len(s)
      <4>1. off + j \in 1..FileLen /\ Len(Sent) + j = 4 + (off + j) /\ j \in 1..n
        BY <1>2, <1>3, <1>4, <2>1
      <4>2. Meant("file")[4 + (off + j)] = Block(off + j) /\ s[j] = Block(off + j)
        BY <1>4, <2>2, <4>1, Zenon
      <4>. QED BY <2>1, <4>1, <4>2
    <3>. QED BY <1>1, <1>4, <2>1, <3>1, <3>2, StaysRight
  <2>4. Len(Sent') = 4 + off'
    BY <1>1, <1>2, <1>3, <1>5, <2>1
  <2>5. Whole'
    BY <1>1, <2>1, <2>3, <2>4 DEF Whole
  <2>. QED BY <1>1, <1>6, <1>8, <2>5 DEF AnswerIInv
<1>. QED BY <1>7, <1>8

\* sendfile ends: there is no room, the peer has left, or there is no more file.
LEMMA FileEndAnswer == AnswerIInv /\ (SendFileStops \/ FileSent) => AnswerIInv'
<1> SUFFICES ASSUME AnswerIInv, SendFileStops \/ FileSent PROVE AnswerIInv'
  OBVIOUS
<1>1. /\ Types /\ pc = "sendfile" /\ kind \in Kinds /\ pc' = "closed"
      /\ UNCHANGED <<kind, off, pending, flight, got, gone>> /\ full' \in {full, TRUE}
      /\ failed' \in {failed, TRUE}
      /\ ~gone /\ ~full' => off = FileLen \/ failed'
      /\ (gone => flight = <<>>) /\ (gone /\ kind # "video" => Right) /\ (~gone => IF full THEN Short ELSE Whole)
  <2>1. Types /\ pc = "sendfile" /\ kind \in Kinds /\ (gone => flight = <<>>)
        /\ (gone /\ kind # "video" => Right) /\ (~gone => IF full THEN Short ELSE Whole)
    BY DEF AnswerIInv, SendFileStops, FileSent
  <2>2. CASE SendFileStops
    BY <2>1, <2>2 DEF SendFileStops, NothingSent, file, wire, marks
  <2>3. CASE FileSent
    BY <2>1, <2>3 DEF FileSent, file, wire, marks
  <2>. QED BY <2>2, <2>3
<1>2. Types'
  BY <1>1 DEF Types, PCs
<1>3. Right => Right'
  BY <1>1, Quiet
<1>4. CASE gone
  BY <1>1, <1>2, <1>3, <1>4 DEF AnswerIInv
<1>5. CASE ~gone /\ full'
  <2>1. kind # "video" => Right
    BY <1>1, <1>5 DEF Short, Whole
  <2>2. Short'
    BY <1>1, <1>3, <2>1 DEF Short
  <2>. QED BY <1>1, <1>2, <1>5, <2>2 DEF AnswerIInv
<1>6. CASE ~gone /\ ~full'
  <2>1. Whole /\ ~full
    <3>1. full => full'
      BY <1>1
    <3>. QED BY <1>1, <1>6, <3>1
  <2>2. Right /\ kind = "file" /\ Len(Sent) = 4 + off
    BY <1>1, <2>1 DEF Whole
  <2>3. Ended'
    <3>1. Sent' = Sent
      BY <1>1 DEF Sent
    <3>2. Sent = Given(kind, off)
      BY <1>1, <2>2, FileGiven
    <3>3. off = FileLen => ~(off < FileLen)
      BY HeadsFit
    <3> HIDE DEF Sent
    <3>. QED BY <1>1, <1>6, <3>1, <3>2, <3>3 DEF Ended
  <2>4. Whole'
    BY <1>1, <1>3, <2>2, <2>3 DEF Whole
  <2>. QED BY <1>1, <1>2, <1>6, <2>4 DEF AnswerIInv
<1>. QED BY <1>4, <1>5, <1>6

\* The next chunk of the video is read.
LEMMA ChunkAnswer == AnswerIInv /\ NextChunk => AnswerIInv'
<1> SUFFICES ASSUME AnswerIInv, NextChunk PROVE AnswerIInv'
  OBVIOUS
<1>1. /\ Types /\ pc = "check" /\ off < FileLen /\ kind \in Kinds /\ pc' = "write"
      /\ pending' = Chunk(off, PieceEnd(off)) /\ off' = PieceEnd(off)
      /\ UNCHANGED <<kind, flight, got, gone, full, failed>>
      /\ (gone => flight = <<>>) /\ (gone /\ kind # "video" => Right) /\ (~gone => IF full THEN Short ELSE Whole)
  BY DEF AnswerIInv, NextChunk, wire, marks
<1>2. /\ FileLen \in Nat /\ Piece \in Nat \ {0} /\ off \in Nat
      /\ PieceEnd(off) = IF off + Piece <= FileLen THEN off + Piece ELSE FileLen
  <2>1. FileLen \in Nat /\ Piece \in Nat \ {0} /\ off \in Nat /\ off <= FileLen
    BY <1>1, HeadsFit DEF Types
  <2>. QED BY <2>1, PiecesOf
<1>3. off <= off' /\ off' \in 0..FileLen
  BY <1>1, <1>2
<1>4. pending' \in Seq(Seq(AnyCell))
  <2> DEFINE j == PieceEnd(off)
             a == <<Cell("size")>>
             b == Blocks(off, j)
             d == <<Cell("crlf")>>
  <2>1. a \in Seq(AnyCell) /\ d \in Seq(AnyCell)
    <3>1. Cell("size") \in AnyCell /\ Cell("crlf") \in AnyCell
      BY CellTypes DEF Names
    <3> HIDE DEF Cell, AnyCell
    <3>. QED BY <3>1
  <2>2. b \in Seq(AnyCell)
    <3>1. j \in Nat /\ off <= j
      BY <1>1, <1>2, <1>3
    <3> HIDE DEF j
    <3>. QED BY <1>2, <3>1, BlocksOf
  <2>3. pending' = <<a, b, d>>
    BY <1>1 DEF Chunk
  <2> HIDE DEF a, b, d, AnyCell
  <2>. QED BY <2>1, <2>2, <2>3
<1>5. Types'
  BY <1>1, <1>3, <1>4 DEF Types, PCs
<1>6. Right => Right'
  BY <1>1, Quiet
<1>7. CASE gone
  BY <1>1, <1>5, <1>6, <1>7 DEF AnswerIInv
<1>8. CASE ~gone /\ full
  <2>1. kind = "video"
    BY <1>1, <1>8 DEF Short
  <2>2. Short'
    BY <1>1, <2>1 DEF Short
  <2>. QED BY <1>1, <1>5, <1>8, <2>2 DEF AnswerIInv
<1>9. CASE ~gone /\ ~full
  <2>1. Right /\ kind = "video" /\ Target(Len(Sent))
    BY <1>1, <1>9 DEF Whole
  <2>2. PICK c \in Nat : Read(c) /\ Len(Sent) = 4 + off + 2 * c
    BY <2>1 DEF Target
  <2>3. off = c * Piece /\ c * Piece < FileLen /\ c * Piece \in Nat /\ (c + 1) * Piece = c * Piece + Piece
    <3>1. c * Piece \in Nat /\ (c + 1) * Piece = c * Piece + Piece
      BY <1>2, Multiples
    <3>2. off = IF c * Piece <= FileLen THEN c * Piece ELSE FileLen
      BY <2>2 DEF Read
    <3>. QED BY <1>1, <1>2, <3>1, <3>2
  <2>4. PICK e \in Nat : e = 4 + off' + 2 * (c + 1)
    <3>1. 4 + off' + 2 * (c + 1) \in Nat
      <4>1. off' \in Nat
        BY <1>2, <1>3
      <4>2. c \in Nat
        BY <2>2
      <4>3. \A k, m \in Nat : 4 + m + 2 * (k + 1) \in Nat
        OBVIOUS
      <4>. QED BY <4>1, <4>2, <4>3
    <3>. QED BY <3>1
  <2>5. Places("video", pending', Len(Sent), e)
    <3>1. Places("video", Chunk(c * Piece, PieceEnd(c * Piece)), 4 + c * Piece + 2 * c, 4 + PieceEnd(c * Piece) + 2 * (c + 1))
      BY <2>3, ChunkOf
    <3> HIDE DEF Places, Chunk, PieceEnd
    <3>. QED BY <1>1, <2>2, <2>3, <2>4, <3>1
  <2>6. Due(e)'
    <3>1. Sent' = Sent
      BY <1>1 DEF Sent
    <3> HIDE DEF Places, Sent
    <3>2. Due(e)' <=> Places("video", pending', Len(Sent'), e)
      BY <1>1, <2>1 DEF Due
    <3>. QED BY <2>5, <3>1, <3>2
  <2>7. Read(c + 1)'
    <3>1. off' = IF (c + 1) * Piece <= FileLen THEN (c + 1) * Piece ELSE FileLen
      BY <1>1, <1>2, <2>3
    <3>2. c + 1 > 0 /\ (c + 1) - 1 = c
      OBVIOUS
    <3>. QED BY <2>3, <3>1, <3>2 DEF Read
  <2>8. Target(e)'
    <3>1. c + 1 \in Nat /\ e = 4 + off' + 2 * (c + 1)
      BY <2>4
    <3>. QED BY <1>1, <2>1, <2>7, <3>1 DEF Target
  <2>9. Whole'
    BY <1>1, <1>6, <2>1, <2>6, <2>8 DEF Whole
  <2>. QED BY <1>1, <1>5, <1>9, <2>9 DEF AnswerIInv
<1>. QED BY <1>7, <1>8, <1>9

\* The video is left where it is, or has come to its end.
LEMMA VideoEndAnswer == AnswerIInv /\ (PeerFoundDead \/ EndOfVideo) => AnswerIInv'
<1> SUFFICES ASSUME AnswerIInv, PeerFoundDead \/ EndOfVideo PROVE AnswerIInv'
  OBVIOUS
<1>1. /\ Types /\ pc = "check" /\ kind \in Kinds /\ pc' \in {"closed", "last"}
      /\ UNCHANGED <<kind, off, pending, flight, got, gone, full>>
      /\ failed' \in {failed, TRUE}
      /\ ~gone => (off = FileLen \/ failed') /\ pc' = "last"
      /\ (gone => flight = <<>>) /\ (gone /\ kind # "video" => Right) /\ (~gone => IF full THEN Short ELSE Whole)
  BY DEF AnswerIInv, PeerFoundDead, EndOfVideo, file, wire, marks
<1>2. Types'
  BY <1>1 DEF Types, PCs
<1>3. Right => Right'
  BY <1>1, Quiet
<1>4. CASE gone
  BY <1>1, <1>2, <1>3, <1>4 DEF AnswerIInv
<1>5. CASE ~gone /\ full
  <2>1. kind = "video"
    BY <1>1, <1>5 DEF Short
  <2>2. Short'
    BY <1>1, <2>1 DEF Short
  <2>. QED BY <1>1, <1>2, <1>5, <2>2 DEF AnswerIInv
<1>6. CASE ~gone /\ ~full
  <2>1. Right /\ kind = "video" /\ Target(Len(Sent))
    BY <1>1, <1>6 DEF Whole
  <2>2. Sent' = Sent
    BY <1>1 DEF Sent
  <2> HIDE DEF Sent
  <2>3. Target(Len(Sent))'
    BY <1>1, <2>1, <2>2 DEF Target, Read
  <2>4. off' < FileLen => failed'
    <3>1. off = FileLen => ~(off < FileLen)
      BY HeadsFit
    <3>. QED BY <1>1, <1>6, <3>1
  <2>5. Whole'
    BY <1>1, <1>3, <1>6, <2>1, <2>3, <2>4 DEF Whole
  <2>. QED BY <1>1, <1>2, <1>6, <2>5 DEF AnswerIInv
<1>. QED BY <1>4, <1>5, <1>6

\* The last chunk of a video.
LEMMA LastAnswer == AnswerIInv /\ LastChunk => AnswerIInv'
<1> SUFFICES ASSUME AnswerIInv, LastChunk PROVE AnswerIInv'
  OBVIOUS
<1> DEFINE fits == ~gone /\ Free > 0
           l == Cell("last")
<1>1. /\ Types /\ pc = "last" /\ kind \in Kinds /\ pc' = "closed"
      /\ flight' = (IF fits THEN Append(flight, l) ELSE flight)
      /\ full' = (full \/ (~gone /\ Free = 0))
      /\ UNCHANGED <<kind, off, pending, got, gone, failed>>
      /\ (gone => flight = <<>>) /\ (gone /\ kind # "video" => Right) /\ (~gone => IF full THEN Short ELSE Whole)
  BY DEF AnswerIInv, LastChunk, file
<1>2. Len(flight) \in 0..SendRoom /\ SendRoom \in Nat /\ Free \in Nat /\ Free = SendRoom - Len(flight)
  <2>1. Len(flight) \in 0..SendRoom /\ SendRoom \in Nat
    BY <1>1, SentOf, HeadsFit
  <2>. QED BY <2>1 DEF Free
<1>3. l \in AnyCell
  BY CellTypes DEF Names
<1>4. CASE ~fits
  <2>1. flight' = flight
    BY <1>1, <1>4
  <2>2. full' \in BOOLEAN
    <3>1. full \in BOOLEAN
      BY <1>1 DEF Types
    <3>. QED BY <1>1
  <2>3. Types'
    BY <1>1, <2>1, <2>2 DEF Types, PCs
  <2>4. CASE gone
    <3>1. kind' # "video" => Right'
      BY <1>1, <2>1, <2>4, Quiet
    <3>. QED BY <1>1, <2>1, <2>3, <2>4, <3>1 DEF AnswerIInv
  <2>5. CASE ~gone
    <3>1. Free = 0
      BY <1>2, <1>4, <2>5
    <3>2. full'
      BY <1>1, <2>5, <3>1, Zenon
    <3>3. kind = "video"
      BY <1>1, <2>5 DEF Short, Whole
    <3>4. Short'
      BY <1>1, <3>3 DEF Short
    <3>. QED BY <1>1, <2>1, <2>3, <2>5, <3>2, <3>4 DEF AnswerIInv
  <2>. QED BY <2>4, <2>5
<1>5. CASE fits
  <2> DEFINE s == <<l>>
  <2>1. s \in Seq(AnyCell) /\ Len(s) = 1 /\ s[1] = l
    <3> HIDE DEF l, AnyCell
    <3>. QED BY <1>3
  <2>2. flight' = flight \o s
    <3>1. flight \in Seq(AnyCell)
      BY <1>1 DEF Types
    <3>2. flight' = Append(flight, l)
      BY <1>1, <1>5
    <3> HIDE DEF l, AnyCell
    <3>3. Append(flight, l) = flight \o <<l>>
      BY <1>3, <3>1, AppendIsConcat
    <3>. QED BY <3>2, <3>3
  <2>3. ~gone /\ Free > 0 /\ Free # 0
    BY <1>2, <1>5
  <2> HIDE DEF s, l, fits
  <2>4. full' = full /\ full' \in BOOLEAN
    <3>1. full \in BOOLEAN
      BY <1>1 DEF Types
    <3>2. full' = (full \/ FALSE)
      BY <1>1, <2>3, Zenon
    <3>. QED BY <3>1, <3>2
  <2>5. /\ flight' \in Seq(AnyCell) /\ Len(flight') = Len(flight) + 1 /\ got' \in Seq(AnyCell)
        /\ Len(Sent') = Len(Sent) + 1
    BY <1>1, <2>1, <2>2, Grows
  <2>6. Len(flight') <= SendRoom
    BY <1>2, <2>3, <2>5
  <2>7. Types'
    BY <1>1, <2>4, <2>5, <2>6 DEF Types, PCs
  <2>8. CASE full
    <3>1. kind = "video"
      BY <1>1, <2>3, <2>8 DEF Short
    <3>2. Short'
      BY <1>1, <3>1 DEF Short
    <3>. QED BY <1>1, <2>3, <2>4, <2>7, <2>8, <3>2 DEF AnswerIInv
  <2>9. CASE ~full
    <3>1. Right /\ kind = "video" /\ Target(Len(Sent)) /\ (off < FileLen => failed)
      BY <1>1, <2>3, <2>9 DEF Whole
    <3>2. /\ Sent' \in Seq(AnyCell) /\ Len(Sent') = Len(Sent) + 1
          /\ \A j \in 1..Len(Sent) : (Sent')[j] = Sent[j]
          /\ (Sent')[Len(Sent) + 1] = l
      <4>1. /\ Len(Sent') = Len(Sent) + 1 /\ \A j \in 1..Len(Sent) : (Sent')[j] = Sent[j]
            /\ \A j \in 1..1 : (Sent')[Len(Sent) + j] = s[j]
        BY <1>1, <2>1, <2>2, Grows
      <4>2. 1 \in 1..1
        OBVIOUS
      <4>3. (Sent')[Len(Sent) + 1] = l
        BY <2>1, <4>1, <4>2
      <4>4. got' \in Seq(AnyCell) /\ flight' \in Seq(AnyCell) /\ Sent' = got' \o flight'
        BY <2>5 DEF Sent
      <4> HIDE DEF Sent, AnyCell
      <4>5. Sent' \in Seq(AnyCell)
        BY <4>4
      <4>. QED BY <4>1, <4>3, <4>5
    <3>3. Ended'
      <4>1. Sent' = Given(kind, off)
        BY <1>1, <3>1, <3>2, VideoGiven DEF l
      <4>. QED BY <1>1, <3>1, <4>1 DEF Ended
    <3>4. Whole'
      BY <1>1, <3>1, <3>3 DEF Whole
    <3>. QED BY <1>1, <2>3, <2>4, <2>7, <2>9, <3>4 DEF AnswerIInv
  <2>. QED BY <2>8, <2>9
<1>. QED BY <1>4, <1>5

\* The peer takes what has arrived: what was sent is the same.
LEMMA DrainAnswer == AnswerIInv /\ Drain => AnswerIInv'
<1> SUFFICES ASSUME AnswerIInv, Drain PROVE AnswerIInv'
  OBVIOUS
<1>1. PICK n \in 1..Len(flight) : got' = got \o SubSeq(flight, 1, n) /\ flight' = SubSeq(flight, n + 1, Len(flight))
  BY DEF Drain
<1>2. Types /\ ~gone /\ UNCHANGED <<kind, off, pending, pc, gone, full, failed>>
  BY DEF AnswerIInv, Drain, file, marks
<1>3. got \in Seq(AnyCell) /\ flight \in Seq(AnyCell) /\ Len(flight) <= SendRoom /\ SendRoom \in Nat /\ Len(flight) \in Nat
  BY <1>2, HeadsFit DEF Types
<1> DEFINE a == SubSeq(flight, 1, n)
           b == SubSeq(flight, n + 1, Len(flight))
<1>4. a \in Seq(AnyCell) /\ b \in Seq(AnyCell) /\ Len(b) <= Len(flight)
  <2> DEFINE m == n + 1
             k == Len(flight)
  <2>1. m \in Int /\ k \in Int /\ \A i \in m..k : flight[i] \in AnyCell
    <3> HIDE DEF AnyCell
    <3>. QED BY <1>3
  <2>2. n \in 0..Len(flight)
    BY <1>3
  <2> HIDE DEF m, k, AnyCell
  <2>3. a \in Seq(AnyCell)
    BY <1>3, <2>2, StartOf
  <2>4. SubSeq(flight, m, k) \in Seq(AnyCell) /\ Len(SubSeq(flight, m, k)) = IF m <= k THEN k - m + 1 ELSE 0
    BY <2>1, SubSeqProperties
  <2>. QED BY <1>3, <2>3, <2>4 DEF m, k
<1>5. flight = a \o b
  <2>1. 1 \in 1..Len(flight) + 1 /\ n \in 1..Len(flight)
    BY <1>3
  <2> HIDE DEF AnyCell
  <2>2. SubSeq(flight, 1, n) \o SubSeq(flight, n + 1, Len(flight)) = SubSeq(flight, 1, Len(flight))
    BY <1>3, <2>1, ConcatAdjacentSubSeq
  <2>3. SubSeq(flight, 1, Len(flight)) = flight
    BY <1>3, SubSeqFull
  <2>. QED BY <2>2, <2>3
<1>6. got' = got \o a /\ flight' = b
  BY <1>1
<1> HIDE DEF a, b, AnyCell
<1>7. Sent' = Sent
  <2>1. (got \o a) \o b = got \o (a \o b)
    <3>1. got \in Seq(AnyCell) /\ a \in Seq(AnyCell) /\ b \in Seq(AnyCell)
      BY <1>3, <1>4
    <3>2. \A S : \A r, s, t \in Seq(S) : (r \o s) \o t = r \o (s \o t)
      BY ConcatAssociative
    <3>. QED BY <3>1, <3>2
  <2>. QED BY <1>5, <1>6, <2>1 DEF Sent
<1>8. Types'
  <2>1. got' \in Seq(AnyCell) /\ flight' \in Seq(AnyCell)
    BY <1>3, <1>4, <1>6, Joined
  <2>2. Len(flight') <= SendRoom
    <3>1. Len(b) \in Nat
      BY <1>4
    <3>. QED BY <1>3, <1>4, <1>6, <3>1
  <2>. QED BY <1>2, <2>1, <2>2 DEF Types
<1> HIDE DEF Sent
<1>9. Right => Right'
  BY <1>2, <1>7 DEF Right
<1>10. Short => Short'
  BY <1>2, <1>9 DEF Short
<1>11. Whole => Whole'
  <2> SUFFICES ASSUME Whole PROVE Whole'
    OBVIOUS
  <2>1. \A e \in Nat : Target(e) => Target(e)'
    BY <1>2 DEF Target, Read
  <2>2. \A e \in Nat : Due(e) => Due(e)'
    <3> HIDE DEF Places
    <3>1. \A e \in Nat : Due(e)' <=> Places(kind, pending, Len(Sent), e)
      BY <1>2, <1>7 DEF Due
    <3>. QED BY <3>1 DEF Due
  <2>3. pc' = "write" => \E e \in Nat : Target(e)' /\ Due(e)'
    BY <1>2, <2>1, <2>2 DEF Whole
  <2>4. Target(Len(Sent)) => Target(Len(Sent))'
    BY <1>2, <1>7 DEF Target, Read
  <2>5. Ended => Ended'
    <3> HIDE DEF Given
    <3>. QED BY <1>2, <1>7 DEF Ended
  <2>. QED BY <1>2, <1>7, <1>9, <2>3, <2>4, <2>5 DEF Whole
<1>12. pc = "route" => Sent = <<>> /\ off = 0 /\ ~full
  BY DEF AnswerIInv
<1>13. pc # "route" => kind \in Kinds /\ IF full THEN Short ELSE Whole
  BY <1>2 DEF AnswerIInv
<1>. QED BY <1>2, <1>7, <1>8, <1>10, <1>11, <1>12, <1>13 DEF AnswerIInv

\* The peer leaves, and what was on its way with it.
LEMMA LeaveAnswer == AnswerIInv /\ PeerLeaves => AnswerIInv'
<1> SUFFICES ASSUME AnswerIInv, PeerLeaves PROVE AnswerIInv'
  OBVIOUS
<1>1. Types /\ ~gone /\ gone' = TRUE /\ flight' = <<>> /\ got' = got /\ UNCHANGED <<kind, off, pending, pc, full, failed>>
  BY DEF AnswerIInv, PeerLeaves, file, marks
<1>2. got \in Seq(AnyCell) /\ flight \in Seq(AnyCell) /\ SendRoom \in Nat
  BY <1>1, HeadsFit DEF Types
<1> HIDE DEF AnyCell
<1>3. Sent' = got
  <2>1. Sent' = got \o <<>>
    BY <1>1 DEF Sent
  <2>. QED BY <1>2, <2>1, ConcatEmptySeq
<1>4. Types'
  <2>1. flight' \in Seq(AnyCell) /\ Len(flight') = 0
    BY <1>1, EmptySeq
  <2>2. Len(flight') <= SendRoom
    BY <1>2, <2>1
  <2>. QED BY <1>1, <1>2, <2>1, <2>2 DEF Types
<1>5. Len(Sent) = Len(got) + Len(flight) /\ Len(got) \in Nat /\ Len(flight) \in Nat /\ \A j \in 1..Len(got) : Sent[j] = got[j]
  BY <1>2, Joined DEF Sent
<1>6. pc = "route" => Sent' = <<>>
  <2> SUFFICES ASSUME pc = "route" PROVE got = <<>>
    BY <1>3
  <2>1. Sent = <<>> /\ Len(<<>>) = 0
    BY DEF AnswerIInv
  <2>2. Len(got) = 0
    BY <1>5, <2>1
  <2>. QED BY <1>2, <2>2, EmptySeq
<1>7. Right /\ kind \in Kinds => Right'
  <2> SUFFICES ASSUME Right, kind \in Kinds PROVE Right'
    OBVIOUS
  <2>1. Len(Sent) <= Len(Meant(kind)) /\ \A j \in 1..Len(Sent) : Sent[j] = Meant(kind)[j]
    BY DEF Right
  <2>2. Len(Meant(kind)) \in Nat
    <3>1. Meant(kind) \in Seq(AnyCell)
      BY MeantOf
    <3>. QED BY <3>1
  <2> HIDE DEF Sent
  <2>3. Len(got) <= Len(Meant(kind)) /\ \A j \in 1..Len(got) : got[j] = Meant(kind)[j]
    BY <1>5, <2>1, <2>2
  <2>. QED BY <1>1, <1>3, <2>3 DEF Right
<1>8. pc # "route" => kind \in Kinds /\ (kind # "video" => Right)
  BY <1>1 DEF AnswerIInv, Short, Whole
<1>9. pc = "route" => off = 0 /\ ~full
  BY DEF AnswerIInv
<1> HIDE DEF Sent
<1>. QED BY <1>1, <1>4, <1>6, <1>7, <1>8, <1>9 DEF AnswerIInv

\* Nothing happens.
LEMMA StutterAnswer == AnswerIInv /\ UNCHANGED vars => AnswerIInv'
<1> SUFFICES ASSUME AnswerIInv, UNCHANGED vars PROVE AnswerIInv'
  OBVIOUS
<1>1. UNCHANGED <<kind, off, pending, pc, flight, got, gone, full, failed>>
  BY DEF vars, file, wire, marks
<1>2. Sent' = Sent
  BY <1>1 DEF Sent
<1>3. Types => Types'
  BY <1>1 DEF Types
<1> HIDE DEF Sent, Types, Places
<1>4. Right => Right'
  BY <1>1, <1>2 DEF Right
<1>5. Short => Short'
  BY <1>1, <1>4 DEF Short
<1>6. Whole => Whole'
  <2>1. \A e \in Nat : Target(e) => Target(e)'
    BY <1>1 DEF Target, Read
  <2>2. \A e \in Nat : Due(e) => Due(e)'
    <3>1. \A e \in Nat : Due(e)' <=> Places(kind, pending, Len(Sent), e)
      BY <1>1, <1>2 DEF Due
    <3>. QED BY <3>1 DEF Due
  <2>3. Target(Len(Sent)) => Target(Len(Sent))'
    BY <1>1, <1>2 DEF Target, Read
  <2>4. Ended => Ended'
    <3> HIDE DEF Given
    <3>. QED BY <1>1, <1>2 DEF Ended
  <2>. QED BY <1>1, <1>2, <1>4, <2>1, <2>2, <2>3, <2>4 DEF Whole
<1>. QED BY <1>1, <1>2, <1>3, <1>4, <1>5, <1>6 DEF AnswerIInv

-----------------------------------------------------------------------------
(* Theorems *)

\* The invariant holds in every state.
LEMMA AnswerInvariant == Spec => []AnswerIInv
<1>1. AnswerIInv /\ [Next]_vars => AnswerIInv'
  BY RouteAnswer, WriteAnswer, VanishAnswer, WrittenAnswer, SendFileAnswer, FileEndAnswer, ChunkAnswer,
     VideoEndAnswer, LastAnswer, DrainAnswer, LeaveAnswer, StutterAnswer
  DEF Next, Server
<1>. QED BY <1>1, InitAnswer, PTL DEF Spec

\* What a peer receives of an answer with a length is the answer's start, for
\* every file, socket and pace of the peer (requests.c write_response and
\* sendfile, whose results nobody looks at).
THEOREM NoGapsLeft == Spec => []NoGaps
<1>1. AnswerIInv => NoGaps
  <2> SUFFICES ASSUME AnswerIInv, kind \in Kinds \ {"video"} PROVE IsPrefix(Sent, Meant(kind))
    BY DEF NoGaps, Sent
  <2>1. Sent \in Seq(AnyCell) /\ Len(Sent) \in Nat /\ Meant(kind) \in Seq(AnyCell)
    BY SentOf, MeantOf DEF AnswerIInv
  <2>2. Len(Sent) <= Len(Meant(kind)) /\ \A j \in 1..Len(Sent) : Sent[j] = Meant(kind)[j]
    <3>1. CASE pc = "route"
      <4>1. Sent = <<>> /\ Len(<<>>) = 0 /\ 1..0 = {}
        BY <3>1 DEF AnswerIInv
      <4>2. Len(Meant(kind)) \in Nat
        BY <2>1
      <4> HIDE DEF Sent
      <4>. QED BY <4>1, <4>2
    <3>2. CASE pc # "route"
      BY <3>2 DEF AnswerIInv, Right, Short, Whole
    <3>. QED BY <3>1, <3>2
  <2> DEFINE n == Len(Sent)
             s == SubSeq(Sent, 1, n)
             t == SubSeq(Meant(kind), 1, n)
  <2>3. n \in 0..Len(Sent) /\ n \in 0..Len(Meant(kind))
    BY <2>1, <2>2
  <2> HIDE DEF AnyCell, Sent, n
  <2>4. s \in Seq(AnyCell) /\ Len(s) = n /\ \A j \in 1..n : s[j] = Sent[j]
    BY <2>1, <2>3, StartOf
  <2>5. t \in Seq(AnyCell) /\ Len(t) = n /\ \A j \in 1..n : t[j] = Meant(kind)[j]
    BY <2>1, <2>3, StartOf
  <2>6. \A j \in 1..n : Sent[j] = Meant(kind)[j]
    BY <2>2 DEF n
  <2> HIDE DEF s, t
  <2>7. s = t
    BY <2>4, <2>5, <2>6, SeqEqual
  <2>. QED BY <2>2, <2>7 DEF IsPrefix, n, s, t
<1>. QED BY <1>1, AnswerInvariant, PTL

\* An answer that is closed is all that the file gave, framed, and all of the
\* file unless it gave out; if not, a call met a full socket or the peer had
\* left (requests.c write_response, handle_get and chunk).
THEOREM ClosedShortOnlyWhenFull == Spec => []CutOnlyWhenFull
<1>1. AnswerIInv => CutOnlyWhenFull
  <2> SUFFICES ASSUME AnswerIInv, pc = "closed", ~full, ~gone PROVE Ended
    BY DEF CutOnlyWhenFull, Sent, Ended
  <2>. QED BY DEF AnswerIInv, Whole
<1>. QED BY <1>1, AnswerInvariant, PTL
=============================================================================
