------------------------ MODULE PagedSnapshotProofs ------------------------
(***************************************************************************)
(* Proofs about PagedSnapshot, for all records, lengths and orders of the  *)
(* iteration: pages keep their payloads apart, a snapshot that succeeds is *)
(* the table, one cut short still loads, and only a record longer than a   *)
(* page makes it fail by itself.                                           *)
(***************************************************************************)
EXTENDS PagedSnapshot, FiniteSetTheorems, TLAPS

-----------------------------------------------------------------------------
(* The inductive invariant *)

\* The records of the first n pages of the file.
Filed(f, n) == UNION {DOMAIN f[p] : p \in 1..n}

\* Every buffer there can be.
Pages == UNION {[D -> Nat] : D \in SUBSET Records}

Types ==
  /\ table \subseteq Records /\ todo \subseteq table /\ page \in Pages
  /\ file \in Seq(Pages) /\ diskCount \in Nat /\ count \in Nat
  /\ pc \in {"open", "fill", "sync", "ok", "failed"}

\* The page being filled is the last of the file, and the superblock on disk
\* may lag behind the one in memory but is never ahead of the file.
Layout ==
  /\ pc = "open" => file = <<>> /\ diskCount = 0 /\ pid = 0
  /\ pc \notin {"open", "failed"} => count = Len(file) + 1 /\ pid = Len(file)
  /\ diskCount <= Len(file) + 1

\* Every entry is still to come, in the buffer, or in a page before the last
\* one; at the end all are in the file.
Contents ==
  /\ pc \in {"open", "fill"} =>
       IF pid = 0 THEN todo = table
       ELSE table = todo \cup DOMAIN page \cup Filed(file, pid - 1)
  /\ pc \in {"sync", "ok"} => table = Filed(file, Len(file))

\* Between the slots of a page and its payloads lies the gap from start to end.
Packed(R, start, end) ==
  /\ IsFiniteSet(DOMAIN R) /\ start = HeaderBytes + Cardinality(DOMAIN R) * SlotBytes
  /\ end \in Nat /\ start <= end /\ end <= PageSize
  /\ \A r \in DOMAIN R :
       /\ end <= R[r] /\ R[r] + RecLen[r] <= PageSize
       /\ \A s \in DOMAIN R \ {r} : R[r] + RecLen[r] <= R[s] \/ R[s] + RecLen[s] <= R[r]

\* The buffer has a gap, none of its records is still to come, and all pages
\* written can be read.
Room ==
  /\ IF pid = 0 THEN page = NoSlots
     ELSE Packed(page, freeStart, freeEnd) /\ todo \cap DOMAIN page = {}
  /\ \A p \in DOMAIN file : Readable(file[p])

PagedIInv == Types /\ Layout /\ Contents /\ Room /\ FailsOnlyForLength

\* What a page written back and one put behind it make of the file.
LEMMA FiledAppend ==
  ASSUME NEW f \in Seq(Pages), NEW R \in Pages, NEW n \in 0..Len(f)
  PROVE  /\ Append(f, R) \in Seq(Pages) /\ Len(Append(f, R)) = Len(f) + 1
         /\ Filed(Append(f, R), n) = Filed(f, n)
<1> DEFINE g == Append(f, R)
<1>1. g \in Seq(Pages) /\ Len(g) = Len(f) + 1 /\ \A p \in 1..Len(f) : g[p] = f[p]
  OBVIOUS
<1> HIDE DEF g
<1>2. \A p \in 1..n : g[p] = f[p]
  BY <1>1
<1>3. {DOMAIN g[p] : p \in 1..n} = {DOMAIN f[p] : p \in 1..n}
  BY <1>2
<1>. QED BY <1>1, <1>3 DEF Filed, g

\* Writing the last page back adds its records to those of the pages before,
\* and leaves a file that can be read if that page can.
LEMMA FiledWritten ==
  ASSUME file \in Seq(Pages), NEW R \in Pages, Len(file) # 0
  PROVE  /\ Written(Len(file), R) \in Seq(Pages) /\ Len(Written(Len(file), R)) = Len(file)
         /\ Filed(Written(Len(file), R), Len(file)) = Filed(file, Len(file) - 1) \cup DOMAIN R
         /\ (\A p \in DOMAIN file : Readable(file[p])) /\ Readable(R) =>
              \A p \in DOMAIN Written(Len(file), R) : Readable(Written(Len(file), R)[p])
<1> DEFINE n == Len(file)
           g == Written(n, R)
<1>1. n \in Nat \ {0}
  OBVIOUS
<1>2. g = [file EXCEPT ![n] = R]
  BY <1>1 DEF Written
<1>3. /\ g \in Seq(Pages) /\ Len(g) = n /\ g[n] = R /\ DOMAIN g = 1..n /\ DOMAIN file = 1..n
      /\ \A p \in 1..n : p # n => g[p] = file[p]
  BY <1>1, <1>2
<1> HIDE DEF n, g
<1>4. 1..n = 1..(n - 1) \cup {n}
  BY <1>1
<1>5. \A p \in 1..(n - 1) : g[p] = file[p]
  BY <1>1, <1>3
<1>6. \A x : x \in Filed(g, n) <=> x \in Filed(file, n - 1) \cup DOMAIN R
  BY <1>3, <1>4, <1>5 DEF Filed
<1>7. Filed(g, n) = Filed(file, n - 1) \cup DOMAIN R
  BY <1>6
<1>8. (\A p \in DOMAIN file : Readable(file[p])) /\ Readable(R) => \A p \in DOMAIN g : Readable(g[p])
  BY <1>3
<1>. QED BY <1>3, <1>7, <1>8 DEF n, g

\* The sum of page_try_insert does not wrap for a record that has a length.
LEMMA FitsMeans ==
  ASSUME NEW r \in Records, NEW s \in Nat, NEW e \in Nat
  PROVE  Fits(RecLen[r], s, e) <=> s + SlotBytes + RecLen[r] <= e
<1>1. RecLen[r] \in Nat /\ RecLen[r] < Word - SlotBytes
  BY SnapshotAssumption
<1>2. (SlotBytes + RecLen[r]) % Word = SlotBytes + RecLen[r]
  BY <1>1 DEF SlotBytes, Word
<1>. QED BY <1>1, <1>2 DEF Fits, SlotBytes

\* An empty page is packed: nothing is in it yet but its header.
LEMMA EmptyPage == NoSlots \in Pages /\ DOMAIN NoSlots = {} /\ Packed(NoSlots, HeaderBytes, PageSize) /\ Readable(NoSlots)
<1>1. DOMAIN NoSlots = {} /\ NoSlots \in [{} -> Nat]
  BY DEF NoSlots
<1>2. NoSlots \in Pages
  BY <1>1 DEF Pages
<1>3. IsFiniteSet({}) /\ Cardinality({}) = 0
  BY FS_EmptySet
<1>. QED BY <1>1, <1>2, <1>3 DEF Packed, Readable, HeaderBytes, SlotBytes, PageSize

\* What is packed can be read back.
LEMMA PackedReads ==
  ASSUME NEW R \in Pages, NEW start \in Nat, NEW end \in Nat, Packed(R, start, end)
  PROVE  Readable(R)
<1>1. \A r \in DOMAIN R : R[r] \in Nat
  BY DEF Pages
<1>2. Cardinality(DOMAIN R) \in Nat
  BY FS_CardinalityType DEF Packed
<1>. QED BY <1>1, <1>2 DEF Packed, Readable, HeaderBytes, SlotBytes

\* page_try_insert of a record that fits keeps the page packed: the payload
\* comes to lie before all others and behind the slot it takes.
LEMMA Inserts ==
  ASSUME NEW R \in Pages, NEW start \in Nat, NEW end \in Nat, Packed(R, start, end),
         NEW r \in Records, r \notin DOMAIN R, Fits(RecLen[r], start, end), Insert(r, start, end, R)
  PROVE  /\ page' \in Pages /\ DOMAIN page' = DOMAIN R \cup {r}
         /\ Packed(page', freeStart', freeEnd')
<1> DEFINE D == DOMAIN R
           at == end - RecLen[r]
           n == Cardinality(D)
<1>1. RecLen[r] \in Nat /\ start + SlotBytes + RecLen[r] <= end /\ end <= PageSize
  BY SnapshotAssumption, FitsMeans DEF Packed
<1>2. at \in Nat /\ at < Word /\ at % Word = at
  BY <1>1 DEF SlotBytes, PageSize, Word
<1>3. /\ freeStart' = start + SlotBytes /\ freeEnd' = at
      /\ page' = [s \in D \cup {r} |-> IF s = r THEN at ELSE R[s]]
  BY <1>2 DEF Insert
<1>4. D \subseteq Records /\ \A s \in D : R[s] \in Nat
  BY DEF Pages
<1> HIDE DEF at, D, n
<1>5. DOMAIN page' = D \cup {r} /\ page'[r] = at /\ \A s \in D : page'[s] = R[s]
  BY <1>3, r \notin DOMAIN R DEF D
<1>6. page' \in Pages
  <2>1. page' \in [D \cup {r} -> Nat] /\ D \cup {r} \in SUBSET Records
    BY <1>2, <1>3, <1>4
  <2>. QED BY <2>1 DEF Pages
<1>7. IsFiniteSet(D \cup {r}) /\ Cardinality(D \cup {r}) = n + 1 /\ n \in Nat
  BY FS_AddElement, FS_CardinalityType DEF Packed, D, n
<1>8. freeStart' = HeaderBytes + (n + 1) * SlotBytes
  <2>1. start = HeaderBytes + n * SlotBytes
    BY DEF Packed, D, n
  <2>. QED BY <1>3, <1>7, <2>1 DEF HeaderBytes, SlotBytes
<1>9. freeStart' <= at /\ at <= PageSize /\ at + RecLen[r] = end /\ at <= end
  BY <1>1, <1>3 DEF SlotBytes, PageSize, at
<1>10. \A s \in D : /\ end <= R[s] /\ R[s] + RecLen[s] <= PageSize
                    /\ \A t \in D \ {s} : R[s] + RecLen[s] <= R[t] \/ R[t] + RecLen[t] <= R[s]
  BY DEF Packed, D
<1>11. ASSUME NEW s \in D \cup {r}
       PROVE  /\ at <= page'[s] /\ page'[s] + RecLen[s] <= PageSize
              /\ \A t \in (D \cup {r}) \ {s} :
                   page'[s] + RecLen[s] <= page'[t] \/ page'[t] + RecLen[t] <= page'[s]
  <2>1. CASE s = r
    <3>1. \A t \in (D \cup {r}) \ {s} : page'[t] = R[t] /\ end <= R[t]
      BY <1>5, <1>10, <2>1
    <3>. QED BY <1>1, <1>2, <1>5, <1>9, <2>1, <3>1
  <2>2. CASE s # r
    <3>1. s \in D /\ page'[s] = R[s] /\ R[s] \in Nat /\ end <= R[s] /\ R[s] + RecLen[s] <= PageSize
      BY <1>4, <1>5, <1>10, <2>2
    <3>2. page'[r] + RecLen[r] <= page'[s]
      BY <1>5, <1>9, <3>1
    <3>3. \A t \in D \ {s} : page'[t] = R[t] /\ (R[s] + RecLen[s] <= R[t] \/ R[t] + RecLen[t] <= R[s])
      BY <1>5, <1>10, <3>1
    <3>4. at <= page'[s]
      BY <1>2, <1>9, <3>1
    <3>. QED BY <3>1, <3>2, <3>3, <3>4
  <2>. QED BY <2>1, <2>2
<1>12. Packed(page', freeStart', freeEnd')
  BY <1>2, <1>3, <1>5, <1>7, <1>8, <1>9, <1>11 DEF Packed
<1>. QED BY <1>5, <1>6, <1>12 DEF D

\* The gap begins and ends at bytes of the page.
LEMMA GapIsNumbers ==
  ASSUME NEW R, NEW start, NEW end, Packed(R, start, end)
  PROVE  start \in Nat /\ end \in Nat
<1>1. Cardinality(DOMAIN R) \in Nat
  BY FS_CardinalityType DEF Packed
<1>. QED BY <1>1 DEF Packed, HeaderBytes, SlotBytes

\* The first record of a page leaves it packed.
LEMMA InsertsFirst ==
  ASSUME NEW r \in Records, Fits(RecLen[r], HeaderBytes, PageSize),
         Insert(r, HeaderBytes, PageSize, NoSlots)
  PROVE  page' \in Pages /\ DOMAIN page' = {r} /\ Packed(page', freeStart', freeEnd')
<1>1. HeaderBytes \in Nat /\ PageSize \in Nat
  BY DEF HeaderBytes, PageSize
<1>2. NoSlots \in Pages /\ r \notin DOMAIN NoSlots /\ Packed(NoSlots, HeaderBytes, PageSize)
  BY EmptyPage
<1>3. /\ page' \in Pages /\ DOMAIN page' = DOMAIN NoSlots \cup {r}
      /\ Packed(page', freeStart', freeEnd')
  BY <1>1, <1>2, Inserts
<1>. QED BY <1>3, EmptyPage

\* Nothing is written yet.
LEMMA PagedInit == Init => PagedIInv
<1> SUFFICES ASSUME Init PROVE PagedIInv
  OBVIOUS
<1>1. NoSlots \in Pages /\ <<>> \in Seq(Pages) /\ DOMAIN <<>> = {} /\ Len(<<>>) = 0
  BY EmptyPage
<1>. QED BY <1>1 DEF Init, PagedIInv, Types, Layout, Contents, Room, FailsOnlyForLength

\* Allocate puts an empty page behind the file; the superblock on disk is the
\* new one or, after an ignored error, the one that was there.
LEMMA Allocates ==
  ASSUME NEW f \in Seq(Pages), Allocate(f), Len(f) = Len(file),
         count = Len(file) + 1, diskCount \in Nat, diskCount <= count,
         \A p \in DOMAIN f : Readable(f[p])
  PROVE  /\ pid' = Len(file') /\ count' = Len(file') + 1 /\ diskCount' <= count' /\ diskCount' \in Nat
         /\ count' \in Nat /\ file' \in Seq(Pages) /\ pid' = Len(f) + 1
         /\ Filed(file', Len(f)) = Filed(f, Len(f))
         /\ \A p \in DOMAIN file' : Readable(file'[p])
<1>1. pid' = count /\ count' = count + 1 /\ file' = Append(f, NoSlots) /\ diskCount' \in {diskCount, count + 1}
  BY DEF Allocate
<1>2. Len(f) \in 0..Len(f) /\ NoSlots \in Pages /\ Readable(NoSlots) /\ Len(f) \in Nat
  BY EmptyPage
<1>3. /\ file' \in Seq(Pages) /\ Len(file') = Len(f) + 1
      /\ Filed(file', Len(f)) = Filed(f, Len(f))
  BY <1>1, <1>2, FiledAppend
<1>4. \A p \in DOMAIN file' : file'[p] = NoSlots \/ (p \in DOMAIN f /\ file'[p] = f[p])
  BY <1>1, <1>2
<1>. QED BY <1>1, <1>2, <1>3, <1>4

\* The first record goes into an empty page put behind an empty file.
LEMMA FirstPageStep ==
  ASSUME PagedIInv, NEW r \in Records, AddToFirstPage(r)
  PROVE  PagedIInv'
<1>1. /\ pc = "fill" /\ pc' = "fill" /\ r \in todo /\ pid = 0 /\ todo' = todo \ {r}
      /\ Fits(RecLen[r], HeaderBytes, PageSize) /\ Insert(r, HeaderBytes, PageSize, NoSlots)
      /\ Allocate(file) /\ table' = table
  BY DEF AddToFirstPage, given
<1>2. /\ file \in Seq(Pages) /\ diskCount \in Nat /\ count = Len(file) + 1 /\ diskCount <= count
      /\ Len(file) = 0 /\ todo = table /\ table \subseteq Records
      /\ \A p \in DOMAIN file : Readable(file[p])
  BY <1>1 DEF PagedIInv, Types, Layout, Contents, Room
<1>3. /\ pid' = Len(file') /\ count' = Len(file') + 1 /\ diskCount' <= count' /\ diskCount' \in Nat
      /\ count' \in Nat /\ file' \in Seq(Pages) /\ pid' = Len(file) + 1
      /\ \A p \in DOMAIN file' : Readable(file'[p])
  BY <1>1, <1>2, Allocates, Zenon
<1>4. pid' = 1 /\ Filed(file', pid' - 1) = {}
  BY <1>2, <1>3 DEF Filed
<1>5. page' \in Pages /\ DOMAIN page' = {r} /\ Packed(page', freeStart', freeEnd')
  BY <1>1, InsertsFirst
<1>6. Contents'
  BY <1>1, <1>2, <1>3, <1>4, <1>5 DEF Contents
<1>7. Room'
  BY <1>1, <1>3, <1>4, <1>5 DEF Room
<1>. QED BY <1>1, <1>2, <1>3, <1>5, <1>6, <1>7 DEF PagedIInv, Types, Layout, FailsOnlyForLength

\* The full page joins the pages before it, the new one is empty on disk.
LEMMA NextPageStep ==
  ASSUME PagedIInv, NEW r \in Records, AddToNextPage(r)
  PROVE  PagedIInv'
<1> DEFINE f == Written(pid, page)
<1>1. /\ pc = "fill" /\ pc' = "fill" /\ r \in todo /\ pid # 0 /\ todo' = todo \ {r}
      /\ Fits(RecLen[r], HeaderBytes, PageSize) /\ Insert(r, HeaderBytes, PageSize, NoSlots)
      /\ Allocate(f) /\ table' = table
  BY DEF AddToNextPage, given
<1>2. /\ file \in Seq(Pages) /\ diskCount \in Nat /\ count = Len(file) + 1 /\ diskCount <= count
      /\ pid = Len(file) /\ page \in Pages /\ table \subseteq Records /\ todo \subseteq table
      /\ table = todo \cup DOMAIN page \cup Filed(file, pid - 1)
      /\ Packed(page, freeStart, freeEnd) /\ \A p \in DOMAIN file : Readable(file[p])
  BY <1>1 DEF PagedIInv, Types, Layout, Contents, Room
<1>3. Readable(page)
  BY <1>2, GapIsNumbers, PackedReads
<1>4. /\ f \in Seq(Pages) /\ Len(f) = Len(file) /\ \A p \in DOMAIN f : Readable(f[p])
      /\ Filed(f, Len(file)) = Filed(file, Len(file) - 1) \cup DOMAIN page
  BY <1>1, <1>2, <1>3, FiledWritten
<1> HIDE DEF f
<1>5. /\ pid' = Len(file') /\ count' = Len(file') + 1 /\ diskCount' <= count' /\ diskCount' \in Nat
      /\ count' \in Nat /\ file' \in Seq(Pages) /\ pid' = Len(f) + 1
      /\ Filed(file', Len(f)) = Filed(f, Len(f))
      /\ \A p \in DOMAIN file' : Readable(file'[p])
  BY <1>1, <1>2, <1>4, Allocates
<1>6. page' \in Pages /\ DOMAIN page' = {r} /\ Packed(page', freeStart', freeEnd')
  BY <1>1, InsertsFirst
<1>7. pid' # 0 /\ pid' - 1 = Len(f)
  BY <1>4, <1>5
<1>8. Filed(file', pid' - 1) = Filed(file, pid - 1) \cup DOMAIN page
  BY <1>2, <1>4, <1>5, <1>7
<1>9. table' = todo' \cup DOMAIN page' \cup Filed(file', pid' - 1)
  BY <1>1, <1>2, <1>6, <1>8
<1>10. Contents'
  BY <1>1, <1>7, <1>9 DEF Contents
<1>11. Room'
  BY <1>1, <1>5, <1>6, <1>7 DEF Room
<1>. QED BY <1>1, <1>2, <1>5, <1>6, <1>10, <1>11 DEF PagedIInv, Types, Layout, FailsOnlyForLength

\* A record that fits only changes the buffer.
LEMMA SamePageStep ==
  ASSUME PagedIInv, NEW r \in Records, AddToPage(r)
  PROVE  PagedIInv'
<1>1. /\ pc = "fill" /\ pc' = "fill" /\ r \in todo /\ pid # 0 /\ todo' = todo \ {r}
      /\ Fits(RecLen[r], freeStart, freeEnd) /\ Insert(r, freeStart, freeEnd, page)
      /\ UNCHANGED <<table, file, diskCount, count, pid>>
  BY DEF AddToPage, given
<1>2. /\ table = todo \cup DOMAIN page \cup Filed(file, pid - 1) /\ page \in Pages
      /\ Packed(page, freeStart, freeEnd) /\ todo \cap DOMAIN page = {}
  BY <1>1 DEF PagedIInv, Types, Contents, Room
<1>3. page' \in Pages /\ DOMAIN page' = DOMAIN page \cup {r} /\ Packed(page', freeStart', freeEnd')
  <2>1. r \notin DOMAIN page /\ freeStart \in Nat /\ freeEnd \in Nat
    BY <1>1, <1>2, GapIsNumbers
  <2>. QED BY <1>1, <1>2, <2>1, Inserts
<1>4. Contents'
  BY <1>1, <1>2, <1>3 DEF Contents
<1>5. Room'
  BY <1>1, <1>2, <1>3 DEF PagedIInv, Room
<1>. QED BY <1>1, <1>3, <1>4, <1>5 DEF PagedIInv, Types, Layout, FailsOnlyForLength

\* The last page joins the others, and the file is the table.
LEMMA FlushStep ==
  ASSUME PagedIInv, Flush
  PROVE  PagedIInv'
<1>1. /\ pc = "fill" /\ pc' = "sync" /\ todo = {}
      /\ file' = IF pid = 0 THEN file ELSE Written(pid, page)
      /\ UNCHANGED <<table, diskCount, count, pid, page, freeStart, freeEnd, todo>>
  BY DEF Flush, given, buffer
<1>2. /\ file \in Seq(Pages) /\ pid = Len(file) /\ page \in Pages
      /\ \A p \in DOMAIN file : Readable(file[p])
      /\ pid # 0 => Packed(page, freeStart, freeEnd)
  BY <1>1 DEF PagedIInv, Types, Layout, Room
<1>3. pid # 0 => Readable(page)
  BY <1>2, GapIsNumbers, PackedReads
<1>4. file' \in Seq(Pages) /\ Len(file') = Len(file) /\ \A p \in DOMAIN file' : Readable(file'[p])
  BY <1>1, <1>2, <1>3, FiledWritten
<1>5. table = Filed(file', Len(file'))
  <2>1. CASE pid = 0
    <3>1. table = {}
      BY <1>1, <2>1 DEF PagedIInv, Contents
    <3>2. Len(file') = 0
      BY <1>2, <1>4, <2>1
    <3>. QED BY <3>1, <3>2 DEF Filed
  <2>2. CASE pid # 0
    <3>1. table = todo \cup DOMAIN page \cup Filed(file, pid - 1)
      BY <1>1, <2>2 DEF PagedIInv, Contents
    <3>2. Filed(file', Len(file)) = Filed(file, Len(file) - 1) \cup DOMAIN page
      BY <1>1, <1>2, <2>2, FiledWritten
    <3>. QED BY <1>1, <1>2, <1>4, <3>1, <3>2
  <2>. QED BY <2>1, <2>2
<1>6. Contents'
  BY <1>1, <1>5 DEF Contents
<1>7. Room'
  BY <1>1, <1>4 DEF PagedIInv, Room
<1>. QED BY <1>1, <1>2, <1>4, <1>6, <1>7 DEF PagedIInv, Types, Layout, FailsOnlyForLength

\* Every action keeps the invariant.
LEMMA PagedStep == PagedIInv /\ [Next]_vars => PagedIInv'
<1> SUFFICES ASSUME PagedIInv, [Next]_vars PROVE PagedIInv'
  OBVIOUS
<1>1. CASE UNCHANGED vars
  BY <1>1 DEF vars, given, buffer, PagedIInv, Types, Layout, Contents, Room, FailsOnlyForLength
<1>2. CASE PfOpen
  BY <1>2 DEF PfOpen, given, buffer, PagedIInv, Types, Layout, Contents, Room, FailsOnlyForLength
<1>3. CASE CallFails
  BY <1>3 DEF CallFails, given, buffer, PagedIInv, Types, Layout, Contents, Room, FailsOnlyForLength
<1>4. CASE Sync
  BY <1>4 DEF Sync, given, buffer, PagedIInv, Types, Layout, Contents, Room, FailsOnlyForLength
<1>5. ASSUME NEW r \in Records, TooLong(r) PROVE PagedIInv'
  <2>1. /\ pc = "fill" /\ pc' = "failed" /\ r \in todo /\ ~Fits(RecLen[r], HeaderBytes, PageSize)
        /\ UNCHANGED <<table, ioFails, file, diskCount, count, pid, page, freeStart, freeEnd, todo>>
    BY <1>5 DEF TooLong, given, buffer
  <2>2. HeaderBytes \in Nat /\ PageSize \in Nat
    BY DEF HeaderBytes, PageSize
  <2>3. RecLen[r] \in Nat
    BY SnapshotAssumption
  <2>4. HeaderBytes + SlotBytes + RecLen[r] > PageSize
    BY <2>1, <2>2, <2>3, FitsMeans DEF HeaderBytes, PageSize, SlotBytes
  <2>5. r \in table'
    BY <2>1 DEF PagedIInv, Types
  <2>6. FailsOnlyForLength'
    BY <2>4, <2>5 DEF FailsOnlyForLength
  <2>. QED BY <2>1, <2>6 DEF PagedIInv, Types, Layout, Contents, Room
<1>. QED BY <1>1, <1>2, <1>3, <1>4, <1>5, FirstPageStep, SamePageStep, NextPageStep, FlushStep DEF Next

\* So it holds in every reachable state.
LEMMA PagedAlways == Spec => []PagedIInv
BY PagedInit, PagedStep, PTL DEF Spec

-----------------------------------------------------------------------------
\* Every page in memory or on disk can be read back, for all lengths and every
\* order in which records come: page_try_insert never lets a payload touch
\* another one or a slot, and its 16 bit positions never wrap.
THEOREM PagesAreReadable == Spec => []PagesHold
<1>1. PagedIInv => PagesHold
  <2> SUFFICES ASSUME PagedIInv PROVE PagesHold
    OBVIOUS
  <2>1. Readable(page)
    <3>1. CASE pid = 0
      BY <3>1, EmptyPage DEF PagedIInv, Room
    <3>2. CASE pid # 0
      BY <3>2, GapIsNumbers, PackedReads DEF PagedIInv, Types, Room
    <3>. QED BY <3>1, <3>2
  <2>. QED BY <2>1 DEF PagedIInv, Room, PagesHold
<1>. QED BY <1>1, PagedAlways, PTL

\* A snapshot that reports success loads as part of the table, and as all of
\* it if its last superblock reached the disk: no page is lost, doubled or
\* left empty.
THEOREM SnapshotsAreTables == Spec => []SnapshotComplete
<1>1. PagedIInv => SnapshotComplete
  <2> SUFFICES ASSUME PagedIInv, pc = "ok"
               PROVE  ~LoadFails /\ Loaded \subseteq table /\ (diskCount = count => Loaded = table)
    BY DEF SnapshotComplete
  <2>1. /\ count = Len(file) + 1 /\ Len(file) \in Nat /\ table = Filed(file, Len(file))
        /\ diskCount \in Nat /\ diskCount <= Len(file) + 1
    BY DEF PagedIInv, Types, Layout, Contents
  <2>2. 1..(diskCount - 1) \subseteq 1..Len(file) /\ DOMAIN file = 1..Len(file)
    BY <2>1 DEF PagedIInv, Types
  <2>3. \A p \in 1..Len(file) : Readable(file[p])
    BY <2>2 DEF PagedIInv, Room
  <2>4. Loaded \subseteq table
    BY <2>1, <2>2 DEF Loaded, Filed
  <2>5. diskCount = count => diskCount - 1 = Len(file)
    BY <2>1
  <2>. QED BY <2>1, <2>2, <2>3, <2>4, <2>5 DEF LoadFails, Loaded, Filed
<1>. QED BY <1>1, PagedAlways, PTL

\* The superblock never counts a page that is not in the file or cannot be
\* read, however the snapshot is cut short: pf_alloc_page writes the page first.
THEOREM CutSnapshotsLoad == Spec => []AlwaysLoads
<1>1. PagedIInv => AlwaysLoads
  <2> SUFFICES ASSUME PagedIInv PROVE ~LoadFails
    BY DEF AlwaysLoads
  <2>1. diskCount <= Len(file) + 1 /\ diskCount \in Nat /\ DOMAIN file = 1..Len(file) /\ Len(file) \in Nat
    BY DEF PagedIInv, Types, Layout
  <2>2. \A p \in 1..(diskCount - 1) : p \in DOMAIN file
    BY <2>1
  <2>3. \A p \in 1..(diskCount - 1) : Readable(file[p])
    BY <2>2 DEF PagedIInv, Room
  <2>. QED BY <2>1, <2>3 DEF LoadFails
<1>. QED BY <1>1, PagedAlways, PTL

\* No table makes a snapshot fail by itself but one with a record longer than
\* the payload of a page: the 16 bit sum of page_try_insert refuses no other.
THEOREM OnlyLongRecordsFail == Spec => []FailsOnlyForLength
<1>1. PagedIInv => FailsOnlyForLength
  BY DEF PagedIInv
<1>. QED BY <1>1, PagedAlways, PTL
=============================================================================
