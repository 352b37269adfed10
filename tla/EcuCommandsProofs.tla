--------------------------- MODULE EcuCommandsProofs ---------------------------
(***************************************************************************)
(* Proofs about EcuCommands, for any tables, page sizes, requests and      *)
(* number of faults.                                                       *)
(*                                                                         *)
(* The argument: an answer on its way was computed from the pages as they  *)
(* are now, because a page changes only when a request is served, and a    *)
(* request is served only when no answer is on its way (InFlight).  While  *)
(* a write waits for its acknowledgement, the client does not trust the    *)
(* cells it is about, its image has the new bytes already, and once it was *)
(* served so have the pages, however often it is sent again (Pending).     *)
(***************************************************************************)
EXTENDS EcuCommands, SequenceTheorems, TLAPS

Page(t) == [1 .. Size(t) -> Byte]

(* A write of q that fits the page has left its bytes there.               *)
Lands(page, q) ==
  q.offset + Len(q.data) <= Len(page) =>
    \A i \in DOMAIN q.data : page[q.offset + i] = q.data[i]

Stores == /\ \A t \in DOMAIN pages : pages[t] \in Page(t)
          /\ DOMAIN image = Tables
          /\ \A t \in Tables : image[t] \in Page(t)
          /\ \A c \in trusted : c[2] <= Size(c[1])

InFlight == /\ line # None => line = asked /\ reply = None
            /\ reply # None => /\ asked # None
                               /\ \E outpc \in Outpc : reply = HandleRequest(asked, outpc)

Pending == asked # None /\ asked.cmd = "w" =>
              /\ trusted \cap Cells(asked) = {}
              /\ Lands(image[asked.table], asked)
              /\ reply # None => /\ asked.table \in DOMAIN pages
                                 /\ Lands(pages[asked.table], asked)

IInv == TypeOK /\ Stores /\ InFlight /\ Pending /\ TrustedIsStored

------------------------------------------------------------------------------
LEMMA SizeType ==
  ASSUME NEW t
  PROVE  Size(t) \in Nat /\ Size(t) >= 1 /\ Size(t) <= NewSize
BY SizesAssumption DEF Size

(* A request for a page.                                                   *)
LEMMA WriteType ==
  ASSUME NEW q \in Requests, q.cmd = "w"
  PROVE  /\ q.table \in Tables /\ q.offset \in Nat
         /\ q.data \in Seq(Byte) /\ q.count = Len(q.data)
BY RequestsAssumption DEF Requests, Request

LEMMA RangeType ==
  ASSUME NEW q \in Requests, q.cmd \in {"r", "k"}
  PROVE  q.offset \in Nat /\ q.count \in Nat
BY RequestsAssumption DEF Requests, Request

(* What a write leaves of a page of n cells.                               *)
LEMMA OverwrittenPage ==
  ASSUME NEW n \in Nat, NEW page \in [1 .. n -> Byte],
         NEW q, q.offset \in Nat, q.data \in Seq(Byte)
  PROVE  /\ Overwritten(page, q) \in [1 .. n -> Byte]
         /\ Lands(Overwritten(page, q), q)
         /\ \A i \in 1 .. n : i \notin q.offset + 1 .. q.offset + Len(q.data) =>
                                Overwritten(page, q)[i] = page[i]
<1>1. page \in Seq(Byte) /\ Len(page) = n /\ DOMAIN page = 1 .. n
  OBVIOUS
<1>2. Len(q.data) \in Nat /\ DOMAIN q.data = 1 .. Len(q.data)
      /\ \A i \in 1 .. Len(q.data) : q.data[i] \in Byte
  BY LenProperties, ElementOfSeq
<1>3. CASE q.offset + Len(q.data) > n
  <2>1. Overwritten(page, q) = page
    BY <1>1, <1>3 DEF Overwritten
  <2>2. QED
    BY <1>1, <1>2, <1>3, <2>1 DEF Lands
<1>4. CASE q.offset + Len(q.data) <= n
  <2>1. Overwritten(page, q) =
          [i \in 1 .. n |-> IF i - q.offset \in 1 .. Len(q.data) THEN q.data[i - q.offset]
                                                                ELSE page[i]]
    <3>1. ~ (q.offset + Len(q.data) > Len(page))
      BY <1>1, <1>2, <1>4
    <3>2. Overwritten(page, q) =
            [i \in DOMAIN page |-> IF i - q.offset \in DOMAIN q.data
                                     THEN q.data[i - q.offset] ELSE page[i]]
      BY <3>1, Zenon DEF Overwritten
    <3>3. QED
      BY <1>1, <1>2, <3>2, Zenon
  <2>2. Overwritten(page, q) \in [1 .. n -> Byte]
    BY <1>2, <2>1
  <2>3. \A i \in 1 .. n : i \notin q.offset + 1 .. q.offset + Len(q.data) =>
                            Overwritten(page, q)[i] = page[i]
    BY <1>2, <2>1
  <2>4. ASSUME NEW i \in DOMAIN q.data
        PROVE  Overwritten(page, q)[q.offset + i] = q.data[i]
    <3>1. i \in 1 .. Len(q.data) /\ q.offset + i \in 1 .. n /\ (q.offset + i) - q.offset = i
      BY <1>2, <1>4
    <3>2. QED
      BY <2>1, <3>1
  <2>5. QED
    BY <2>2, <2>3, <2>4 DEF Lands
<1>5. QED
  BY <1>1, <1>2, <1>3, <1>4

(* The cells of a slice that lies in the page.                             *)
LEMMA SliceCells ==
  ASSUME NEW n \in Nat, NEW page \in [1 .. n -> Byte],
         NEW offset \in Nat, NEW count \in Nat, offset + count <= n
  PROVE  /\ Slice(page, offset, count) \in Seq(Byte)
         /\ Len(Slice(page, offset, count)) = count
         /\ \A i \in 1 .. count : Slice(page, offset, count)[i] = page[offset + i]
<1>1. page \in Seq(Byte) /\ Len(page) = n
  OBVIOUS
<1>2. Slice(page, offset, count) = SubSeq(page, offset + 1, offset + count)
  BY <1>1 DEF Slice
<1>3. \A i \in offset + 1 .. offset + count : page[i] \in Byte
  BY <1>1
<1>4. QED
  BY <1>2, <1>3, SubSeqProperties

LEMMA ZerosType ==
  ASSUME NEW n \in Nat
  PROVE  /\ Zeros(n) \in [1 .. n -> Byte]
         /\ Len(Zeros(n)) = n
         /\ \A i \in 1 .. n : Zeros(n)[i] = 0
BY RequestsAssumption DEF Zeros

(* What a read or a checksum is about, in a page or where there is none.   *)
Part(q) == IF q.table \in DOMAIN pages THEN Slice(pages[q.table], q.offset, q.count)
                                       ELSE Zeros(q.count)

LEMMA AnswerToRead ==
  ASSUME NEW q, q.cmd = "r", q.table \notin Special, NEW outpc
  PROVE  HandleRequest(q, outpc).payload = Part(q)
BY DEF HandleRequest, CanRead, Response, Part, Special

LEMMA AnswerToCheck ==
  ASSUME NEW q, q.cmd = "k", NEW outpc
  PROVE  HandleRequest(q, outpc).payload = << Part(q) >>
BY DEF HandleRequest, CrcCheck, Response, Checksum, Part

LEMMA PartCells ==
  ASSUME Stores, NEW q, q.table \in Tables, q.offset \in Nat, q.count \in Nat,
         q.offset + q.count <= Size(q.table)
  PROVE  /\ Part(q) \in Seq(Byte)
         /\ Len(Part(q)) = q.count
         /\ \A i \in 1 .. q.count :
               Part(q)[i] = IF q.table \in DOMAIN pages THEN pages[q.table][q.offset + i] ELSE 0
<1>1. CASE q.table \in DOMAIN pages
  <2>1. pages[q.table] \in [1 .. Size(q.table) -> Byte]
    BY <1>1 DEF Stores, Page
  <2>2. Part(q) = Slice(pages[q.table], q.offset, q.count)
    BY <1>1, Zenon DEF Part
  <2>3. /\ Slice(pages[q.table], q.offset, q.count) \in Seq(Byte)
        /\ Len(Slice(pages[q.table], q.offset, q.count)) = q.count
        /\ \A i \in 1 .. q.count :
              Slice(pages[q.table], q.offset, q.count)[i] = pages[q.table][q.offset + i]
    BY <2>1, SizeType, SliceCells, ZenonT(60)
  <2>4. QED
    BY <1>1, <2>2, <2>3
<1>2. CASE q.table \notin DOMAIN pages
  <2>1. Part(q) = Zeros(q.count)
    BY <1>2, Zenon DEF Part
  <2>2. Zeros(q.count) \in [1 .. q.count -> Byte]
    BY ZerosType
  <2>3. Zeros(q.count) \in Seq(Byte)
    BY <2>2
  <2>4. QED
    BY <1>2, <2>1, <2>3, ZerosType, Zenon
<1>3. QED
  BY <1>1, <1>2
------------------------------------------------------------------------------
LEMMA InitInv == Init => IInv
<1> SUFFICES ASSUME Init PROVE IInv
  OBVIOUS
<1>1. \A t \in DOMAIN pages : pages[t] \in Page(t)
  BY DEF Init, Page, Size
<1>2. \A t \in Tables : image[t] \in Page(t)
  BY SizeType, ZerosType DEF Init, Page, Blank
<1>3. TypeOK
  <2>1. \A t \in DOMAIN pages : Len(pages[t]) = Size(t) /\ pages[t] \in Seq(Byte)
    BY <1>1, SizeType DEF Page
  <2>2. \A t \in Tables : Len(image[t]) = Size(t)
    BY <1>2, SizeType DEF Page
  <2>3. DOMAIN pages = Configured
    BY DEF Init
  <2>4. modified \in BOOLEAN /\ alive \in BOOLEAN
    BY Zenon DEF Init
  <2>5. faults \in 0 .. MaxFaults
    BY MaxFaultsAssumption DEF Init
  <2>6. asked \in Requests \cup {None} /\ line \in Requests \cup {None}
    BY Zenon DEF Init
  <2>7. Configured \subseteq DOMAIN pages /\ DOMAIN pages \subseteq Tables
        /\ trusted \subseteq Tables \X (1 .. NewSize)
    BY <2>3, Zenon DEF Init, Tables
  <2>8. QED
    BY <2>1, <2>2, <2>4, <2>5, <2>6, <2>7, Zenon DEF TypeOK
<1>4. Stores
  BY <1>1, <1>2 DEF Init, Stores
<1>5. QED
  BY <1>3, <1>4 DEF Init, IInv, InFlight, Pending, TrustedIsStored

(* Asking takes the cells of a write out of what is trusted.               *)
LEMMA AskInv == ASSUME IInv, NEW q \in Requests, Ask(q) PROVE IInv'
<1> USE DEF Ask
<1>1. CASE q.cmd = "w"
  <2>1. /\ q.table \in Tables /\ q.offset \in Nat
        /\ q.data \in Seq(Byte) /\ q.count = Len(q.data)
    BY <1>1, WriteType
  <2>2. /\ image' = [image EXCEPT ![q.table] = Overwritten(@, q)]
        /\ trusted' = trusted \ Cells(q)
    BY <1>1, <2>1
  <2>3. image[q.table] \in [1 .. Size(q.table) -> Byte] /\ DOMAIN image = Tables
    BY <2>1 DEF IInv, Stores, Page
  <2>4. /\ Overwritten(image[q.table], q) \in [1 .. Size(q.table) -> Byte]
        /\ Lands(Overwritten(image[q.table], q), q)
        /\ \A i \in 1 .. Size(q.table) : i \notin q.offset + 1 .. q.offset + Len(q.data) =>
              Overwritten(image[q.table], q)[i] = image[q.table][i]
    <3> DEFINE n    == Size(q.table)
               page == image[q.table]
    <3>1. n \in Nat /\ page \in [1 .. n -> Byte] /\ q.offset \in Nat /\ q.data \in Seq(Byte)
      BY <2>1, <2>3, SizeType
    <3> HIDE DEF n, page
    <3>2. /\ Overwritten(page, q) \in [1 .. n -> Byte]
          /\ Lands(Overwritten(page, q), q)
          /\ \A i \in 1 .. n : i \notin q.offset + 1 .. q.offset + Len(q.data) =>
                Overwritten(page, q)[i] = page[i]
      BY <3>1, OverwrittenPage
    <3>3. QED
      BY <3>2 DEF n, page
  <2>5. /\ DOMAIN image' = Tables
        /\ image'[q.table] = Overwritten(image[q.table], q)
        /\ \A t \in Tables \ {q.table} : image'[t] = image[t]
    BY <2>1, <2>2, <2>3
  <2>6. \A t \in Tables : image'[t] \in Page(t)
    BY <2>4, <2>5 DEF IInv, Stores, Page
  <2>7. Stores'
    BY <2>2, <2>5, <2>6 DEF IInv, Stores, Page, Size
  <2>8. TypeOK'
    <3>1. \A t \in Tables : Len(image'[t]) = Size(t)
      BY <2>6, SizeType DEF Page
    <3>2. QED
      BY <2>2, <3>1 DEF IInv, TypeOK, Size
  <2>9. TrustedIsStored'
    <3> SUFFICES ASSUME NEW c \in trusted'
                 PROVE  image'[c[1]][c[2]] =
                          IF c[1] \in DOMAIN pages THEN pages[c[1]][c[2]] ELSE 0
      BY DEF TrustedIsStored
    <3>1. c \in trusted /\ c \notin Cells(q)
      BY <2>2
    <3>2. c[1] \in Tables /\ c[2] \in 1 .. Size(c[1]) /\ c = <<c[1], c[2]>>
      BY <3>1, SizeType DEF IInv, TypeOK, Stores
    <3>3. image'[c[1]][c[2]] = image[c[1]][c[2]]
      <4>1. CASE c[1] = q.table
        <5>1. c[2] \notin q.offset + 1 .. q.offset + Len(q.data)
          BY <2>1, <3>1, <3>2, <4>1 DEF Cells
        <5>2. QED
          BY <2>4, <2>5, <3>2, <4>1, <5>1
      <4>2. CASE c[1] # q.table
        BY <2>5, <3>2, <4>2
      <4>3. QED
        BY <4>1, <4>2
    <3>4. QED
      BY <3>1, <3>3 DEF IInv, TrustedIsStored
  <2>10. InFlight'
    BY DEF IInv, InFlight
  <2>11. Pending'
    BY <2>2, <2>4, <2>5 DEF IInv, InFlight, Pending, Cells
  <2>12. QED
    BY <2>7, <2>8, <2>9, <2>10, <2>11 DEF IInv
<1>2. CASE q.cmd # "w"
  <2>1. UNCHANGED <<image, trusted>>
    BY <1>2
  <2>2. Stores' /\ TrustedIsStored'
    BY <2>1 DEF IInv, Stores, TrustedIsStored, Page, Size
  <2>3. TypeOK'
    BY <2>1 DEF IInv, TypeOK, Size
  <2>4. InFlight' /\ Pending'
    BY <1>2 DEF IInv, InFlight, Pending
  <2>5. QED
    BY <2>2, <2>3, <2>4 DEF IInv
<1>3. QED
  BY <1>1, <1>2

LEMMA LoseInv == ASSUME IInv, Lose PROVE IInv'
<1> USE DEF Lose
<1>1. Stores' /\ TrustedIsStored'
  BY DEF IInv, Stores, TrustedIsStored, Page, Size
<1>2. faults' \in 0 .. MaxFaults
  BY MaxFaultsAssumption DEF IInv, TypeOK
<1>3. TypeOK'
  BY <1>2 DEF IInv, TypeOK, Size
<1>4. InFlight' /\ Pending'
  BY DEF IInv, InFlight, Pending, Cells
<1>5. QED
  BY <1>1, <1>3, <1>4 DEF IInv

LEMMA RetryInv == ASSUME IInv, Retry PROVE IInv'
<1> USE DEF Retry
<1>1. Stores' /\ TrustedIsStored'
  BY DEF IInv, Stores, TrustedIsStored, Page, Size
<1>2. TypeOK'
  BY DEF IInv, TypeOK, Size
<1>3. InFlight' /\ Pending'
  BY DEF IInv, InFlight, Pending, Cells
<1>4. QED
  BY <1>1, <1>2, <1>3 DEF IInv

(* A write that is served again leaves what it left before, and a cell     *)
(* outside of it what it was; a page that it makes is zeros elsewhere.     *)
LEMMA WriteServed ==
  ASSUME IInv, line # None, line.cmd = "w", CanWrite(line)
  PROVE  /\ \A t \in DOMAIN pages' : pages'[t] \in Page(t)
         /\ DOMAIN pages' = DOMAIN pages \cup {line.table}
         /\ modified' \in BOOLEAN
         /\ Lands(pages'[line.table], line)
         /\ \A t \in Tables : \A i \in 1 .. Size(t) :
              <<t, i>> \notin Cells(line) =>
                (IF t \in DOMAIN pages' THEN pages'[t][i] ELSE 0) =
                (IF t \in DOMAIN pages THEN pages[t][i] ELSE 0)
<1> DEFINE t0   == line.table
           old  == IF t0 \in DOMAIN pages THEN pages[t0] ELSE Zeros(NewSize)
           new  == Overwritten(old, line)
<1>1. /\ line \in Requests /\ line.cmd = "w"
      /\ line.table \in Tables /\ line.offset \in Nat
      /\ line.data \in Seq(Byte) /\ line.count = Len(line.data)
  BY WriteType DEF IInv, TypeOK, None
<1>2. old \in [1 .. Size(t0) -> Byte]
  <2>1. CASE t0 \in DOMAIN pages
    BY <2>1 DEF IInv, Stores, Page
  <2>2. CASE t0 \notin DOMAIN pages
    <3>1. Size(t0) = NewSize
      BY <2>2 DEF IInv, TypeOK, Size
    <3>2. QED
      BY <2>2, <3>1, ZerosType, SizesAssumption
  <2>3. QED
    BY <2>1, <2>2
<1>3. /\ new \in [1 .. Size(t0) -> Byte]
      /\ Lands(new, line)
      /\ \A i \in 1 .. Size(t0) : i \notin line.offset + 1 .. line.offset + Len(line.data) =>
            new[i] = old[i]
  BY <1>1, <1>2, SizeType, OverwrittenPage, SMTT(60)
<1>4. pages' = [t \in DOMAIN pages \cup {t0} |-> IF t = t0 THEN new ELSE pages[t]]
  BY DEF CanWrite
<1>5. modified' \in BOOLEAN
  <2>1. (\/ modified
         \/ line.table \notin DOMAIN pages
         \/ line.offset + Len(line.data) <= Len(old)) \in BOOLEAN
    BY Zenon
  <2>2. QED
    BY <2>1, Zenon DEF CanWrite
<1> HIDE DEF new
<1>6. /\ DOMAIN pages' = DOMAIN pages \cup {t0}
      /\ pages'[t0] = new
      /\ \A t \in DOMAIN pages \ {t0} : pages'[t] = pages[t]
  BY <1>4
<1>7. \A t \in DOMAIN pages' : pages'[t] \in Page(t)
  BY <1>3, <1>6 DEF IInv, Stores, Page
<1>8. ASSUME NEW t \in Tables, NEW i \in 1 .. Size(t), <<t, i>> \notin Cells(line)
      PROVE  (IF t \in DOMAIN pages' THEN pages'[t][i] ELSE 0) =
             (IF t \in DOMAIN pages THEN pages[t][i] ELSE 0)
  <2>1. CASE t # t0
    BY <1>6, <2>1
  <2>2. CASE t = t0
    <3>1. i \notin line.offset + 1 .. line.offset + Len(line.data)
      BY <1>1, <1>8, <2>2 DEF Cells
    <3>2. new[i] = old[i]
      BY <1>3, <2>2, <3>1
    <3>3. CASE t0 \in DOMAIN pages
      BY <1>6, <2>2, <3>2, <3>3
    <3>4. CASE t0 \notin DOMAIN pages
      <4>1. Size(t0) = NewSize
        BY <3>4 DEF IInv, TypeOK, Size
      <4>2. old[i] = 0
        BY <2>2, <3>4, <4>1, ZerosType, SizesAssumption
      <4>3. QED
        BY <1>6, <2>2, <3>2, <3>4, <4>2
    <3>5. QED
      BY <3>3, <3>4
  <2>3. QED
    BY <2>1, <2>2
<1>9. QED
  BY <1>3, <1>5, <1>6, <1>7, <1>8

LEMMA HandleInv == ASSUME IInv, NEW outpc \in Outpc, Handle(outpc) PROVE IInv'
<1>1. /\ line # None /\ line = asked /\ reply = None /\ line \in Requests
      /\ line' = None /\ UNCHANGED <<asked, image, trusted, faults>>
      /\ alive' \in BOOLEAN
      /\ reply' = HandleRequest(line, outpc) \/ reply' = None
  <2>1. alive' \in BOOLEAN
    <3>1. CASE UNCHANGED alive
      BY <3>1 DEF IInv, TypeOK
    <3>2. CASE alive' = FALSE
      BY <3>2, Zenon
    <3>3. QED
      BY <3>1, <3>2, Zenon DEF Handle
  <2>2. line # None /\ line = asked /\ reply = None /\ line \in Requests
    BY DEF Handle, IInv, InFlight, TypeOK
  <2>3. QED
    BY <2>1, <2>2, Zenon DEF Handle
<1>2. CASE line.cmd = "w"
  <2>1. CanWrite(line)
    BY <1>2 DEF Handle
  <2>2. /\ \A t \in DOMAIN pages' : pages'[t] \in Page(t)
        /\ DOMAIN pages' = DOMAIN pages \cup {line.table}
        /\ modified' \in BOOLEAN
        /\ Lands(pages'[line.table], line)
        /\ \A t \in Tables : \A i \in 1 .. Size(t) :
             <<t, i>> \notin Cells(line) =>
               (IF t \in DOMAIN pages' THEN pages'[t][i] ELSE 0) =
               (IF t \in DOMAIN pages THEN pages[t][i] ELSE 0)
    BY <1>1, <1>2, <2>1, WriteServed
  <2>3. line.table \in Tables
    BY <1>1, <1>2, WriteType
  <2>4. Stores'
    BY <1>1, <2>2 DEF IInv, Stores, Page, Size
  <2>5. TypeOK'
    <3>1. \A t \in DOMAIN pages' : Len(pages'[t]) = Size(t) /\ pages'[t] \in Seq(Byte)
      BY <2>2, SizeType DEF Page
    <3>2. Configured \subseteq DOMAIN pages' /\ DOMAIN pages' \subseteq Tables
      BY <2>2, <2>3 DEF IInv, TypeOK
    <3>3. QED
      BY <1>1, <2>2, <3>1, <3>2 DEF IInv, TypeOK, Size
  <2>6. InFlight'
    <3>1. HandleRequest(line, outpc) = Response("ok", << >>)
      BY <1>2 DEF HandleRequest
    <3>2. HandleRequest(asked, outpc)' = Response("ok", << >>)
      BY <1>1, <1>2 DEF HandleRequest, Response
    <3>3. QED
      BY <1>1, <3>1, <3>2 DEF InFlight
  <2>7. Pending'
    BY <1>1, <1>2, <2>2 DEF IInv, Pending, Lands, Cells
  <2>8. TrustedIsStored'
    <3> SUFFICES ASSUME NEW c \in trusted
                 PROVE  image[c[1]][c[2]] =
                          IF c[1] \in DOMAIN pages' THEN pages'[c[1]][c[2]] ELSE 0
      BY <1>1 DEF TrustedIsStored
    <3>1. c[1] \in Tables /\ c[2] \in 1 .. Size(c[1]) /\ c = <<c[1], c[2]>>
      BY SizeType DEF IInv, TypeOK, Stores
    <3>2. <<c[1], c[2]>> \notin Cells(line)
      BY <1>1, <1>2, <3>1 DEF IInv, Pending
    <3>3. QED
      BY <2>2, <3>1, <3>2 DEF IInv, TrustedIsStored
  <2>9. QED
    BY <2>4, <2>5, <2>6, <2>7, <2>8 DEF IInv
<1>3. CASE line.cmd # "w"
  <2>1. UNCHANGED <<pages, modified>>
    BY <1>3 DEF Handle
  <2>2. Stores' /\ TrustedIsStored'
    BY <1>1, <2>1 DEF IInv, Stores, TrustedIsStored, Page, Size
  <2>3. TypeOK'
    BY <1>1, <2>1 DEF IInv, TypeOK, Size
  <2>4. InFlight'
    <3>1. HandleRequest(asked, outpc)' = HandleRequest(asked, outpc)
      BY <1>1, <2>1 DEF HandleRequest, SignatureQuery, VersionQuery, RealtimeQuery, Burn,
                        CanRead, CrcCheck, Response, Checksum, Slice, Zeros
    <3>2. QED
      BY <1>1, <3>1 DEF InFlight
  <2>5. Pending'
    BY <1>1, <1>3 DEF Pending
  <2>6. QED
    BY <2>2, <2>3, <2>4, <2>5 DEF IInv
<1>4. QED
  BY <1>2, <1>3

(* What the ECU has in a cell, as TrustedIsStored puts it.                 *)
Stored(t, i) == IF t \in DOMAIN pages THEN pages[t][i] ELSE 0

(* The client trusts the range it has asked about, and is right.           *)
LEMMA TrustInv ==
  ASSUME IInv, asked \in Requests, asked.table \in Tables,
         asked.offset \in Nat, asked.count \in Nat,
         asked.offset + asked.count <= Size(asked.table),
         \A i \in 1 .. asked.count :
           image'[asked.table][asked.offset + i] = Stored(asked.table, asked.offset + i),
         \A t \in Tables : \A i \in 1 .. Size(t) :
           <<t, i>> \notin Cells(asked) => image'[t][i] = image[t][i],
         trusted' = trusted \cup Cells(asked), UNCHANGED pages
  PROVE  /\ TrustedIsStored'
         /\ trusted' \subseteq Tables \X (1 .. NewSize)
         /\ \A c \in trusted' : c[2] <= Size(c[1])
<1>1. ASSUME NEW c \in Cells(asked)
      PROVE  /\ c \in Tables \X (1 .. NewSize)
             /\ c[2] <= Size(c[1])
             /\ image'[c[1]][c[2]] = Stored(c[1], c[2])
  <2>1. PICK j \in asked.offset + 1 .. asked.offset + asked.count : c = <<asked.table, j>>
    BY DEF Cells
  <2>2. j \in Nat /\ j - asked.offset \in 1 .. asked.count
        /\ asked.offset + (j - asked.offset) = j
        /\ j \in 1 .. NewSize /\ j <= Size(asked.table)
    <3>1. Size(asked.table) \in Nat /\ Size(asked.table) <= NewSize
      BY SizeType
    <3>2. QED
      BY <2>1, <3>1, SizesAssumption
  <2>3. image'[asked.table][j] = Stored(asked.table, j)
    BY <2>2
  <2>4. QED
    BY <2>1, <2>2, <2>3
<1>2. ASSUME NEW c \in trusted, c \notin Cells(asked)
      PROVE  image'[c[1]][c[2]] = Stored(c[1], c[2])
  <2>1. c[1] \in Tables /\ c[2] \in 1 .. Size(c[1]) /\ c = <<c[1], c[2]>>
    BY SizeType DEF IInv, TypeOK, Stores
  <2>2. image'[c[1]][c[2]] = image[c[1]][c[2]]
    BY <1>2, <2>1
  <2>3. QED
    BY <2>2 DEF IInv, TrustedIsStored, Stored
<1>3. TrustedIsStored'
  BY <1>1, <1>2 DEF TrustedIsStored, Stored
<1>4. QED
  BY <1>1, <1>3 DEF IInv, TypeOK, Stores

LEMMA TakeInv == ASSUME IInv, Take PROVE IInv'
<1>1. /\ asked # None /\ line = None /\ asked \in Requests
      /\ asked' = None /\ reply' = None
      /\ UNCHANGED <<pages, modified, alive, line, faults>>
  BY DEF Take, IInv, InFlight, TypeOK
<1>2. PICK outpc \in Outpc : reply = HandleRequest(asked, outpc)
  BY DEF Take, IInv, InFlight
<1>3. InFlight' /\ Pending'
  BY <1>1 DEF InFlight, Pending
<1> DEFINE Own == /\ asked.table \in Tables \ Special
                  /\ asked.offset + asked.count <= Size(asked.table)
           KnownRead  == asked.cmd = "r" /\ Len(reply.payload) = asked.count
           KnownWrite == asked.cmd = "w"
           KnownCheck == /\ asked.cmd = "k"
                         /\ reply.payload =
                              Checksum(Slice(image[asked.table], asked.offset, asked.count))
<1>4. CASE UNCHANGED <<image, trusted>>
  <2>1. Stores' /\ TrustedIsStored'
    BY <1>1, <1>4 DEF IInv, Stores, TrustedIsStored, Page, Size
  <2>2. TypeOK'
    BY <1>1, <1>4 DEF IInv, TypeOK, Size
  <2>3. QED
    BY <1>3, <2>1, <2>2 DEF IInv
<1>5. ASSUME Own, KnownRead \/ KnownWrite \/ KnownCheck
      PROVE  asked.table \in Tables /\ asked.offset \in Nat /\ asked.count \in Nat
  <2>1. CASE asked.cmd = "w"
    <3>1. asked.data \in Seq(Byte) /\ asked.count = Len(asked.data) /\ asked.offset \in Nat
      BY <1>1, <2>1, WriteType
    <3>2. QED
      BY <1>5, <3>1
  <2>2. CASE asked.cmd # "w"
    BY <1>1, <1>5, <2>2, RangeType
  <2>3. QED
    BY <2>1, <2>2
<1>6. CASE Own /\ KnownRead
  <2>1. asked.table \in Tables /\ asked.offset \in Nat /\ asked.count \in Nat
    BY <1>5, <1>6
  <2> DEFINE t == asked.table
             n == Size(t)
             page == image[t]
             q == [asked EXCEPT !.data = reply.payload]
  <2>2. /\ image' = [image EXCEPT ![t] = Overwritten(@, q)]
        /\ trusted' = trusted \cup Cells(asked)
    BY <1>6 DEF Take
  <2>3. reply.payload = Part(asked)
    BY <1>2, <1>6, AnswerToRead
  <2>4. /\ reply.payload \in Seq(Byte) /\ Len(reply.payload) = asked.count
        /\ \A i \in 1 .. asked.count : reply.payload[i] = Stored(t, asked.offset + i)
    BY <1>6, <2>1, <2>3, PartCells DEF IInv, Stored
  <2>5. q.offset = asked.offset /\ q.data = reply.payload
    <3>1. asked = Request(asked.cmd, asked.table, asked.offset, asked.count, asked.data)
      BY <1>1 DEF Requests, Request
    <3>2. QED
      BY <3>1 DEF Request
  <2>6. n \in Nat /\ page \in [1 .. n -> Byte] /\ DOMAIN image = Tables
    BY <2>1, SizeType DEF IInv, Stores, Page
  <2> DEFINE new == Overwritten(page, q)
  <2>7. /\ new \in [1 .. n -> Byte]
        /\ Lands(new, q)
        /\ \A i \in 1 .. n : i \notin asked.offset + 1 .. asked.offset + asked.count =>
              new[i] = page[i]
    <3> HIDE DEF n, page, q, new
    <3>1. q.offset \in Nat /\ q.data \in Seq(Byte)
      BY <2>1, <2>4, <2>5
    <3>2. /\ new \in [1 .. n -> Byte]
          /\ Lands(new, q)
          /\ \A i \in 1 .. n : i \notin q.offset + 1 .. q.offset + Len(q.data) =>
                new[i] = page[i]
      BY <2>6, <3>1, OverwrittenPage DEF new
    <3>3. QED
      BY <2>4, <2>5, <3>2
  <2>8. \A i \in 1 .. asked.count : new[asked.offset + i] = Stored(t, asked.offset + i)
    <3> HIDE DEF n, q, new
    <3>1. Len(new) = n
      BY <2>6, <2>7
    <3>2. q.offset + Len(q.data) <= Len(new) /\ DOMAIN q.data = 1 .. asked.count
      BY <1>6, <2>1, <2>4, <2>5, <3>1 DEF n
    <3>3. QED
      BY <2>4, <2>5, <2>7, <3>2 DEF Lands
  <2>9. DOMAIN image' = Tables /\ image'[t] = new
        /\ \A u \in Tables \ {t} : image'[u] = image[u]
    BY <2>1, <2>2, <2>6
  <2>10. \A u \in Tables : image'[u] \in Page(u)
    BY <2>7, <2>9 DEF IInv, Stores, Page
  <2>11. /\ TrustedIsStored'
         /\ trusted' \subseteq Tables \X (1 .. NewSize)
         /\ \A c \in trusted' : c[2] <= Size(c[1])
    <3> HIDE DEF new
    <3>1. ASSUME NEW u \in Tables, NEW i \in 1 .. Size(u), <<u, i>> \notin Cells(asked)
          PROVE  image'[u][i] = image[u][i]
      <4>1. CASE u = t
        <5>1. i \notin asked.offset + 1 .. asked.offset + asked.count
          BY <3>1, <4>1 DEF Cells
        <5>2. QED
          BY <2>7, <2>9, <4>1, <5>1, Zenon
      <4>2. CASE u # t
        BY <2>9, <4>2
      <4>3. QED
        BY <4>1, <4>2
    <3>2. QED
      BY <1>1, <1>6, <2>1, <2>2, <2>8, <2>9, <3>1, TrustInv, Zenon
  <2>12. Stores'
    BY <1>1, <2>9, <2>10, <2>11 DEF IInv, Stores, Page, Size
  <2>13. TypeOK'
    <3>1. \A u \in Tables : Len(image'[u]) = Size(u)
      BY <2>10, SizeType DEF Page
    <3>2. QED
      BY <1>1, <2>11, <3>1 DEF IInv, TypeOK, Size
  <2>14. QED
    BY <1>3, <2>11, <2>12, <2>13 DEF IInv
<1>7. CASE Own /\ (KnownWrite \/ KnownCheck)
  <2>1. asked.table \in Tables /\ asked.offset \in Nat /\ asked.count \in Nat
    BY <1>5, <1>7
  <2>2. trusted' = trusted \cup Cells(asked) /\ image' = image
    BY <1>7 DEF Take
  <2>3. \A i \in 1 .. asked.count :
          image[asked.table][asked.offset + i] = Stored(asked.table, asked.offset + i)
    <3>1. CASE KnownWrite
      <4>1. asked.table \in DOMAIN pages
            /\ Lands(pages[asked.table], asked) /\ Lands(image[asked.table], asked)
        BY <1>1, <3>1 DEF Take, IInv, Pending
      <4>2. Len(pages[asked.table]) = Size(asked.table)
            /\ Len(image[asked.table]) = Size(asked.table)
        BY <2>1, <4>1 DEF IInv, TypeOK
      <4>3. asked.count = Len(asked.data) /\ DOMAIN asked.data = 1 .. Len(asked.data)
        BY <1>1, <3>1, WriteType
      <4>4. QED
        BY <1>7, <4>1, <4>2, <4>3 DEF Lands, Stored
    <3>2. CASE KnownCheck
      <4>1. reply.payload = << Part(asked) >>
        BY <1>2, <3>2, AnswerToCheck
      <4>2. Part(asked) = Slice(image[asked.table], asked.offset, asked.count)
        BY <3>2, <4>1 DEF Checksum
      <4>3. image[asked.table] \in [1 .. Size(asked.table) -> Byte]
        BY <2>1 DEF IInv, Stores, Page
      <4>4. \A i \in 1 .. asked.count :
              Slice(image[asked.table], asked.offset, asked.count)[i] =
                image[asked.table][asked.offset + i]
        <5> DEFINE n    == Size(asked.table)
                   page == image[asked.table]
        <5>1. n \in Nat /\ page \in [1 .. n -> Byte] /\ asked.offset + asked.count <= n
          BY <1>7, <4>3, SizeType
        <5> HIDE DEF n, page
        <5>2. \A i \in 1 .. asked.count :
                Slice(page, asked.offset, asked.count)[i] = page[asked.offset + i]
          BY <2>1, <5>1, SliceCells, ZenonT(60)
        <5>3. QED
          BY <5>2 DEF page
      <4>5. \A i \in 1 .. asked.count : Part(asked)[i] = Stored(asked.table, asked.offset + i)
        BY <1>7, <2>1, PartCells DEF IInv, Stored
      <4>6. QED
        BY <4>2, <4>4, <4>5
    <3>3. QED
      BY <1>7, <3>1, <3>2
  <2>4. /\ TrustedIsStored'
        /\ trusted' \subseteq Tables \X (1 .. NewSize)
        /\ \A c \in trusted' : c[2] <= Size(c[1])
    BY <1>1, <1>7, <2>1, <2>2, <2>3, TrustInv
  <2>5. Stores'
    BY <1>1, <2>2, <2>4 DEF IInv, Stores, Page, Size
  <2>6. TypeOK'
    BY <1>1, <2>2, <2>4 DEF IInv, TypeOK, Size
  <2>7. QED
    BY <1>3, <2>4, <2>5, <2>6 DEF IInv
<1>8. UNCHANGED <<image, trusted>> \/ (Own /\ (KnownRead \/ KnownWrite \/ KnownCheck))
  BY DEF Take
<1>9. QED
  BY <1>4, <1>6, <1>7, <1>8
------------------------------------------------------------------------------
LEMMA StutterInv == ASSUME IInv, UNCHANGED vars PROVE IInv'
<1> USE DEF vars
<1>1. Stores' /\ TrustedIsStored'
  BY DEF IInv, Stores, TrustedIsStored, Page, Size
<1>2. TypeOK'
  BY DEF IInv, TypeOK, Size
<1>3. InFlight'
  BY DEF IInv, InFlight, HandleRequest, SignatureQuery, VersionQuery, RealtimeQuery, Burn,
         CanRead, CrcCheck, Response, Checksum, Slice, Zeros
<1>4. Pending'
  BY DEF IInv, Pending, Lands, Cells
<1>5. QED
  BY <1>1, <1>2, <1>3, <1>4 DEF IInv

LEMMA SpecInv == Spec => []IInv
<1>1. ASSUME IInv, [Next]_vars PROVE IInv'
  <2>1. CASE \E q \in Requests : Ask(q)
    BY <1>1, <2>1, AskInv
  <2>2. CASE Lose
    BY <1>1, <2>2, LoseInv
  <2>3. CASE Retry
    BY <1>1, <2>3, RetryInv
  <2>4. CASE Take
    BY <1>1, <2>4, TakeInv
  <2>5. CASE Serve
    BY <1>1, <2>5, HandleInv DEF Serve
  <2>6. CASE UNCHANGED vars
    BY <1>1, <2>6, StutterInv
  <2>7. QED
    BY <1>1, <2>1, <2>2, <2>3, <2>4, <2>5, <2>6 DEF Next
<1>2. QED
  BY <1>1, InitInv, PTL DEF Spec

(* Whatever is lost and sent again, every page keeps its size and there is *)
(* one for every configured table: no write makes a page longer, or takes  *)
(* one away (_handle_can_write).                                           *)
THEOREM TypeCorrect == Spec => []TypeOK
<1>1. IInv => TypeOK
  BY DEF IInv
<1>2. QED
  BY <1>1, SpecInv, PTL

(* The checksum of a range is that of the bytes a read of it returns, in   *)
(* every state (_handle_crc_check and _handle_can_read index the same).    *)
LEMMA ChecksAgree == CheckAgreesWithRead
BY DEF CheckAgreesWithRead, CrcCheck, CanRead, Response, Checksum, Special

(* A client that writes, reads back and compares checksums over a line     *)
(* that loses requests and answers, and that sends again what was not      *)
(* answered, is right about every byte it trusts (handle_request).         *)
THEOREM ClientRight == Spec => []ClientIsRight
<1>1. IInv => ClientIsRight
  BY ChecksAgree DEF IInv, ClientIsRight
<1>2. QED
  BY <1>1, SpecInv, PTL
===============================================================================
