------------------------- MODULE SerialProgramsProofs -------------------------
(* Proofs about the programs that answer framed requests                    *)
(* (MCSerialPrograms): ecuSim, the replay server and the simulator of       *)
(* exampleFiles, on a line that keeps every byte and on one with faults.    *)
(*                                                                          *)
(* The bytes of the unanswered requests, in the order of asking, are a      *)
(* recursive function of the requests (Stream). First come facts about that *)
(* function and about the parser (Framing), by induction over sets of       *)
(* numbers and of sequences: on a buffer that begins a stream, ParseFramed  *)
(* finds the oldest request or nothing, and drops no byte. Then a machine   *)
(* of seven kinds of steps (Moves) that keeps the bytes in order; every     *)
(* program is shown to take only such steps.                                *)
(*                                                                          *)
(* At the end: what the capture tool (PollingTools) writes is read back.    *)
EXTENDS MCSerialPrograms, SequenceTheorems, WellFoundedInduction, TLAPS

(* What a client may ask: the payload of a frame, or the single byte "F"    *)
(* that asks for the version.                                               *)
Askable == DOMAIN Crc \cup {Version}

(* A set of numbers with an element has a least one. The induction theorems *)
(* of the library take an operator; a set in the place of the predicate     *)
(* serves as well.                                                          *)
LEMMA Least ==
  ASSUME NEW T \in SUBSET Nat, T # {}
  PROVE  \E x \in T : \A y \in T : x <= y
<1> DEFINE Less == OpToRel(<, Nat)
<1>1. Less = {ss \in Nat \X Nat : ss[1] < ss[2]}
  BY Zenon DEF OpToRel
<1>2. IsWellFoundedOn(Less, Nat)
  BY NatLessThanWellFounded, Zenon
<1> HIDE DEF Less
<1>3. PICK x \in T : \A y \in T : ~ (<<y, x>> \in Less)
  BY <1>2, WFMin, Zenon
<1>4. ASSUME NEW y \in T PROVE x <= y
  <2>1. <<y, x>> \notin Less /\ x \in Nat /\ y \in Nat
    BY <1>3
  <2>2. QED
    BY <1>1, <2>1
<1>5. QED
  BY <1>4

(* Induction on the numbers, over a set.                                    *)
LEMMA Induction ==
  ASSUME NEW P, 0 \in P, \A n \in Nat : n \in P => n + 1 \in P
  PROVE  Nat \subseteq P
<1> SUFFICES ASSUME Nat \ P # {} PROVE FALSE
  OBVIOUS
<1>1. PICK m \in Nat \ P : \A y \in Nat \ P : m <= y
  BY Least, Zenon
<1>2. m # 0 /\ m - 1 \in Nat /\ m - 1 + 1 = m /\ ~ (m <= m - 1)
  OBVIOUS
<1>3. m - 1 \in P
  BY <1>1, <1>2
<1>4. QED
  BY <1>2, <1>3

(* What two sequences of bytes are, one after the other.                    *)
LEMMA Concat ==
  ASSUME NEW s \in Seq(Byte), NEW t \in Seq(Byte)
  PROVE  /\ s \o t \in Seq(Byte)
         /\ Len(s \o t) = Len(s) + Len(t)
         /\ \A i \in 1 .. Len(s) : (s \o t)[i] = s[i]
         /\ \A i \in 1 .. Len(t) : (s \o t)[Len(s) + i] = t[i]
<1>1. /\ s \o t \in Seq(Byte)
      /\ Len(s \o t) = Len(s) + Len(t)
      /\ \A i \in 1 .. Len(s) + Len(t) : (s \o t)[i] = IF i <= Len(s) THEN s[i] ELSE t[i - Len(s)]
  BY ConcatProperties
<1>2. Len(s) \in Nat /\ Len(t) \in Nat
  BY LenProperties
<1>3. QED
  BY <1>1, <1>2

(* The same of u, which is t after s.                                       *)
Joined(s, t, u) ==
  /\ u \in Seq(Byte) /\ Len(u) = Len(s) + Len(t)
  /\ \A i \in 1 .. Len(s) : u[i] = s[i]
  /\ \A i \in 1 .. Len(t) : u[Len(s) + i] = t[i]

LEMMA ConcatJoins == ASSUME NEW s \in Seq(Byte), NEW t \in Seq(Byte) PROVE Joined(s, t, s \o t)
  BY Concat DEF Joined

(* Three of them, whichever two are joined first.                           *)
LEMMA ConcatThree ==
  ASSUME NEW s \in Seq(Byte), NEW t \in Seq(Byte), NEW u \in Seq(Byte)
  PROVE  (s \o t) \o u = s \o (t \o u)
  BY ConcatAssociative, SMTT(60)

(* A frame: two bytes for the length of the payload, the payload, four      *)
(* bytes of CRC; its first byte is never the "F" of a version request, for  *)
(* a payload has at most 1024 bytes.                                        *)
LEMMA FrameType ==
  ASSUME NEW p \in DOMAIN Crc
  PROVE  /\ p \in Seq(Byte) /\ 1 <= Len(p) /\ Len(p) <= 1024
         /\ Crc[p] \in Seq(Byte) /\ Len(Crc[p]) = 4
         /\ Frame(p) \in Seq(Byte)
         /\ Len(Frame(p)) = 2 + Len(p) + 4
         /\ Size(Frame(p)) = Len(p) /\ Frame(p)[1] # 70
         /\ \A i \in 1 .. Len(p) : Frame(p)[2 + i] = p[i]
         /\ \A i \in 1 .. 4 : Frame(p)[2 + Len(p) + i] = Crc[p][i]
<1>1. p \in Seq(Byte) /\ 1 <= Len(p) /\ Len(p) <= 1024 /\ Crc[p] \in Seq(Byte) /\ Len(Crc[p]) = 4
  BY CrcAssumption
<1>2. PICK n \in Nat : n = Len(p) /\ n <= 1024
  BY <1>1
<1> DEFINE head == <<n \div 256, n % 256>>
<1>3. head \in Seq(Byte) /\ Len(head) = 2 /\ 256 * head[1] + head[2] = n /\ head[1] # 70
  <2>1. /\ n \div 256 \in Nat /\ n \div 256 <= 255 /\ n \div 256 # 70
        /\ n % 256 \in Nat /\ n % 256 <= 255
        /\ 256 * (n \div 256) + (n % 256) = n
    BY <1>2
  <2>2. n \div 256 \in Byte /\ n % 256 \in Byte
    BY <2>1 DEF Byte
  <2>3. QED
    BY <2>1, <2>2
<1> DEFINE g == head \o p
           c == Crc[p]
           f == g \o c
<1> HIDE DEF head, c
<1>4. c \in Seq(Byte) /\ Len(c) = 4
  BY <1>1 DEF c
<1>g. Joined(head, p, g)
  BY <1>1, <1>3, ConcatJoins
<1> HIDE DEF g
<1>5. /\ g \in Seq(Byte) /\ Len(g) = Len(head) + Len(p)
      /\ \A i \in 1 .. Len(head) : g[i] = head[i]
      /\ \A i \in 1 .. Len(p) : g[Len(head) + i] = p[i]
  BY <1>g, Zenon DEF Joined
<1>f. Joined(g, c, f)
  BY <1>4, <1>5, ConcatJoins
<1> HIDE DEF f
<1>6. /\ f \in Seq(Byte) /\ Len(f) = Len(g) + Len(c)
      /\ \A i \in 1 .. Len(g) : f[i] = g[i]
      /\ \A i \in 1 .. Len(c) : f[Len(g) + i] = c[i]
  BY <1>f, Zenon DEF Joined
<1>7. f = Frame(p)
  BY <1>2 DEF Frame, f, g, head, c
<1>8. /\ Len(f) = 2 + n + 4
      /\ f[1] = head[1] /\ f[2] = head[2]
      /\ \A i \in 1 .. n : f[2 + i] = p[i]
      /\ \A i \in 1 .. 4 : f[2 + n + i] = c[i]
  BY <1>2, <1>3, <1>4, <1>5, <1>6, SMTT(60)
<1>9. QED
  BY <1>1, <1>2, <1>3, <1>6, <1>7, <1>8 DEF Size, c

(* The two bytes of the length decide how long a frame is.                 *)
LEMMA SizeOfFrame ==
  ASSUME NEW p \in DOMAIN Crc, NEW b, b[1] = Frame(p)[1], b[2] = Frame(p)[2]
  PROVE  /\ Size(b) = Len(p) /\ Size(b) \in 1 .. MaxSize
         /\ Needed(b) = Len(Frame(p))
<1>1. Size(b) = Size(Frame(p))
  BY DEF Size
<1>2. Size(b) = Len(p) /\ Len(p) \in Nat /\ 1 <= Len(p) /\ Len(p) <= 1024
  BY <1>1, FrameType
<1>3. PICK n \in Nat : n = Size(b) /\ 1 <= n /\ n <= 1024
  BY <1>2
<1>4. Size(b) \in 1 .. MaxSize
  BY <1>3 DEF MaxSize
<1>5. Needed(b) = 2 + Len(p) + 4
  BY <1>2 DEF Needed
<1>6. QED
  BY <1>2, <1>4, <1>5, FrameType

(* A part of a sequence.                                                   *)
LEMMA Part ==
  ASSUME NEW b \in Seq(Byte), NEW m \in Nat, NEW s \in Seq(Byte), m + Len(s) <= Len(b),
         \A i \in 1 .. Len(s) : b[m + i] = s[i]
  PROVE  SubSeq(b, m + 1, m + Len(s)) = s
<1> DEFINE n == Len(s)
           t == SubSeq(b, m + 1, m + n)
<1>1. n \in Nat /\ Len(b) \in Nat
  BY LenProperties
<1> HIDE DEF n
<1>2. CASE n = 0
  <2>1. t = << >>
    BY <1>2, SubSeqEmpty
  <2>2. s = << >>
    BY <1>2, EmptySeq DEF n
  <2>3. QED
    BY <2>1, <2>2 DEF n
<1>3. CASE n # 0
  <2>1. /\ m + 1 \in Int /\ m + n \in Int /\ m + 1 <= m + n /\ (m + n) - (m + 1) + 1 = n
        /\ \A i \in m + 1 .. m + n : i \in 1 .. Len(b)
    BY <1>1, <1>3 DEF n
  <2>2. \A i \in m + 1 .. m + n : b[i] \in Byte
    BY <2>1, ElementOfSeq
  <2>3. /\ t \in Seq(Byte) /\ Len(t) = n
        /\ \A i \in 1 .. n : t[i] = b[m + 1 + i - 1]
    BY <2>1, <2>2, SubSeqProperties
  <2>4. \A i \in 1 .. n : t[i] = s[i]
    BY <1>1, <2>3 DEF n
  <2> HIDE DEF t
  <2>5. t = s
    BY <2>3, <2>4, SeqEqual, Zenon DEF n
  <2>6. QED
    BY <2>5 DEF t, n
<1>4. QED
  BY <1>2, <1>3

(* A buffer that holds the whole frame is parsed to its payload, and what  *)
(* follows is left.                                                        *)
LEMMA WholeFrame ==
  ASSUME NEW p \in DOMAIN Crc, NEW d \in Seq(Byte)
  PROVE  ParseFramed(Frame(p) \o d) = Parsed(p, d)
<1> DEFINE f == Frame(p)
           b == f \o d
           c == Crc[p]
<1>1. /\ p \in Seq(Byte) /\ c \in Seq(Byte) /\ Len(c) = 4
      /\ f \in Seq(Byte) /\ Len(f) = 2 + Len(p) + 4
      /\ \A i \in 1 .. Len(p) : f[2 + i] = p[i]
      /\ \A i \in 1 .. 4 : f[2 + Len(p) + i] = c[i]
  BY FrameType
<1>2. Len(p) \in Nat /\ Len(d) \in Nat
  BY <1>1, LenProperties
<1> HIDE DEF f, c
<1>b. Joined(f, d, b)
  BY <1>1, ConcatJoins
<1> HIDE DEF b
<1>3. /\ b \in Seq(Byte) /\ Len(b) = Len(f) + Len(d)
      /\ \A i \in 1 .. Len(f) : b[i] = f[i]
      /\ \A i \in 1 .. Len(d) : b[Len(f) + i] = d[i]
  BY <1>b, Zenon DEF Joined
<1>4. Size(b) = Len(p) /\ Needed(b) = Len(f) /\ Size(b) \in 1 .. MaxSize
  <2>1. b[1] = f[1] /\ b[2] = f[2]
    BY <1>1, <1>2, <1>3
  <2>2. QED
    BY <2>1, SizeOfFrame DEF f
<1>5. Payload(b) = p
  <2>1. \A i \in 1 .. Len(p) : b[2 + i] = p[i]
    BY <1>1, <1>2, <1>3, SMTT(60)
  <2>2. 2 + Len(p) <= Len(b)
    BY <1>1, <1>2, <1>3
  <2>3. SubSeq(b, 2 + 1, 2 + Len(p)) = p
    BY <1>1, <1>3, <2>1, <2>2, Part
  <2>4. QED
    BY <1>4, <2>3 DEF Payload
<1>6. SubSeq(b, 3 + Size(b), Needed(b)) = Crc[p]
  <2>1. PICK m \in Nat : m = 2 + Len(p)
    BY <1>2
  <2>2. \A i \in 1 .. Len(c) : b[m + i] = c[i]
    BY <1>1, <1>2, <1>3, <2>1, SMTT(60)
  <2>3. m + Len(c) <= Len(b)
    BY <1>1, <1>2, <1>3, <2>1
  <2>4. SubSeq(b, m + 1, m + Len(c)) = c
    BY <1>1, <1>3, <2>2, <2>3, Part, Zenon
  <2>5. m + 1 = 3 + Size(b) /\ m + Len(c) = Needed(b)
    BY <1>1, <1>2, <1>4, <2>1
  <2>6. QED
    BY <2>4, <2>5, Zenon DEF c
<1>7. Drop(b, Needed(b)) = d
  <2>1. PICK m \in Nat : m = Len(f)
    BY <1>1
  <2>2. m + Len(d) <= Len(b) /\ \A i \in 1 .. Len(d) : b[m + i] = d[i]
    BY <1>2, <1>3, <2>1
  <2>3. SubSeq(b, m + 1, m + Len(d)) = d
    BY <1>3, <2>2, Part, Zenon
  <2>4. QED
    BY <1>3, <1>4, <2>1, <2>3 DEF Drop
<1>8. Len(b) >= Needed(b) /\ Len(b) >= 2 /\ Len(b) \in Nat /\ Needed(b) \in Nat
  BY <1>1, <1>2, <1>3, <1>4
<1>9. CrcMatches(b)
  BY <1>5, <1>6 DEF CrcMatches
<1>10. ParseFramed(b) = Parsed(Payload(b), Drop(b, Needed(b)))
  BY <1>4, <1>8, <1>9 DEF ParseFramed
<1>11. QED
  BY <1>5, <1>7, <1>10 DEF b, f

(* A part of a frame is not parsed yet.                                    *)
LEMMA PartialFrame ==
  ASSUME NEW p \in DOMAIN Crc, NEW b \in Seq(Byte), Len(b) < Len(Frame(p)),
         \A i \in 1 .. Len(b) : b[i] = Frame(p)[i]
  PROVE  ParseFramed(b) = Parsed(None, b)
<1>1. CASE Len(b) < 2
  BY <1>1 DEF ParseFramed
<1>2. CASE ~ (Len(b) < 2)
  <2>1. Len(b) \in Nat
    BY LenProperties
  <2>2. b[1] = Frame(p)[1] /\ b[2] = Frame(p)[2]
    BY <1>2, <2>1
  <2>3. Size(b) \in 1 .. MaxSize /\ Needed(b) = Len(Frame(p))
    BY <2>2, SizeOfFrame
  <2>4. QED
    BY <1>2, <2>3 DEF ParseFramed
<1>3. QED
  BY <1>1, <1>2

(* What goes over the line for a request is at least one byte.              *)
LEMMA BytesType ==
  ASSUME NEW q \in Askable
  PROVE  Bytes(q) \in Seq(Byte) /\ Len(Bytes(q)) > 0
<1>1. CASE q = Version
  <2>1. 70 \in Byte
    BY DEF Byte
  <2>2. QED
    BY <1>1, <2>1 DEF Bytes, Version
<1>2. CASE q # Version
  <2>1. q \in DOMAIN Crc
    BY <1>2 DEF Askable
  <2>2. Frame(q) \in Seq(Byte) /\ Len(Frame(q)) > 0
    BY <2>1, FrameType
  <2>3. QED
    BY <1>2, <2>2 DEF Bytes
<1>3. QED
  BY <1>1, <1>2

(* f maps each place of o to the bytes from there on: the function that    *)
(* Stream chooses.                                                         *)
IsStream(f, o) ==
  f = [i \in 1 .. Len(o) + 1 |-> IF i > Len(o) THEN << >> ELSE Bytes(o[i]) \o f[i + 1]]

(* Stream takes the first value of that function.                           *)
LEMMA StreamIs ==
  ASSUME NEW o
  PROVE  Stream(o) = (CHOOSE f : IsStream(f, o))[1]
  BY Zenon DEF Stream, IsStream

(* The function of some requests, moved by one place, is the one of all but *)
(* the first.                                                               *)
LEMMA StreamOfTail ==
  ASSUME NEW o \in Seq(Askable), o # << >>, NEW f, IsStream(f, o)
  PROVE  \E g : IsStream(g, Tail(o)) /\ f[1] = Bytes(Head(o)) \o g[1]
<1>1. PICK n \in Nat : n = Len(o) /\ n > 0
  BY EmptySeq, LenProperties
<1>2. Len(Tail(o)) = n - 1 /\ Head(o) = o[1] /\ \A i \in 1 .. n - 1 : Tail(o)[i] = o[i + 1]
  BY <1>1, HeadTailProperties
<1>3. f = [i \in 1 .. n + 1 |-> IF i > n THEN << >> ELSE Bytes(o[i]) \o f[i + 1]]
  BY <1>1, Zenon DEF IsStream
<1>4. /\ f[1] = Bytes(o[1]) \o f[2]
      /\ \A i \in 1 .. n : f[i + 1] = IF i + 1 > n THEN << >> ELSE Bytes(o[i + 1]) \o f[i + 2]
  <2>1. \A i \in 1 .. n + 1 : f[i] = IF i > n THEN << >> ELSE Bytes(o[i]) \o f[i + 1]
    BY <1>3, Zenon
  <2>2. 1 \in 1 .. n + 1 /\ ~ (1 > n) /\ 1 + 1 = 2
    BY <1>1
  <2>3. f[1] = Bytes(o[1]) \o f[2]
    BY <2>1, <2>2, Zenon
  <2>4. ASSUME NEW i \in 1 .. n
        PROVE  f[i + 1] = IF i + 1 > n THEN << >> ELSE Bytes(o[i + 1]) \o f[i + 2]
    <3>1. i + 1 \in 1 .. n + 1 /\ (i + 1) + 1 = i + 2
      BY <1>1
    <3>2. f[i + 1] = IF i + 1 > n THEN << >> ELSE Bytes(o[i + 1]) \o f[(i + 1) + 1]
      BY <2>1, <3>1, Zenon
    <3>3. QED
      BY <3>1, <3>2, Zenon
  <2>5. QED
    BY <2>3, <2>4
<1> DEFINE g == [i \in 1 .. n |-> f[i + 1]]
<1>5. g = [i \in 1 .. (n - 1) + 1 |-> IF i > n - 1 THEN << >> ELSE Bytes(Tail(o)[i]) \o g[i + 1]]
  <2>1. ASSUME NEW i \in 1 .. n
        PROVE  f[i + 1] = IF i > n - 1 THEN << >> ELSE Bytes(Tail(o)[i]) \o g[i + 1]
    <3>1. CASE i = n
      BY <1>1, <1>4, <3>1
    <3>2. CASE i # n
      <4>1. /\ i \in 1 .. n - 1 /\ i + 1 \in 1 .. n
            /\ ~ (i > n - 1) /\ ~ (i + 1 > n) /\ i + 1 + 1 = i + 2
        BY <1>1, <3>2
      <4>2. g[i + 1] = f[i + 2]
        BY <4>1
      <4>3. QED
        BY <1>2, <1>4, <4>1, <4>2, Zenon
    <3>3. QED
      BY <3>1, <3>2, Zenon
  <2>2. 1 .. n = 1 .. (n - 1) + 1
    BY <1>1
  <2> HIDE DEF g
  <2>3. g = [i \in 1 .. n |-> IF i > n - 1 THEN << >> ELSE Bytes(Tail(o)[i]) \o g[i + 1]]
    BY <2>1, Zenon DEF g
  <2>4. QED
    BY <2>2, <2>3, Zenon
<1>6. g[1] = f[2]
  BY <1>1
<1> HIDE DEF g
<1>7. IsStream(g, Tail(o))
  BY <1>2, <1>5, Zenon DEF IsStream
<1>8. QED
  BY <1>2, <1>4, <1>6, <1>7, Zenon

(* If the requests after the first have such a function, so have all of     *)
(* them.                                                                    *)
LEMMA StreamOfLonger ==
  ASSUME NEW o \in Seq(Askable), o # << >>, NEW g, IsStream(g, Tail(o))
  PROVE  \E f : IsStream(f, o)
<1>1. PICK n \in Nat : n = Len(o) /\ n > 0
  BY EmptySeq, LenProperties
<1>2. Len(Tail(o)) = n - 1 /\ \A i \in 1 .. n - 1 : Tail(o)[i] = o[i + 1]
  BY <1>1, HeadTailProperties
<1>3. g = [i \in 1 .. (n - 1) + 1 |-> IF i > n - 1 THEN << >> ELSE Bytes(Tail(o)[i]) \o g[i + 1]]
  BY <1>2, Zenon DEF IsStream
<1>4. \A i \in 1 .. n : g[i] = IF i > n - 1 THEN << >> ELSE Bytes(Tail(o)[i]) \o g[i + 1]
  <2>1. (n - 1) + 1 = n
    BY <1>1
  <2>2. QED
    BY <1>3, <2>1, Zenon
<1> DEFINE f == [i \in 1 .. n + 1 |-> IF i = 1 THEN Bytes(o[1]) \o g[1] ELSE g[i - 1]]
<1>5. ASSUME NEW i \in 1 .. n + 1
      PROVE  f[i] = IF i > n THEN << >> ELSE Bytes(o[i]) \o f[i + 1]
  <2>1. CASE i = 1
    <3>1. 2 \in 1 .. n + 1 /\ 1 \in 1 .. n + 1 /\ ~ (1 > n)
      BY <1>1
    <3>2. f[1] = Bytes(o[1]) \o g[1]
      BY <3>1, Zenon
    <3>3. f[2] = g[2 - 1]
      <4>1. 2 # 1
        OBVIOUS
      <4>2. QED
        BY <3>1, <4>1, Zenon
    <3> HIDE DEF f
    <3>4. f[1] = Bytes(o[1]) \o f[2]
      <4>1. 2 - 1 = 1
        OBVIOUS
      <4>2. QED
        BY <3>2, <3>3, <4>1
    <3>5. 1 + 1 = 2
      OBVIOUS
    <3>6. QED
      BY <2>1, <3>1, <3>4, <3>5, Zenon
  <2>2. CASE i # 1 /\ i > n
    <3>1. i - 1 \in 1 .. n /\ i - 1 > n - 1
      BY <1>1, <2>2
    <3>2. f[i] = g[i - 1]
      BY <2>2
    <3>3. QED
      BY <1>4, <2>2, <3>1, <3>2
  <2>3. CASE i # 1 /\ ~ (i > n)
    <3>1. PICK j \in 1 .. n - 1 : i = j + 1
      BY <1>1, <2>3
    <3>2. j \in 1 .. n /\ j + 2 \in 1 .. n + 1 /\ j + 2 # 1 /\ (j + 2) - 1 = j + 1 /\ ~ (j > n - 1)
      BY <1>1, <3>1
    <3>3. f[i] = g[j]
      BY <2>3, <3>1
    <3>4. f[i + 1] = g[j + 1]
      BY <3>1, <3>2
    <3>5. QED
      BY <1>2, <1>4, <2>3, <3>1, <3>2, <3>3, <3>4, Zenon
  <2>4. QED
    BY <2>1, <2>2, <2>3
<1>6. f = [i \in 1 .. n + 1 |-> f[i]]
  OBVIOUS
<1> HIDE DEF f
<1>7. f = [i \in 1 .. n + 1 |-> IF i > n THEN << >> ELSE Bytes(o[i]) \o f[i + 1]]
  BY <1>5, <1>6, Zenon
<1>8. IsStream(f, o)
  BY <1>1, <1>7, Zenon DEF IsStream
<1>9. QED
  BY <1>8

(* Induction on sequences of requests, over a set: from the tail to the     *)
(* whole.                                                                   *)
LEMMA SequenceInduction ==
  ASSUME NEW P, << >> \in P,
         \A o \in Seq(Askable) : o # << >> /\ Tail(o) \in P => o \in P
  PROVE  Seq(Askable) \subseteq P
<1> DEFINE L == {n \in Nat : \A o \in Seq(Askable) : Len(o) = n => o \in P}
<1>1. 0 \in L
  BY EmptySeq
<1>2. ASSUME NEW n \in Nat, n \in L PROVE n + 1 \in L
  <2>1. ASSUME NEW o \in Seq(Askable), Len(o) = n + 1 PROVE o \in P
    <3>1. o # << >> /\ Tail(o) \in Seq(Askable) /\ Len(Tail(o)) = n
      BY <2>1, EmptySeq, HeadTailProperties
    <3>2. Tail(o) \in P
      BY <1>2, <3>1, Zenon
    <3>3. QED
      BY <3>1, <3>2
  <2>2. QED
    BY <2>1
<1> HIDE DEF L
<1>3. Nat \subseteq L
  BY <1>1, <1>2, Induction
<1>4. QED
  BY <1>3, LenProperties DEF L

(* The recursive function of Stream exists,                                 *)
LEMMA StreamExists ==
  ASSUME NEW o \in Seq(Askable)
  PROVE  \E f : IsStream(f, o)
<1> DEFINE P == {s \in Seq(Askable) : \E f : IsStream(f, s)}
<1>1. << >> \in P
  <2> DEFINE f == [i \in 1 .. 1 |-> << >>]
  <2>1. Len(<< >>) = 0 /\ << >> \in Seq(Askable)
    OBVIOUS
  <2>2. \A i \in 1 .. 1 : i > 0
    OBVIOUS
  <2>3. f = [i \in 1 .. 0 + 1 |-> IF i > 0 THEN << >> ELSE Bytes(<< >>[i]) \o f[i + 1]]
    <3>1. 0 + 1 = 1
      OBVIOUS
    <3>2. QED
      BY <2>2, <3>1, Zenon
  <2> HIDE DEF f
  <2>4. IsStream(f, << >>)
    BY <2>1, <2>3, Zenon DEF IsStream
  <2>5. QED
    BY <2>1, <2>4
<1>2. ASSUME NEW s \in Seq(Askable), s # << >>, Tail(s) \in P PROVE s \in P
  BY <1>2, StreamOfLonger
<1> HIDE DEF P
<1>3. Seq(Askable) \subseteq P
  BY <1>1, <1>2, SequenceInduction
<1>4. QED
  BY <1>3 DEF P

(* it is determined where Stream looks at it,                               *)
LEMMA StreamUnique ==
  ASSUME NEW o \in Seq(Askable), NEW f, NEW g, IsStream(f, o), IsStream(g, o)
  PROVE  f[1] = g[1]
<1> DEFINE P == {s \in Seq(Askable) : \A h, k : IsStream(h, s) /\ IsStream(k, s) => h[1] = k[1]}
<1>1. ASSUME NEW h, IsStream(h, << >>) PROVE h[1] = << >>
  <2>1. Len(<< >>) = 0 /\ 1 \in 1 .. 0 + 1 /\ 1 > 0
    OBVIOUS
  <2>2. h = [i \in 1 .. 0 + 1 |-> IF i > 0 THEN << >> ELSE Bytes(<< >>[i]) \o h[i + 1]]
    BY <1>1, <2>1, Zenon DEF IsStream
  <2>3. QED
    BY <2>1, <2>2, Zenon
<1>2. << >> \in P
  BY <1>1
<1>3. ASSUME NEW s \in Seq(Askable), s # << >>, Tail(s) \in P PROVE s \in P
  <2>1. ASSUME NEW h, NEW k, IsStream(h, s), IsStream(k, s) PROVE h[1] = k[1]
    <3>1. PICK h1 : IsStream(h1, Tail(s)) /\ h[1] = Bytes(Head(s)) \o h1[1]
      BY <1>3, <2>1, StreamOfTail, Zenon
    <3>2. PICK k1 : IsStream(k1, Tail(s)) /\ k[1] = Bytes(Head(s)) \o k1[1]
      BY <1>3, <2>1, StreamOfTail, Zenon
    <3>3. h1[1] = k1[1]
      BY <1>3, <3>1, <3>2
    <3>4. QED
      BY <3>1, <3>2, <3>3
  <2>2. QED
    BY <2>1
<1> HIDE DEF P
<1>4. Seq(Askable) \subseteq P
  BY <1>2, <1>3, SequenceInduction
<1>5. o \in P
  BY <1>4
<1>6. QED
  BY <1>5 DEF P

(* and so Stream is the first value of any such function.                   *)
LEMMA StreamChosen ==
  ASSUME NEW o \in Seq(Askable), NEW f, IsStream(f, o)
  PROVE  Stream(o) = f[1]
<1> DEFINE g == CHOOSE h : IsStream(h, o)
<1>1. IsStream(g, o)
  BY Zenon
<1>2. Stream(o) = g[1]
  BY StreamIs
<1> HIDE DEF g
<1>3. QED
  BY <1>1, <1>2, StreamUnique

(* No request, no byte.                                                     *)
LEMMA StreamOfNone == Stream(<< >>) = << >>
<1>1. << >> \in Seq(Askable)
  OBVIOUS
<1>2. PICK h : IsStream(h, << >>)
  BY <1>1, StreamExists, Zenon
<1>3. h[1] = << >>
  <2>1. Len(<< >>) = 0 /\ 1 \in 1 .. 0 + 1 /\ 1 > 0
    OBVIOUS
  <2>2. h = [i \in 1 .. 0 + 1 |-> IF i > 0 THEN << >> ELSE Bytes(<< >>[i]) \o h[i + 1]]
    BY <1>2, <2>1, Zenon DEF IsStream
  <2>3. QED
    BY <2>1, <2>2, Zenon
<1>4. QED
  BY <1>1, <1>2, <1>3, StreamChosen, Zenon

(* The bytes of the first request, and those of the others.                *)
LEMMA StreamOfSome ==
  ASSUME NEW o \in Seq(Askable), o # << >>
  PROVE  Stream(o) = Bytes(Head(o)) \o Stream(Tail(o))
<1>1. PICK f : IsStream(f, o)
  BY StreamExists
<1>2. PICK g : IsStream(g, Tail(o)) /\ f[1] = Bytes(Head(o)) \o g[1]
  BY <1>1, StreamOfTail, Zenon
<1>3. Tail(o) \in Seq(Askable)
  BY HeadTailProperties
<1>4. Stream(o) = f[1] /\ Stream(Tail(o)) = g[1]
  BY <1>1, <1>2, <1>3, StreamChosen, Zenon
<1>5. QED
  BY <1>2, <1>4, Zenon

(* A stream is a sequence of bytes.                                         *)
LEMMA StreamType ==
  ASSUME NEW o \in Seq(Askable)
  PROVE  Stream(o) \in Seq(Byte)
<1> DEFINE P == {s \in Seq(Askable) : Stream(s) \in Seq(Byte)}
<1>1. << >> \in P
  <2>1. << >> \in Seq(Askable) /\ << >> \in Seq(Byte)
    OBVIOUS
  <2>2. QED
    BY <2>1, StreamOfNone, Zenon
<1>2. ASSUME NEW s \in Seq(Askable), s # << >>, Tail(s) \in P PROVE s \in P
  <2>1. Head(s) \in Askable
    BY <1>2, HeadTailProperties
  <2>2. Bytes(Head(s)) \in Seq(Byte) /\ Stream(Tail(s)) \in Seq(Byte)
    BY <1>2, <2>1, BytesType
  <2>3. Bytes(Head(s)) \o Stream(Tail(s)) \in Seq(Byte)
    BY <2>2, ConcatProperties
  <2>4. Stream(s) \in Seq(Byte)
    BY <1>2, <2>3, StreamOfSome, Zenon
  <2>5. QED
    BY <2>4, Zenon
<1> HIDE DEF P
<1>3. Seq(Askable) \subseteq P
  BY <1>1, <1>2, SequenceInduction
<1>4. QED
  BY <1>3 DEF P

(* One more request: its bytes follow.                                     *)
LEMMA StreamOfMore ==
  ASSUME NEW q \in Askable, NEW o \in Seq(Askable)
  PROVE  Stream(Append(o, q)) = Stream(o) \o Bytes(q)
<1> DEFINE P == {s \in Seq(Askable) : Stream(Append(s, q)) = Stream(s) \o Bytes(q)}
<1>1. Bytes(q) \in Seq(Byte)
  BY BytesType
<1>2. << >> \in P
  <2>1. /\ Append(<< >>, q) \in Seq(Askable) /\ Append(<< >>, q) # << >>
        /\ Head(Append(<< >>, q)) = q /\ Tail(Append(<< >>, q)) = << >>
    OBVIOUS
  <2>2. Stream(Append(<< >>, q)) = Bytes(q) \o Stream(<< >>)
    BY <2>1, StreamOfSome, Zenon
  <2>3. Bytes(q) \o << >> = Bytes(q) /\ << >> \o Bytes(q) = Bytes(q)
    BY <1>1, ConcatEmptySeq
  <2>4. QED
    BY <2>2, <2>3, StreamOfNone
<1>3. ASSUME NEW s \in Seq(Askable), s # << >>, Tail(s) \in P PROVE s \in P
  <2>1. /\ Append(s, q) \in Seq(Askable) /\ Append(s, q) # << >>
        /\ Head(Append(s, q)) = Head(s) /\ Tail(Append(s, q)) = Append(Tail(s), q)
    BY <1>3, AppendProperties, HeadTailProperties, HeadTailAppend
  <2>2. Stream(Append(s, q)) = Bytes(Head(s)) \o Stream(Append(Tail(s), q))
    BY <2>1, StreamOfSome, Zenon
  <2>3. Stream(Append(Tail(s), q)) = Stream(Tail(s)) \o Bytes(q)
    BY <1>3
  <2>4. Head(s) \in Askable /\ Tail(s) \in Seq(Askable)
    BY <1>3, HeadTailProperties
  <2>5. Bytes(Head(s)) \in Seq(Byte) /\ Stream(Tail(s)) \in Seq(Byte)
    BY <2>4, BytesType, StreamType, Zenon
  <2>6. Bytes(Head(s)) \o (Stream(Tail(s)) \o Bytes(q))
          = (Bytes(Head(s)) \o Stream(Tail(s))) \o Bytes(q)
    BY <1>1, <2>5, ConcatThree, Zenon
  <2>7. Stream(s) = Bytes(Head(s)) \o Stream(Tail(s))
    BY <1>3, StreamOfSome
  <2>8. QED
    BY <2>2, <2>3, <2>6, <2>7, Zenon
<1> HIDE DEF P
<1>4. Seq(Askable) \subseteq P
  BY <1>2, <1>3, SequenceInduction
<1>5. QED
  BY <1>4 DEF P

------------------------------------------------------------------------------
(* What a reader finds in its buffer.                                      *)

(* A buffer that is longer than the first part f of the stream holds it.   *)
BeginsWith(b, f, l, s) == \E d \in Seq(Byte) : b = f \o d /\ d \o l = s

(* Two ways to cut one sequence: the longer first part begins with the      *)
(* shorter.                                                                 *)
LEMMA Cut ==
  ASSUME NEW b \in Seq(Byte), NEW l \in Seq(Byte), NEW f \in Seq(Byte), NEW s \in Seq(Byte),
         b \o l = f \o s, Len(f) <= Len(b)
  PROVE  BeginsWith(b, f, l, s)
<1>1. PICK n \in Nat : n = Len(f)
  BY LenProperties
<1>2. PICK m \in Nat : m = Len(b) /\ n <= m
  BY <1>1, LenProperties
<1> DEFINE d == SubSeq(b, n + 1, m)
           h == SubSeq(b, 1, n)
<1>3. h \o d = b
  <2>1. /\ 1 \in 1 .. Len(b) + 1 /\ n \in 1 - 1 .. Len(b) /\ m \in n .. Len(b)
    BY <1>2
  <2>2. SubSeq(b, 1, n) \o SubSeq(b, n + 1, m) = SubSeq(b, 1, m)
    BY <2>1, ConcatAdjacentSubSeq, Zenon
  <2>3. QED
    BY <1>2, <2>2, SubSeqFull, Zenon
<1>4. h = f
  <2>1. \A i \in 1 .. Len(f) : b[0 + i] = f[i]
    <3>1. \A i \in 1 .. Len(b) : (b \o l)[i] = b[i]
      BY Concat
    <3>2. \A i \in 1 .. Len(f) : (f \o s)[i] = f[i]
      BY Concat
    <3>3. \A i \in 1 .. Len(f) : i \in 1 .. Len(b) /\ 0 + i = i
      BY <1>1, <1>2
    <3>4. QED
      BY <3>1, <3>2, <3>3
  <2>2. 0 + Len(f) <= Len(b) /\ 0 + 1 = 1 /\ 0 + Len(f) = n
    BY <1>1, <1>2
  <2>3. SubSeq(b, 0 + 1, 0 + Len(f)) = f
    BY <2>1, <2>2, Part
  <2>4. QED
    BY <2>2, <2>3
<1>5. d \in Seq(Byte)
  <2>1. \A i \in n + 1 .. m : b[i] \in Byte
    <3>1. \A i \in n + 1 .. m : i \in 1 .. Len(b)
      BY <1>2
    <3>2. QED
      BY <3>1, ElementOfSeq
  <2>2. n + 1 \in Int /\ m \in Int
    BY <1>1, <1>2
  <2>3. QED
    BY <2>1, <2>2, SubSeqProperties
<1> HIDE DEF d, h
<1>6. f \o (d \o l) = f \o s
  <2>1. (f \o d) \o l = f \o (d \o l)
    BY <1>5, ConcatThree, ZenonT(60)
  <2>2. QED
    BY <1>3, <1>4, <2>1, Zenon
<1>7. d \o l \in Seq(Byte)
  BY <1>5, Concat
<1>8. d \o l = s
  BY <1>6, <1>7, ConcatSimplifications, Zenon
<1>9. QED
  BY <1>3, <1>4, <1>5, <1>8, Zenon DEF BeginsWith

(* An empty buffer holds neither a version request nor a frame.             *)
LEMMA EmptyBuffer ==
  /\ First(<< >>) # Version
  /\ ParseFramed(<< >>) = Parsed(None, << >>)
  BY DEF First, Version, ParseFramed

(* The version byte is at the head of the buffer just when it is the       *)
(* oldest request: no frame begins with it.                                *)
LEMMA SeesVersion ==
  ASSUME NEW o \in Seq(Askable), NEW b \in Seq(Byte), NEW l \in Seq(Byte),
         b \o l = Stream(o), b # << >>, Head(o) = Version, o # << >>
  PROVE  First(b) = Version /\ Tail(b) \o l = Stream(Tail(o))
<1>1. Stream(o) = Version \o Stream(Tail(o))
  BY StreamOfSome, Zenon DEF Bytes
<1>2. Version \in Seq(Byte) /\ Len(Version) = 1 /\ Version[1] = 70
  <2>1. 70 \in Byte
    BY DEF Byte
  <2>2. QED
    BY <2>1 DEF Version
<1>3. Stream(Tail(o)) \in Seq(Byte)
  BY HeadTailProperties, StreamType, Zenon
<1>4. Len(b) \in Nat /\ Len(b) # 0
  BY LenProperties, EmptySeq
<1>5. PICK d \in Seq(Byte) : b = Version \o d /\ d \o l = Stream(Tail(o))
  <2>1. Len(Version) <= Len(b) /\ b \o l = Version \o Stream(Tail(o))
    BY <1>1, <1>2, <1>4
  <2>2. BeginsWith(b, Version, l, Stream(Tail(o)))
    BY <1>2, <1>3, <2>1, Cut, Zenon
  <2>3. QED
    BY <2>2, Zenon DEF BeginsWith
<1>6. Head(b) = 70 /\ Tail(b) = d
  BY <1>5, SMTT(60) DEF Version
<1>7. QED
  BY <1>5, <1>6 DEF First, Version

(* When the oldest request is a frame, parsing finds that frame, or nothing *)
(* and waits: it finds no other and drops no byte.                          *)
LEMMA SeesFrame ==
  ASSUME NEW o \in Seq(Askable), NEW b \in Seq(Byte), NEW l \in Seq(Byte),
         b \o l = Stream(o), b # << >>, Head(o) # Version, o # << >>
  PROVE  /\ First(b) # Version
         /\ \/ ParseFramed(b) = Parsed(None, b)
            \/ /\ ParseFramed(b).request = Head(o)
               /\ ParseFramed(b).rest \in Seq(Byte)
               /\ ParseFramed(b).rest \o l = Stream(Tail(o))
<1> DEFINE q == Head(o)
           f == Frame(q)
           s == Stream(Tail(o))
<1>1. q \in DOMAIN Crc
  BY HeadTailProperties DEF Askable
<1>2. Stream(o) = f \o s
  BY StreamOfSome, Zenon DEF Bytes
<1>3. s \in Seq(Byte)
  BY HeadTailProperties, StreamType, Zenon
<1>4. f \in Seq(Byte) /\ f[1] # 70 /\ Len(f) \in Nat /\ Len(f) > 0
  <2> HIDE DEF q
  <2>1. QED
    BY <1>1, FrameType, LenProperties
<1> HIDE DEF q, f, s
<1>5. Len(b) \in Nat /\ Len(b) > 0
  BY LenProperties, EmptySeq
<1>6. /\ \A i \in 1 .. Len(b) : (f \o s)[i] = b[i]
      /\ \A i \in 1 .. Len(f) : (f \o s)[i] = f[i]
  BY <1>2, <1>3, <1>4, Concat
<1>7. First(b) # Version
  <2>1. b[1] = f[1]
    BY <1>4, <1>5, <1>6
  <2>2. Head(b) # 70
    BY <1>4, <2>1
  <2>3. QED
    BY <2>2 DEF First, Version
<1>8. CASE Len(b) < Len(f)
  <2>1. \A i \in 1 .. Len(b) : b[i] = Frame(q)[i]
    BY <1>4, <1>5, <1>6, <1>8 DEF f
  <2>2. ParseFramed(b) = Parsed(None, b)
    BY <1>1, <1>8, <2>1, PartialFrame DEF f
  <2>3. QED
    BY <1>7, <2>2
<1>9. CASE Len(f) <= Len(b)
  <2>1. PICK d \in Seq(Byte) : b = f \o d /\ d \o l = s
    <3>1. b \o l = f \o s
      BY <1>2
    <3>2. BeginsWith(b, f, l, s)
      BY <1>3, <1>4, <1>9, <3>1, Cut, Zenon
    <3>3. QED
      BY <3>2, Zenon DEF BeginsWith
  <2>2. ParseFramed(b) = Parsed(q, d)
    BY <1>1, <2>1, WholeFrame DEF f
  <2>3. ParseFramed(b).request = q /\ ParseFramed(b).rest = d
    BY <2>2 DEF Parsed
  <2>4. QED
    BY <1>7, <2>1, <2>3 DEF q, s
<1>10. QED
  BY <1>4, <1>5, <1>8, <1>9

(* None of what has been asked, and nothing else, is in the buffer: the    *)
(* three things a reader may see there.                                    *)
InOrder(b, l, o) == b \o l = Stream(o)

(* If the buffer begins with a version request, that is the oldest request, *)
(* and taking it leaves the bytes of the others.                            *)
LEMMA VersionIsNext ==
  ASSUME NEW o \in Seq(Askable), NEW b \in Seq(Byte), NEW l \in Seq(Byte),
         InOrder(b, l, o), First(b) = Version
  PROVE  /\ o # << >> /\ Tail(o) \in Seq(Askable)
         /\ b # << >> /\ Tail(b) \in Seq(Byte) /\ InOrder(Tail(b), l, Tail(o))
<1>1. b # << >>
  BY EmptyBuffer
<1>2. o # << >>
  <2>1. CASE o = << >>
    <3>1. b \o l = << >>
      BY <2>1, StreamOfNone DEF InOrder
    <3>2. QED
      BY <1>1, <3>1, ConcatSimplifications
  <2>2. QED
    BY <2>1
<1>3. b \o l = Stream(o)
  BY DEF InOrder
<1>4. Head(o) = Version
  BY <1>1, <1>2, <1>3, SeesFrame, Zenon
<1>5. Tail(b) \o l = Stream(Tail(o))
  BY <1>1, <1>2, <1>3, <1>4, SeesVersion, Zenon
<1>6. QED
  BY <1>1, <1>2, <1>5, HeadTailProperties DEF InOrder

(* The frame that parsing finds is the oldest request, and what it leaves   *)
(* are the bytes of the others.                                             *)
LEMMA FrameIsNext ==
  ASSUME NEW o \in Seq(Askable), NEW b \in Seq(Byte), NEW l \in Seq(Byte),
         InOrder(b, l, o), First(b) # Version, ParseFramed(b).request # None
  PROVE  /\ o # << >> /\ Tail(o) \in Seq(Askable)
         /\ ParseFramed(b).request = Head(o)
         /\ ParseFramed(b).rest \in Seq(Byte) /\ InOrder(ParseFramed(b).rest, l, Tail(o))
<1>1. b # << >>
  BY EmptyBuffer DEF Parsed
<1>2. o # << >>
  <2>1. CASE o = << >>
    <3>1. b \o l = << >>
      BY <2>1, StreamOfNone DEF InOrder
    <3>2. QED
      BY <1>1, <3>1, ConcatSimplifications
  <2>2. QED
    BY <2>1
<1>3. b \o l = Stream(o)
  BY DEF InOrder
<1>4. Head(o) # Version
  BY <1>1, <1>2, <1>3, SeesVersion, Zenon
<1>5. ParseFramed(b) # Parsed(None, b)
  BY DEF Parsed
<1>6. /\ ParseFramed(b).request = Head(o) /\ ParseFramed(b).rest \in Seq(Byte)
      /\ ParseFramed(b).rest \o l = Stream(Tail(o))
  BY <1>1, <1>2, <1>3, <1>4, <1>5, SeesFrame, Zenon
<1>7. QED
  BY <1>2, <1>6, HeadTailProperties DEF InOrder

(* While the bytes are in order a fruitless parse leaves the buffer as it   *)
(* is.                                                                      *)
LEMMA NothingIsLost ==
  ASSUME NEW o \in Seq(Askable), NEW b \in Seq(Byte), NEW l \in Seq(Byte),
         InOrder(b, l, o), First(b) # Version, ParseFramed(b).request = None
  PROVE  ParseFramed(b).rest = b
<1>1. CASE b = << >>
  BY <1>1, EmptyBuffer DEF Parsed
<1>2. CASE b # << >>
  <2>1. o # << >>
    <3>1. CASE o = << >>
      <4>1. b \o l = << >>
        BY <3>1, StreamOfNone DEF InOrder
      <4>2. QED
        BY <1>2, <4>1, ConcatSimplifications
    <3>2. QED
      BY <3>1
  <2>2. b \o l = Stream(o)
    BY DEF InOrder
  <2>3. Head(o) # Version
    BY <1>2, <2>1, <2>2, SeesVersion, Zenon
  <2>4. Head(o) # None
    <3>1. Head(o) \in DOMAIN Crc
      BY <2>1, <2>3, HeadTailProperties DEF Askable
    <3>2. PICK p \in DOMAIN Crc : p = Head(o)
      BY <3>1
    <3>3. p \in Seq(Byte) /\ 1 <= Len(p)
      BY FrameType
    <3>4. p # << >>
      BY <3>3
    <3>5. QED
      BY <3>2, <3>4 DEF None
  <2>5. ParseFramed(b) = Parsed(None, b)
    BY <1>2, <2>1, <2>2, <2>3, <2>4, SeesFrame, Zenon
  <2>6. QED
    BY <2>5 DEF Parsed
<1>3. QED
  BY <1>1, <1>2

------------------------------------------------------------------------------
(* The steps of a reader.                                                  *)

(* Bytes that move from the line to the buffer stay where they are in the  *)
(* stream.                                                                 *)
LEMMA Reading ==
  ASSUME NEW b \in Seq(Byte), NEW l \in Seq(Byte), NEW k \in Int, 1 <= k, k <= Len(l),
         NEW o, InOrder(b, l, o)
  PROVE  /\ b \o SubSeq(l, 1, k) \in Seq(Byte) /\ Drop(l, k) \in Seq(Byte)
         /\ InOrder(b \o SubSeq(l, 1, k), Drop(l, k), o)
         /\ b # << >> => /\ b \o SubSeq(l, 1, k) # << >>
                         /\ First(b \o SubSeq(l, 1, k)) = First(b)
<1> DEFINE h == SubSeq(l, 1, k)
           t == SubSeq(l, k + 1, Len(l))
<1>1. PICK n \in Nat : n = Len(l) /\ k <= n
  BY LenProperties
<1>2. h \o t = l
  <2>1. 1 \in 1 .. Len(l) + 1 /\ k \in 1 - 1 .. Len(l) /\ Len(l) \in k .. Len(l)
    BY <1>1
  <2>2. SubSeq(l, 1, k) \o SubSeq(l, k + 1, Len(l)) = SubSeq(l, 1, Len(l))
    BY <2>1, ConcatAdjacentSubSeq
  <2>3. QED
    BY <2>2, SubSeqFull
<1>3. h \in Seq(Byte) /\ t \in Seq(Byte)
  <2>1. \A i \in 1 .. k : l[i] \in Byte
    <3>1. \A i \in 1 .. k : i \in 1 .. Len(l)
      BY <1>1
    <3>2. QED
      BY <3>1, ElementOfSeq
  <2>2. \A i \in k + 1 .. n : l[i] \in Byte
    <3>1. \A i \in k + 1 .. n : i \in 1 .. Len(l)
      BY <1>1
    <3>2. QED
      BY <3>1, ElementOfSeq
  <2>3. 1 \in Int /\ k \in Int /\ k + 1 \in Int /\ n \in Int
    BY <1>1
  <2>4. SubSeq(l, k + 1, n) \in Seq(Byte)
    BY <2>2, <2>3, SubSeqProperties
  <2>5. QED
    BY <1>1, <2>1, <2>3, <2>4, SubSeqProperties
<1>4. Drop(l, k) = t
  BY DEF Drop
<1> HIDE DEF h, t
<1>5. b \o h \in Seq(Byte) /\ (b \o h) \o t = b \o l
  <2>1. (b \o h) \o t = b \o (h \o t)
    BY <1>3, ConcatThree, Zenon
  <2>2. QED
    BY <1>2, <1>3, <2>1, ConcatProperties
<1>6. ASSUME b # << >> PROVE b \o h # << >> /\ First(b \o h) = First(b)
  <2>1. Len(b) \in Nat /\ Len(b) > 0
    BY <1>6, LenProperties, EmptySeq
  <2>2. (b \o h)[1] = b[1] /\ Len(b \o h) = Len(b) + Len(h) /\ Len(h) \in Nat
    BY <1>3, <2>1, Concat, LenProperties
  <2>3. b \o h # << >>
    BY <2>1, <2>2
  <2>4. Head(b \o h) = Head(b)
    <3>1. \A u \in Seq(Byte) : Head(u) = u[1]
      OBVIOUS
    <3>2. QED
      BY <1>5, <2>2, <3>1, Zenon
  <2>5. QED
    BY <1>6, <2>3, <2>4 DEF First
<1>7. InOrder(b \o h, t, o)
  BY <1>5 DEF InOrder
<1>8. QED
  BY <1>3, <1>4, <1>5, <1>6, <1>7 DEF h

(* A request more: its bytes follow on the line.                            *)
LEMMA Asking ==
  ASSUME NEW b \in Seq(Byte), NEW l \in Seq(Byte), NEW o \in Seq(Askable), NEW q \in Askable,
         InOrder(b, l, o)
  PROVE  /\ l \o Bytes(q) \in Seq(Byte) /\ Append(o, q) \in Seq(Askable)
         /\ InOrder(b, l \o Bytes(q), Append(o, q))
<1>1. Bytes(q) \in Seq(Byte)
  BY BytesType
<1>2. (b \o l) \o Bytes(q) = b \o (l \o Bytes(q))
  BY <1>1, ConcatThree, Zenon
<1>3. Stream(Append(o, q)) = Stream(o) \o Bytes(q)
  BY StreamOfMore
<1>4. QED
  BY <1>1, <1>2, <1>3, ConcatProperties, AppendProperties, Zenon DEF InOrder

(* While no byte has been lost or added, all that was asked and is not yet *)
(* answered is in the buffer and on the line, and nothing else.            *)
Kept ==
  /\ faults \in Nat
  /\ faults = 0 => /\ line \in Seq(Byte) /\ buffer \in Seq(Byte) /\ owed \in Seq(Askable)
                   /\ InOrder(buffer, line, owed)

(* The steps of every program, as far as Kept tells them apart. A client    *)
(* asks.                                                                    *)
Asks(q) == /\ line' = line \o Bytes(q)
           /\ owed' = IF faults = 0 THEN Append(owed, q) ELSE owed
           /\ UNCHANGED <<buffer, faults>>

(* A fault of the line.                                                     *)
Breaks == faults' = faults + 1

(* Nothing that Kept speaks of changes.                                     *)
Rests == UNCHANGED <<line, buffer, owed, faults>>

(* A program reads some of the bytes on the line into its buffer.           *)
Reads == /\ \E k \in Int : /\ 1 <= k /\ k <= Len(line)
                           /\ buffer' = buffer \o SubSeq(line, 1, k)
                           /\ line' = Drop(line, k)
         /\ UNCHANGED <<owed, faults>>

(* The oldest request is answered.                                          *)
Forgets == owed' = IF owed = << >> THEN owed ELSE Tail(owed)

(* A version request is taken from the buffer,                              *)
TakesVersion == /\ First(buffer) = Version
                /\ buffer' = Tail(buffer)
                /\ Forgets
                /\ UNCHANGED <<line, faults>>

(* or a frame is,                                                           *)
TakesFrame == /\ faults = 0 => First(buffer) # Version
              /\ ParseFramed(buffer).request # None
              /\ buffer' = ParseFramed(buffer).rest
              /\ Forgets
              /\ UNCHANGED <<line, faults>>

(* or the parser finds no request and keeps what it keeps.                  *)
Skips == /\ faults = 0 => First(buffer) # Version
         /\ ParseFramed(buffer).request = None
         /\ buffer' = ParseFramed(buffer).rest
         /\ UNCHANGED <<line, owed, faults>>

(* Each of these steps keeps the bytes in order. A client asks,             *)
LEMMA AsksKept ==
  ASSUME Kept, NEW q \in Askable, Asks(q)
  PROVE  Kept'
<1>1. faults' = faults /\ buffer' = buffer /\ line' = line \o Bytes(q)
  BY DEF Asks
<1>2. CASE faults = 0
  <2>1. /\ line \in Seq(Byte) /\ buffer \in Seq(Byte) /\ owed \in Seq(Askable)
        /\ InOrder(buffer, line, owed)
    BY <1>2 DEF Kept
  <2>2. owed' = Append(owed, q)
    BY <1>2 DEF Asks
  <2>3. /\ line' \in Seq(Byte) /\ owed' \in Seq(Askable)
        /\ InOrder(buffer, line', owed')
    BY <1>1, <2>1, <2>2, Asking
  <2>4. InOrder(buffer, line, owed)'
    BY <1>1, <2>3 DEF InOrder
  <2>5. QED
    BY <1>1, <2>1, <2>3, <2>4 DEF Kept
<1>3. CASE faults # 0
  BY <1>1, <1>3 DEF Kept
<1>4. QED
  BY <1>2, <1>3

(* a fault of the line ends what is promised,                               *)
LEMMA BreaksKept ==
  ASSUME Kept, Breaks
  PROVE  Kept' /\ faults' # 0
<1>1. PICK n \in Nat : faults = n
  BY DEF Kept
<1>2. n + 1 \in Nat /\ n + 1 # 0
  OBVIOUS
<1>3. faults' = n + 1
  BY <1>1 DEF Breaks
<1>4. faults' \in Nat /\ faults' # 0
  BY <1>2, <1>3
<1>5. QED
  BY <1>4 DEF Kept

(* a step of something else,                                                *)
LEMMA RestsKept ==
  ASSUME Kept, Rests
  PROVE  Kept'
  BY DEF Kept, Rests, InOrder

(* a read, which changes no byte the buffer already has,                    *)
LEMMA ReadsKept ==
  ASSUME Kept, Reads
  PROVE  /\ Kept'
         /\ faults = 0 /\ buffer # << >> => buffer' # << >> /\ First(buffer') = First(buffer)
<1>1. faults' = faults /\ owed' = owed
  BY DEF Reads
<1>2. CASE faults = 0
  <2>1. /\ line \in Seq(Byte) /\ buffer \in Seq(Byte) /\ owed \in Seq(Askable)
        /\ InOrder(buffer, line, owed)
    BY <1>2 DEF Kept
  <2>2. PICK k \in Int : /\ 1 <= k /\ k <= Len(line)
                         /\ buffer' = buffer \o SubSeq(line, 1, k)
                         /\ line' = Drop(line, k)
    BY Zenon DEF Reads
  <2>3. /\ buffer' \in Seq(Byte) /\ line' \in Seq(Byte) /\ InOrder(buffer', line', owed)
        /\ buffer # << >> => buffer' # << >> /\ First(buffer') = First(buffer)
    BY <2>1, <2>2, Reading
  <2>4. InOrder(buffer, line, owed)'
    BY <1>1, <2>3 DEF InOrder
  <2>5. QED
    BY <1>1, <2>1, <2>3, <2>4 DEF Kept
<1>3. CASE faults # 0
  BY <1>1, <1>3 DEF Kept
<1>4. QED
  BY <1>2, <1>3

(* a version request is answered,                                           *)
LEMMA TakesVersionKept ==
  ASSUME Kept, TakesVersion
  PROVE  Kept'
<1>1. faults' = faults /\ line' = line /\ buffer' = Tail(buffer) /\ First(buffer) = Version
  BY DEF TakesVersion
<1>2. CASE faults = 0
  <2>1. /\ line \in Seq(Byte) /\ buffer \in Seq(Byte) /\ owed \in Seq(Askable)
        /\ InOrder(buffer, line, owed)
    BY <1>2 DEF Kept
  <2>2. /\ owed # << >> /\ Tail(owed) \in Seq(Askable)
        /\ Tail(buffer) \in Seq(Byte) /\ InOrder(Tail(buffer), line, Tail(owed))
    BY <1>1, <2>1, VersionIsNext
  <2>3. owed' = Tail(owed)
    BY <2>2 DEF TakesVersion, Forgets
  <2>4. InOrder(buffer, line, owed)'
    BY <1>1, <2>2, <2>3 DEF InOrder
  <2>5. QED
    BY <1>1, <2>1, <2>2, <2>3, <2>4 DEF Kept
<1>3. CASE faults # 0
  BY <1>1, <1>3 DEF Kept
<1>4. QED
  BY <1>2, <1>3

(* a framed request is answered,                                            *)
LEMMA TakesFrameKept ==
  ASSUME Kept, TakesFrame
  PROVE  Kept'
<1>1. faults' = faults /\ line' = line /\ buffer' = ParseFramed(buffer).rest
  BY DEF TakesFrame
<1>2. CASE faults = 0
  <2>1. /\ line \in Seq(Byte) /\ buffer \in Seq(Byte) /\ owed \in Seq(Askable)
        /\ InOrder(buffer, line, owed)
    BY <1>2 DEF Kept
  <2>2. First(buffer) # Version /\ ParseFramed(buffer).request # None
    BY <1>2 DEF TakesFrame
  <2>3. /\ owed # << >> /\ Tail(owed) \in Seq(Askable)
        /\ ParseFramed(buffer).rest \in Seq(Byte)
        /\ InOrder(ParseFramed(buffer).rest, line, Tail(owed))
    BY <2>1, <2>2, FrameIsNext
  <2>4. owed' = Tail(owed)
    BY <2>3 DEF TakesFrame, Forgets
  <2>5. InOrder(buffer, line, owed)'
    BY <1>1, <2>3, <2>4 DEF InOrder
  <2>6. QED
    BY <1>1, <2>1, <2>3, <2>4, <2>5 DEF Kept
<1>3. CASE faults # 0
  BY <1>1, <1>3 DEF Kept
<1>4. QED
  BY <1>2, <1>3

(* and parsing to no avail drops nothing.                                   *)
LEMMA SkipsKept ==
  ASSUME Kept, Skips
  PROVE  Kept' /\ (faults = 0 => buffer' = buffer)
<1>1. faults' = faults /\ line' = line /\ owed' = owed /\ buffer' = ParseFramed(buffer).rest
  BY DEF Skips
<1>2. CASE faults = 0
  <2>1. /\ line \in Seq(Byte) /\ buffer \in Seq(Byte) /\ owed \in Seq(Askable)
        /\ InOrder(buffer, line, owed)
    BY <1>2 DEF Kept
  <2>2. First(buffer) # Version /\ ParseFramed(buffer).request = None
    BY <1>2 DEF Skips
  <2>3. buffer' = buffer
    BY <1>1, <2>1, <2>2, NothingIsLost
  <2>4. InOrder(buffer, line, owed)'
    BY <1>1, <2>1, <2>3 DEF InOrder
  <2>5. QED
    BY <1>1, <2>1, <2>3, <2>4 DEF Kept
<1>3. CASE faults # 0
  BY <1>1, <1>3 DEF Kept
<1>4. QED
  BY <1>2, <1>3

------------------------------------------------------------------------------
(* The reader of the replay server and of the simulator of exampleFiles:   *)
(* it waits for a length or for the rest of a request only when one has    *)
(* begun, and sleeps only when none has arrived.                           *)
Facing == faults = 0 /\ pc \in {"head", "fill"} => buffer # << >> /\ First(buffer) # Version

(* A reader sleeps only when its buffer has no whole request.               *)
Asleep == faults = 0 /\ pc = "wait" =>
            ParseFramed(buffer).request = None /\ First(buffer) # Version

(* The invariant of the readers: the replay server and the simulator of     *)
(* exampleFiles.                                                            *)
Reader == Kept /\ Facing /\ Asleep

(* The steps of a reader and of its line, with the places of its loop.      *)
Moves ==
  \/ (\E q \in Askable : Asks(q)) /\ pc' = pc
  \/ Breaks
  \/ Rests /\ pc' = pc
  \/ pc = "wait" /\ (Reads \/ Rests) /\ pc' = "loop"
  \/ pc = "loop" /\ TakesVersion /\ pc' = "loop"
  \/ pc = "loop" /\ First(buffer) # Version /\ Rests
                 /\ pc' = IF buffer = << >> THEN "wait" ELSE "head"
  \/ pc \in {"head", "fill"} /\ (Reads \/ Rests) /\ pc' = "fill"
  \/ pc = "fill" /\ (faults = 0 => First(buffer) # Version) /\ TakesFrame /\ pc' = "loop"
  \/ pc = "fill" /\ (faults = 0 => First(buffer) # Version) /\ Skips /\ pc' = "wait"

(* Every step of a reader keeps its invariant.                              *)
LEMMA ReaderMoves ==
  ASSUME Reader, Moves
  PROVE  Reader'
<1>1. CASE (\E q \in Askable : Asks(q)) /\ pc' = pc
  <2>1. PICK q \in Askable : Asks(q)
    BY <1>1
  <2>2. Kept'
    BY <2>1, AsksKept DEF Reader
  <2>3. buffer' = buffer /\ faults' = faults /\ pc' = pc
    BY <1>1, <2>1 DEF Asks
  <2>4. QED
    BY <2>2, <2>3 DEF Reader, Facing, Asleep
<1>2. CASE Breaks
  BY <1>2, BreaksKept DEF Reader, Facing, Asleep
<1>3. CASE Rests /\ pc' = pc
  <2>1. buffer' = buffer /\ faults' = faults
    BY <1>3 DEF Rests
  <2>2. QED
    BY <1>3, <2>1, RestsKept DEF Reader, Facing, Asleep
<1>4. CASE pc = "wait" /\ (Reads \/ Rests) /\ pc' = "loop"
  BY <1>4, ReadsKept, RestsKept DEF Reader, Facing, Asleep
<1>5. CASE pc = "loop" /\ TakesVersion /\ pc' = "loop"
  BY <1>5, TakesVersionKept DEF Reader, Facing, Asleep
<1>6. CASE /\ pc = "loop" /\ First(buffer) # Version /\ Rests
           /\ pc' = IF buffer = << >> THEN "wait" ELSE "head"
  <2>1. buffer' = buffer /\ faults' = faults
    BY <1>6 DEF Rests
  <2>2. Kept'
    BY <1>6, RestsKept DEF Reader
  <2>3. CASE buffer = << >>
    <3>1. pc' = "wait" /\ First(buffer') # Version /\ ParseFramed(buffer').request = None
      BY <1>6, <2>1, <2>3, EmptyBuffer DEF Parsed
    <3>2. QED
      BY <2>2, <3>1 DEF Reader, Facing, Asleep
  <2>4. CASE buffer # << >>
    BY <1>6, <2>1, <2>2, <2>4 DEF Reader, Facing, Asleep
  <2>5. QED
    BY <2>3, <2>4
<1>7. CASE pc \in {"head", "fill"} /\ (Reads \/ Rests) /\ pc' = "fill"
  <2>1. Kept'
    BY <1>7, ReadsKept, RestsKept DEF Reader
  <2>2. faults' = faults
    BY <1>7 DEF Reads, Rests
  <2>3. faults = 0 => buffer' # << >> /\ First(buffer') # Version
    <3>1. faults = 0 => buffer # << >> /\ First(buffer) # Version
      BY <1>7 DEF Reader, Facing
    <3>2. CASE Reads
      BY <3>1, <3>2, ReadsKept DEF Reader
    <3>3. CASE Rests
      BY <3>1, <3>3 DEF Rests
    <3>4. QED
      BY <1>7, <3>2, <3>3
  <2>4. QED
    BY <1>7, <2>1, <2>2, <2>3 DEF Reader, Facing, Asleep
<1>8. CASE pc = "fill" /\ (faults = 0 => First(buffer) # Version) /\ TakesFrame /\ pc' = "loop"
  BY <1>8, TakesFrameKept DEF Reader, Facing, Asleep
<1>9. CASE pc = "fill" /\ (faults = 0 => First(buffer) # Version) /\ Skips /\ pc' = "wait"
  <2>1. Kept' /\ (faults = 0 => buffer' = buffer) /\ faults' = faults
    BY <1>9, SkipsKept DEF Reader, Skips
  <2>2. faults = 0 => ParseFramed(buffer').request = None /\ First(buffer') # Version
    BY <1>9, <2>1 DEF Skips
  <2>3. QED
    BY <1>9, <2>1, <2>2 DEF Reader, Facing, Asleep
<1>10. QED
  BY <1>1, <1>2, <1>3, <1>4, <1>5, <1>6, <1>7, <1>8, <1>9 DEF Moves

(* The steps of the replay server are such steps.                          *)
LEMMA AskMoves ==
  ASSUME NEW q \in Askable, Ask(q)
  PROVE  Moves
<1>1. Asks(q) /\ pc' = pc
  BY DEF Ask, Asks
<1>2. QED
  BY <1>1 DEF Moves

(* Reading n bytes is such a read.                                          *)
LEMMA ReceiveReads ==
  ASSUME NEW n, Receive(n), UNCHANGED <<owed, faults>>
  PROVE  Reads
<1>1. PICK k \in 1 .. n : /\ k <= Len(line)
                          /\ buffer' = buffer \o SubSeq(line, 1, k)
                          /\ line' = Drop(line, k)
  BY Zenon DEF Receive
<1>2. k \in Int /\ 1 <= k
  BY <1>1
<1>3. QED
  BY <1>1, <1>2, Zenon DEF Reads

(* Every step of the server's loop is such a step,                          *)
LEMMA ServerMoves ==
  ASSUME Reader, Server
  PROVE  Moves
<1>1. ASSUME Wake PROVE Moves
  BY <1>1, ReceiveReads DEF Wake, Moves
<1>2. ASSUME ReadHead PROVE Moves
  <2>1. pc = "head" /\ pc' = "fill" /\ UNCHANGED <<owed, faults>>
    BY <1>2 DEF ReadHead
  <2>2. Receive(1024) \/ Nothing
    BY <1>2 DEF ReadHead
  <2>3. Reads \/ Rests
    BY <2>1, <2>2, ReceiveReads DEF Nothing, Rests
  <2>4. QED
    BY <2>1, <2>3 DEF Moves
<1>3. ASSUME Fill PROVE Moves
  <2>1. pc = "fill" /\ pc' = "fill" /\ UNCHANGED <<owed, faults>>
    BY <1>3 DEF Fill
  <2>2. Receive(Needed(buffer) - Len(buffer)) \/ Nothing
    BY <1>3 DEF Fill
  <2>3. Reads \/ Rests
    BY <2>1, <2>2, ReceiveReads DEF Nothing, Rests
  <2>4. QED
    BY <2>1, <2>3 DEF Moves
<1>4. ASSUME AnswerVersion PROVE Moves
  BY <1>4 DEF AnswerVersion, Moves, TakesVersion, Forgets, Settle
<1>5. ASSUME TryFrame PROVE Moves
  BY <1>5 DEF TryFrame, Moves, Rests
<1>6. ASSUME Answer PROVE Moves
  BY <1>6 DEF Answer, Done, GiveUp, Moves, TakesFrame, Forgets, Settle, Reader, Facing
<1>7. ASSUME Break PROVE Moves
  BY <1>7 DEF Break, Done, GiveUp, Moves, Skips, Reader, Facing
<1>8. QED
  BY <1>1, <1>2, <1>3, <1>4, <1>5, <1>6, <1>7 DEF Server

(* and so is a fault of the line.                                           *)
LEMMA FaultMoves ==
  ASSUME Fault
  PROVE  Moves
  BY DEF Fault, Moves, Breaks

(* Every program is asked what can be asked.                                *)
LEMMA RequestsAreAskable ==
  /\ Requests \subseteq Askable /\ A \in Askable /\ R \in Askable
  /\ EcuOthers \subseteq Askable /\ ExampleRequests \subseteq Askable
  BY ServerAssumption, RequestsAssumption DEF Askable

(* Together: the replay server and its client.                              *)
LEMMA ReplayMoves ==
  ASSUME Reader, Next
  PROVE  Moves
<1>1. CASE \E q \in Requests : Ask(q)
  BY <1>1, AskMoves, RequestsAreAskable
<1>2. CASE Fault
  BY <1>2, FaultMoves
<1>3. CASE Server
  BY <1>3, ServerMoves
<1>4. QED
  BY <1>1, <1>2, <1>3 DEF Next

(* On the line with faults the server is the same one.                     *)
LEMMA ReplayFaultsSame ==
  /\ \A b : /\ ReplayFaults!First(b) = First(b)
            /\ ReplayFaults!Bytes(b) = Bytes(b)
            /\ ReplayFaults!ParseFramed(b) = ParseFramed(b)
            /\ ReplayFaults!Needed(b) = Needed(b)
  /\ ReplayFaults!Version = Version /\ ReplayFaults!None = None
  BY DEF ReplayFaults!First, First, ReplayFaults!Bytes, Bytes, ReplayFaults!Frame, Frame,
         ReplayFaults!Version, Version, ReplayFaults!None, None,
         ReplayFaults!ParseFramed, ParseFramed, ReplayFaults!Parsed, Parsed,
         ReplayFaults!Size, Size, ReplayFaults!Needed, Needed, ReplayFaults!Payload, Payload,
         ReplayFaults!Drop, Drop, ReplayFaults!CrcMatches, CrcMatches,
         ReplayFaults!MaxSize, MaxSize

(* The loop of the server on the line with faults is the loop on the other. *)
LEMMA ReplayFaultsServer ==
  ASSUME ReplayFaults!Server
  PROVE  Server
<1>r. ASSUME NEW n PROVE ReplayFaults!Receive(n) <=> Receive(n)
  BY ZenonT(60) DEF ReplayFaults!Receive, Receive, ReplayFaults!Drop, Drop
<1>s. ReplayFaults!Short(buffer) <=> Short(buffer)
  <2>1. ReplayFaults!Size(buffer) = Size(buffer)
    BY DEF ReplayFaults!Size, Size
  <2>2. ReplayFaults!MaxSize = MaxSize
    BY DEF ReplayFaults!MaxSize, MaxSize
  <2>3. ReplayFaults!Needed(buffer) = Needed(buffer)
    BY ReplayFaultsSame
  <2>4. QED
    BY <2>1, <2>2, <2>3 DEF ReplayFaults!Short, Short
<1>1. ASSUME ReplayFaults!Wake PROVE Wake
  BY <1>1, <1>r DEF ReplayFaults!Wake, Wake, ReplayFaults!playback, playback
<1>2. ASSUME ReplayFaults!ReadHead PROVE ReadHead
  BY <1>2, <1>r DEF ReplayFaults!ReadHead, ReadHead, ReplayFaults!playback, playback,
                    ReplayFaults!Nothing, Nothing
<1>3. ASSUME ReplayFaults!Fill PROVE Fill
  <2>1. ReplayFaults!Needed(buffer) = Needed(buffer)
    BY ReplayFaultsSame
  <2>2. QED
    BY <1>3, <1>r, <1>s, <2>1 DEF ReplayFaults!Fill, Fill, ReplayFaults!playback, playback,
                                  ReplayFaults!Nothing, Nothing
<1>4. ASSUME ReplayFaults!AnswerVersion PROVE AnswerVersion
  BY <1>4, ReplayFaultsSame
     DEF ReplayFaults!AnswerVersion, AnswerVersion, ReplayFaults!Settle, Settle,
         ReplayFaults!playback, playback
<1>5. ASSUME ReplayFaults!TryFrame PROVE TryFrame
  BY <1>5, ReplayFaultsSame
     DEF ReplayFaults!TryFrame, TryFrame, ReplayFaults!playback, playback
<1>6. ASSUME ReplayFaults!Done PROVE Done
  BY <1>6, <1>s DEF ReplayFaults!Done, Done
<1>7. ReplayFaults!GiveUp <=> GiveUp
  BY ReplayFaultsSame DEF ReplayFaults!GiveUp, GiveUp
<1>8. ASSUME NEW q, ReplayFaults!Serve(q) PROVE Serve(q)
  BY <1>8 DEF ReplayFaults!Serve, Serve, ReplayFaults!IsRealtime, IsRealtime,
              ReplayFaults!IsKnown, IsKnown, ReplayFaults!NextFrame, NextFrame
<1>9. ASSUME ReplayFaults!Answer PROVE Answer
  <2>1. Serve(ParseFramed(buffer).request)
    BY <1>8, <1>9, ReplayFaultsSame DEF ReplayFaults!Answer
  <2>2. QED
    BY <1>6, <1>7, <1>9, <2>1, ReplayFaultsSame
       DEF ReplayFaults!Answer, Answer, ReplayFaults!Settle, Settle
<1>10. ASSUME ReplayFaults!Break PROVE Break
  BY <1>6, <1>7, <1>10, ReplayFaultsSame
     DEF ReplayFaults!Break, Break, ReplayFaults!playback, playback
<1>11. QED
  BY <1>1, <1>2, <1>3, <1>4, <1>5, <1>9, <1>10 DEF ReplayFaults!Server, Server

(* So it too takes such steps.                                              *)
LEMMA ReplayFaultsMoves ==
  ASSUME Reader, ReplayFaults!Next
  PROVE  Moves
<1>1. ASSUME ReplayFaults!Ask(R) PROVE Moves
  <2>1. Asks(R) /\ pc' = pc
    BY <1>1, ReplayFaultsSame DEF ReplayFaults!Ask, Asks
  <2>2. QED
    BY <2>1, RequestsAreAskable DEF Moves
<1>2. CASE \E q \in {R} : ReplayFaults!Ask(q)
  BY <1>1, <1>2
<1>3. CASE ReplayFaults!Fault
  BY <1>3 DEF ReplayFaults!Fault, Moves, Breaks
<1>4. CASE ReplayFaults!Server
  BY <1>4, ReplayFaultsServer, ServerMoves
<1>5. QED
  BY <1>2, <1>3, <1>4 DEF ReplayFaults!Next

------------------------------------------------------------------------------
(* The recording.                                                          *)

(* The quotient and the remainder are determined.                           *)
LEMMA Quotient ==
  ASSUME NEW F \in Nat \ {0}, NEW m \in Nat, NEW k \in Nat, NEW r \in Nat, r < F, m = F * k + r
  PROVE  m \div F = k /\ m % F = r
  OBVIOUS

(* Counting by one, the remainder wraps to 0 when the quotient grows.       *)
LEMMA NextQuotient ==
  ASSUME NEW F \in Nat \ {0}, NEW n \in Nat
  PROVE  /\ n % F \in Nat /\ n % F < F
         /\ ((n % F) + 1) % F = (n + 1) % F
         /\ (n + 1) \div F = IF (n + 1) % F = 0 THEN (n \div F) + 1 ELSE n \div F
<1>1. PICK k \in Nat, r \in Nat : r < F /\ n = F * k + r /\ k = n \div F /\ r = n % F
  OBVIOUS
<1>2. PICK m \in Nat, s \in Nat, l \in Nat : m = n + 1 /\ s = r + 1 /\ l = k + 1
  OBVIOUS
<1>3. CASE s < F
  <2>1. m = F * k + s
    <3>1. PICK a \in Nat : a = F * k
      OBVIOUS
    <3>2. n = a + r
      BY <1>1, <3>1, Zenon
    <3>3. m = a + s
      BY <1>2, <3>2
    <3>4. QED
      BY <3>1, <3>3
  <2>2. m \div F = k /\ m % F = s
    BY <1>3, <2>1, Quotient
  <2>3. s = F * 0 + s
    BY <1>2
  <2>4. s % F = s
    BY <1>3, <2>3, Quotient
  <2>5. s # 0
    BY <1>2
  <2>6. QED
    BY <1>1, <1>2, <2>2, <2>4, <2>5, Zenon
<1>4. CASE s = F
  <2>1. F * l = F * k + F
    BY <1>2
  <2>2. m = F * l + 0
    BY <1>1, <1>2, <1>4, <2>1
  <2>3. m \div F = l /\ m % F = 0
    BY <2>2, Quotient
  <2>4. s = F * 1 + 0
    BY <1>4
  <2>5. s % F = 0
    BY <2>4, Quotient
  <2>6. QED
    BY <1>1, <1>2, <2>3, <2>5, Zenon
<1>5. QED
  BY <1>1, <1>2, <1>3, <1>4

(* What is played, the count of the answers being a number.                *)
Plays == served \in Nat /\ PlaysInOrder

(* A step that does not touch the recording,                                *)
LEMMA RestPlays ==
  ASSUME Plays, UNCHANGED playback
  PROVE  Plays'
  BY DEF Plays, PlaysInOrder, playback

(* and one that serves a request from it, which goes to the next frame or   *)
(* back to the first,                                                       *)
LEMMA ServePlays ==
  ASSUME Plays, NEW q, Serve(q)
  PROVE  Plays'
<1>1. PICK n \in Nat : served = n /\ frame = n % Frames
                       /\ loops = (IF Loop THEN n \div Frames ELSE 0)
  BY DEF Plays, PlaysInOrder
<1>2. Frames \in Nat \ {0} /\ Loop \in BOOLEAN
  BY ServerAssumption
<1>3. CASE IsRealtime(q)
  <2>1. /\ answer' = [flag |-> 1, frame |-> frame]
        /\ frame' = (frame + 1) % Frames
        /\ loops' = IF frame' = 0 /\ Loop THEN loops + 1 ELSE loops
        /\ served' = served + 1
    BY <1>3 DEF Serve, NextFrame
  <2>2. /\ ((n % Frames) + 1) % Frames = (n + 1) % Frames
        /\ (n + 1) \div Frames = IF (n + 1) % Frames = 0 THEN (n \div Frames) + 1 ELSE n \div Frames
    BY <1>2, NextQuotient, Zenon
  <2>3. frame' = (n + 1) % Frames
    BY <1>1, <2>1, <2>2
  <2>4. served' = n + 1 /\ n + 1 \in Nat /\ (n + 1) - 1 = n
    BY <1>1, <2>1
  <2>5. loops' = IF Loop THEN (n + 1) \div Frames ELSE 0
    <3>1. CASE Loop
      BY <1>1, <2>1, <2>2, <2>3, <3>1
    <3>2. CASE ~Loop
      BY <1>1, <2>1, <3>2
    <3>3. QED
      BY <3>1, <3>2
  <2>6. answer'.frame = (served' - 1) % Frames
    BY <1>1, <2>1, <2>4
  <2>7. QED
    BY <2>3, <2>4, <2>5, <2>6 DEF Plays, PlaysInOrder
<1>4. CASE ~ IsRealtime(q)
  <2>1. /\ answer' = [flag |-> IF IsKnown(q) THEN 0 ELSE 131, frame |-> 0]
        /\ frame' = frame /\ loops' = loops /\ served' = served
    BY <1>4 DEF Serve
  <2>2. answer'.flag # 1
    BY <2>1
  <2>3. QED
    BY <2>1, <2>2 DEF Plays, PlaysInOrder
<1>5. QED
  BY <1>3, <1>4

(* and so every step of the server.                                         *)
LEMMA ServerPlays ==
  ASSUME Plays, Server
  PROVE  Plays'
<1>1. CASE Answer
  <2>1. Serve(ParseFramed(buffer).request)
    BY <1>1 DEF Answer
  <2>2. QED
    BY <2>1, ServePlays
<1>2. CASE ~ Answer
  <2>1. UNCHANGED playback
    BY <1>2 DEF Server, Wake, ReadHead, Fill, AnswerVersion, TryFrame, Break
  <2>2. QED
    BY <2>1, RestPlays
<1>3. QED
  BY <1>1, <1>2

------------------------------------------------------------------------------
(* The simulator of exampleFiles, on both lines.                           *)
LEMMA ExampleSame ==
  /\ \A b : /\ Example!First(b) = First(b)
            /\ Example!Bytes(b) = Bytes(b)
            /\ Example!ParseFramed(b) = ParseFramed(b)
  /\ Example!Version = Version /\ Example!None = None
  BY DEF Example!First, First, Example!Bytes, Bytes, Example!Frame, Frame,
         Example!Version, Version, Example!None, None,
         Example!ParseFramed, ParseFramed, Example!Parsed, Parsed,
         Example!Size, Size, Example!Needed, Needed, Example!Payload, Payload,
         Example!Drop, Drop, Example!CrcMatches, CrcMatches, Example!MaxSize, MaxSize

(* On the line with faults it has the same operators.                       *)
LEMMA ExampleFaultsSame ==
  /\ \A b : /\ ExampleFaults!First(b) = First(b)
            /\ ExampleFaults!Bytes(b) = Bytes(b)
            /\ ExampleFaults!ParseFramed(b) = ParseFramed(b)
  /\ ExampleFaults!Version = Version /\ ExampleFaults!None = None
  BY DEF ExampleFaults!First, First, ExampleFaults!Bytes, Bytes, ExampleFaults!Frame, Frame,
         ExampleFaults!Version, Version, ExampleFaults!None, None,
         ExampleFaults!ParseFramed, ParseFramed, ExampleFaults!Parsed, Parsed,
         ExampleFaults!Size, Size, ExampleFaults!Needed, Needed,
         ExampleFaults!Payload, Payload, ExampleFaults!Drop, Drop,
         ExampleFaults!CrcMatches, CrcMatches, ExampleFaults!MaxSize, MaxSize

(* A read of the simulator of exampleFiles is such a read, or a timeout,    *)
LEMMA ExampleReads ==
  ASSUME NEW n, Example!Receive(n) \/ Example!Nothing, UNCHANGED <<owed, faults>>
  PROVE  Reads \/ Rests
<1>1. CASE Example!Receive(n)
  <2>1. Receive(n)
    BY <1>1, Zenon DEF Example!Receive, Receive, Example!Drop, Drop
  <2>2. QED
    BY <2>1, ReceiveReads
<1>2. CASE Example!Nothing
  BY <1>2 DEF Example!Nothing, Rests
<1>3. QED
  BY <1>1, <1>2

(* on either line.                                                          *)
LEMMA ExampleFaultsReads ==
  ASSUME NEW n, ExampleFaults!Receive(n) \/ ExampleFaults!Nothing, UNCHANGED <<owed, faults>>
  PROVE  Reads \/ Rests
<1>1. CASE ExampleFaults!Receive(n)
  <2>1. Receive(n)
    BY <1>1, Zenon DEF ExampleFaults!Receive, Receive, ExampleFaults!Drop, Drop
  <2>2. QED
    BY <2>1, ReceiveReads
<1>2. CASE ExampleFaults!Nothing
  BY <1>2 DEF ExampleFaults!Nothing, Rests
<1>3. QED
  BY <1>1, <1>2

(* Neither touches the recording of the replay server.                     *)
LEMMA ExampleMoves ==
  ASSUME Reader, Example!SimNext
  PROVE  Moves /\ UNCHANGED <<frame, loops>>
<1>1. ASSUME NEW q \in ExampleRequests, Example!Ask(q)
      PROVE  Moves /\ UNCHANGED <<frame, loops>>
  <2>1. Asks(q) /\ pc' = pc /\ UNCHANGED <<frame, loops>>
    BY <1>1, ExampleSame DEF Example!Ask, Asks, Example!playback
  <2>2. QED
    BY <2>1, RequestsAreAskable DEF Moves
<1>2. ASSUME Example!Fault PROVE Moves /\ UNCHANGED <<frame, loops>>
  BY <1>2 DEF Example!Fault, Moves, Breaks, Example!playback
<1>3. ASSUME Example!Look PROVE Moves /\ UNCHANGED <<frame, loops>>
  <2>1. Reads \/ Rests
    BY <1>3, ExampleReads DEF Example!Look
  <2>2. QED
    BY <1>3, <2>1 DEF Example!Look, Moves, Example!playback
<1>4. ASSUME Example!ReadHead PROVE Moves /\ UNCHANGED <<frame, loops>>
  <2>1. Reads \/ Rests
    BY <1>4, ExampleReads DEF Example!ReadHead
  <2>2. QED
    BY <1>4, <2>1 DEF Example!ReadHead, Moves, Example!playback
<1>5. ASSUME Example!Fill PROVE Moves /\ UNCHANGED <<frame, loops>>
  <2>1. Reads \/ Rests
    BY <1>5, ExampleReads DEF Example!Fill
  <2>2. QED
    BY <1>5, <2>1 DEF Example!Fill, Moves, Example!playback
<1>6. ASSUME Example!AnswerVersion PROVE Moves /\ UNCHANGED <<frame, loops>>
  BY <1>6, ExampleSame
     DEF Example!AnswerVersion, Moves, TakesVersion, Forgets, Example!Settle, Example!playback
<1>7. ASSUME Example!TryFrame PROVE Moves /\ UNCHANGED <<frame, loops>>
  BY <1>7, ExampleSame DEF Example!TryFrame, Moves, Rests, Example!playback
<1>8. ASSUME Example!Respond PROVE Moves /\ UNCHANGED <<frame, loops>>
  BY <1>8, ExampleSame
     DEF Example!Respond, Example!Reply, Example!Done, Example!GiveUp, Moves, TakesFrame,
         Forgets, Example!Settle, Reader, Facing
<1>9. ASSUME Example!Break PROVE Moves /\ UNCHANGED <<frame, loops>>
  BY <1>9, ExampleSame
     DEF Example!Break, Example!Done, Example!GiveUp, Moves, Skips, Reader, Facing,
         Example!playback
<1>10. QED
  BY <1>1, <1>2, <1>3, <1>4, <1>5, <1>6, <1>7, <1>8, <1>9
     DEF Example!SimNext, Example!Simulator

(* Nor on the line with faults.                                             *)
LEMMA ExampleFaultsMoves ==
  ASSUME Reader, ExampleFaults!SimNext
  PROVE  Moves /\ UNCHANGED <<frame, loops>>
<1>1. ASSUME NEW q \in {A}, ExampleFaults!Ask(q)
      PROVE  Moves /\ UNCHANGED <<frame, loops>>
  <2>1. Asks(q) /\ pc' = pc /\ UNCHANGED <<frame, loops>>
    BY <1>1, ExampleFaultsSame, Zenon DEF ExampleFaults!Ask, Asks, ExampleFaults!playback
  <2>2. QED
    BY <2>1, RequestsAreAskable DEF Moves
<1>2. ASSUME ExampleFaults!Fault PROVE Moves /\ UNCHANGED <<frame, loops>>
  BY <1>2 DEF ExampleFaults!Fault, Moves, Breaks, ExampleFaults!playback
<1>3. ASSUME ExampleFaults!Look PROVE Moves /\ UNCHANGED <<frame, loops>>
  <2>1. Reads \/ Rests
    BY <1>3, ExampleFaultsReads DEF ExampleFaults!Look
  <2>2. QED
    BY <1>3, <2>1 DEF ExampleFaults!Look, Moves, ExampleFaults!playback
<1>4. ASSUME ExampleFaults!ReadHead PROVE Moves /\ UNCHANGED <<frame, loops>>
  <2>1. Reads \/ Rests
    BY <1>4, ExampleFaultsReads DEF ExampleFaults!ReadHead
  <2>2. QED
    BY <1>4, <2>1 DEF ExampleFaults!ReadHead, Moves, ExampleFaults!playback
<1>5. ASSUME ExampleFaults!Fill PROVE Moves /\ UNCHANGED <<frame, loops>>
  <2>1. Reads \/ Rests
    BY <1>5, ExampleFaultsReads DEF ExampleFaults!Fill
  <2>2. QED
    BY <1>5, <2>1 DEF ExampleFaults!Fill, Moves, ExampleFaults!playback
<1>6. ASSUME ExampleFaults!AnswerVersion PROVE Moves /\ UNCHANGED <<frame, loops>>
  BY <1>6, ExampleFaultsSame
     DEF ExampleFaults!AnswerVersion, Moves, TakesVersion, Forgets,
         ExampleFaults!Settle, ExampleFaults!playback
<1>7. ASSUME ExampleFaults!TryFrame PROVE Moves /\ UNCHANGED <<frame, loops>>
  BY <1>7, ExampleFaultsSame DEF ExampleFaults!TryFrame, Moves, Rests, ExampleFaults!playback
<1>8. ASSUME ExampleFaults!Respond PROVE Moves /\ UNCHANGED <<frame, loops>>
  BY <1>8, ExampleFaultsSame
     DEF ExampleFaults!Respond, ExampleFaults!Reply, ExampleFaults!Done, ExampleFaults!GiveUp,
         Moves, TakesFrame,
         Forgets, ExampleFaults!Settle, Reader, Facing
<1>9. ASSUME ExampleFaults!Break PROVE Moves /\ UNCHANGED <<frame, loops>>
  BY <1>9, ExampleFaultsSame
     DEF ExampleFaults!Break, ExampleFaults!Done, ExampleFaults!GiveUp, Moves,
         Skips, Reader, Facing,
         ExampleFaults!playback
<1>10. QED
  BY <1>1, <1>2, <1>3, <1>4, <1>5, <1>6, <1>7, <1>8, <1>9
     DEF ExampleFaults!SimNext, ExampleFaults!Simulator

------------------------------------------------------------------------------
(* ecuSim, on both lines.                                                  *)
LEMMA EcuSimSame ==
  /\ \A b : /\ EcuSim!First(b) = First(b)
            /\ EcuSim!Bytes(b) = Bytes(b)
            /\ EcuSim!ParseFramed(b) = ParseFramed(b)
  /\ EcuSim!Version = Version /\ EcuSim!None = None
  BY DEF EcuSim!First, First, EcuSim!Bytes, Bytes, EcuSim!Frame, Frame,
         EcuSim!Version, Version, EcuSim!None, None,
         EcuSim!ParseFramed, ParseFramed, EcuSim!Parsed, Parsed,
         EcuSim!Size, Size, EcuSim!Needed, Needed, EcuSim!Payload, Payload,
         EcuSim!Drop, Drop, EcuSim!CrcMatches, CrcMatches, EcuSim!MaxSize, MaxSize

(* On the line with faults it has the same operators.                       *)
LEMMA EcuSimFaultsSame ==
  /\ \A b : /\ EcuSimFaults!First(b) = First(b)
            /\ EcuSimFaults!Bytes(b) = Bytes(b)
            /\ EcuSimFaults!ParseFramed(b) = ParseFramed(b)
  /\ EcuSimFaults!Version = Version /\ EcuSimFaults!None = None
  BY DEF EcuSimFaults!First, First, EcuSimFaults!Bytes, Bytes, EcuSimFaults!Frame, Frame,
         EcuSimFaults!Version, Version, EcuSimFaults!None, None,
         EcuSimFaults!ParseFramed, ParseFramed, EcuSimFaults!Parsed, Parsed,
         EcuSimFaults!Size, Size, EcuSimFaults!Needed, Needed,
         EcuSimFaults!Payload, Payload, EcuSimFaults!Drop, Drop,
         EcuSimFaults!CrcMatches, CrcMatches, EcuSimFaults!MaxSize, MaxSize

(* ecuSim parses in one step all that has come; each of its steps keeps the *)
(* bytes in order,                                                          *)
LEMMA EcuSimKeeps ==
  ASSUME Kept, EcuSim!Simulator
  PROVE  Kept'
<1>1. ASSUME EcuSim!Read PROVE Kept'
  <2>1. Reads \/ Rests
    <3>1. CASE line = << >>
      BY <1>1, <3>1 DEF EcuSim!Read, Rests
    <3>2. CASE line # << >>
      <4>1. PICK k \in 1 .. Len(line) : /\ k <= 1024
                                        /\ buffer' = buffer \o SubSeq(line, 1, k)
                                        /\ line' = Drop(line, k)
        BY <1>1, <3>2, Zenon DEF EcuSim!Read, EcuSim!Drop, Drop
      <4>2. k \in Int /\ 1 <= k /\ k <= Len(line)
        BY <4>1
      <4>3. UNCHANGED <<owed, faults>>
        BY <1>1 DEF EcuSim!Read
      <4>4. QED
        BY <4>1, <4>2, <4>3, ZenonT(60) DEF Reads
    <3>3. QED
      BY <3>1, <3>2
  <2>2. QED
    BY <2>1, ReadsKept, RestsKept
<1>2. ASSUME EcuSim!AnswerVersion PROVE Kept'
  <2>1. TakesVersion
    BY <1>2, EcuSimSame DEF EcuSim!AnswerVersion, EcuSim!Respond, TakesVersion, Forgets
  <2>2. QED
    BY <2>1, TakesVersionKept
<1>3. ASSUME EcuSim!AnswerFramed PROVE Kept'
  <2>1. TakesFrame
    BY <1>3, EcuSimSame DEF EcuSim!AnswerFramed, EcuSim!Respond, TakesFrame, Forgets
  <2>2. QED
    BY <2>1, TakesFrameKept
<1>4. ASSUME EcuSim!NoResponse PROVE Kept'
  <2>1. Skips
    BY <1>4, EcuSimSame DEF EcuSim!NoResponse, Skips
  <2>2. QED
    BY <2>1, SkipsKept
<1>5. QED
  BY <1>1, <1>2, <1>3, <1>4 DEF EcuSim!Simulator

(* and so do those of its client.                                           *)
LEMMA EcuSimNextKeeps ==
  ASSUME Kept, EcuSim!Next
  PROVE  Kept'
<1>1. ASSUME NEW q \in Askable, EcuSim!Ask(q) PROVE Kept'
  <2>1. Asks(q)
    BY <1>1, EcuSimSame, Zenon DEF EcuSim!Ask, Asks
  <2>2. QED
    BY <2>1, AsksKept
<1>2. ASSUME EcuSim!Fault PROVE Kept'
  BY <1>2, BreaksKept DEF EcuSim!Fault, Breaks
<1>3. QED
  BY <1>1, <1>2, EcuSimKeeps, RequestsAreAskable
     DEF EcuSim!Next, EcuSim!AskPoll, EcuSim!Lose, EcuSim!Disturb

(* On the line with faults it is the same simulator,                        *)
LEMMA EcuSimFaultsSimulator ==
  ASSUME EcuSimFaults!Simulator
  PROVE  EcuSim!Simulator
<1>1. ASSUME EcuSimFaults!Read PROVE EcuSim!Read
  BY <1>1, Zenon DEF EcuSimFaults!Read, EcuSim!Read, EcuSimFaults!Drop, EcuSim!Drop
<1>2. ASSUME EcuSimFaults!AnswerVersion PROVE EcuSim!AnswerVersion
  BY <1>2, EcuSimSame, EcuSimFaultsSame
     DEF EcuSimFaults!AnswerVersion, EcuSim!AnswerVersion, EcuSimFaults!Respond, EcuSim!Respond
<1>3. ASSUME EcuSimFaults!AnswerFramed PROVE EcuSim!AnswerFramed
  BY <1>3, EcuSimSame, EcuSimFaultsSame
     DEF EcuSimFaults!AnswerFramed, EcuSim!AnswerFramed, EcuSimFaults!Respond, EcuSim!Respond
<1>4. ASSUME EcuSimFaults!NoResponse PROVE EcuSim!NoResponse
  BY <1>4, EcuSimSame, EcuSimFaultsSame DEF EcuSimFaults!NoResponse, EcuSim!NoResponse
<1>5. QED
  BY <1>1, <1>2, <1>3, <1>4 DEF EcuSimFaults!Simulator, EcuSim!Simulator

(* and a fault of the line ends what is promised.                           *)
LEMMA EcuSimFaultsNextKeeps ==
  ASSUME Kept, EcuSimFaults!Next
  PROVE  Kept'
<1>1. ASSUME EcuSimFaults!Ask(A) PROVE Kept'
  <2>1. Asks(A)
    BY <1>1, EcuSimFaultsSame, Zenon DEF EcuSimFaults!Ask, Asks
  <2>2. QED
    BY <2>1, AsksKept, RequestsAreAskable
<1>2. ASSUME EcuSimFaults!Fault PROVE Kept'
  BY <1>2, BreaksKept DEF EcuSimFaults!Fault, Breaks
<1>3. QED
  BY <1>1, <1>2, EcuSimKeeps, EcuSimFaultsSimulator
     DEF EcuSimFaults!Next, EcuSimFaults!AskPoll, EcuSimFaults!Lose, EcuSimFaults!Disturb

------------------------------------------------------------------------------
(* All programs.                                                           *)

(* The programs that read at places of their own choosing.                  *)
Readers == {"replay", "replay, faults", "example", "example, faults"}

(* The inductive invariant: what each program keeps in order, and the       *)
(* recording.                                                               *)
IInv == /\ program \in Programs
        /\ program \in Readers => Reader
        /\ program \in {"ecuSim", "ecuSim, faults"} => Kept
        /\ Plays

(* It holds at first,                                                       *)
LEMMA InitIInv ==
  ASSUME AnyInit
  PROVE  IInv
<1>1. Init /\ program \in Programs
  BY DEF AnyInit
<1>2. << >> \in Seq(Byte) /\ << >> \in Seq(Askable) /\ << >> \o << >> = << >>
  OBVIOUS
<1>3. Kept
  BY <1>1, <1>2, StreamOfNone DEF Init, Kept, InOrder
<1>4. Facing
  BY <1>1 DEF Init, Facing
<1>5. Asleep
  BY <1>1, EmptyBuffer DEF Init, Asleep, Parsed
<1>6. Plays
  <2>1. PICK F \in Nat \ {0} : F = Frames
    BY ServerAssumption
  <2>2. 0 = F * 0 + 0
    BY <2>1
  <2>3. 0 \div F = 0 /\ 0 % F = 0
    BY <2>1, <2>2, Quotient
  <2>4. answer.flag # 1
    BY <1>1 DEF Init, NoAnswer
  <2>5. QED
    BY <1>1, <2>1, <2>3, <2>4 DEF Init, Plays, PlaysInOrder
<1>7. QED
  BY <1>1, <1>3, <1>4, <1>5, <1>6 DEF IInv, Reader

(* every step of every program keeps it,                                    *)
LEMMA NextIInv ==
  ASSUME IInv, AnyNext
  PROVE  IInv'
<1>1. CASE program = "replay" /\ Next /\ ReplayOnly
  <2>1. program' = program
    BY <1>1 DEF ReplayOnly
  <2>2. Reader'
    BY <1>1, ReplayMoves, ReaderMoves DEF IInv, Readers
  <2>3. Plays'
    <3>1. CASE Server
      BY <3>1, ServerPlays, Zenon DEF IInv
    <3>2. CASE ~ Server
      BY <1>1, <3>2, RestPlays DEF IInv, Next, Ask, Fault
    <3>3. QED
      BY <3>1, <3>2
  <2>4. QED
    BY <1>1, <2>1, <2>2, <2>3 DEF IInv
<1>2. CASE program = "replay, faults" /\ ReplayFaults!Next /\ ReplayOnly
  <2>1. program' = program
    BY <1>2, Zenon DEF ReplayOnly
  <2>2. Reader'
    BY <1>2, ReplayFaultsMoves, ReaderMoves, Zenon DEF IInv, Readers
  <2>3. Plays'
    <3>1. CASE ReplayFaults!Server
      BY <3>1, ReplayFaultsServer, ServerPlays, Zenon DEF IInv
    <3>2. CASE ~ ReplayFaults!Server
      <4>1. UNCHANGED playback
        BY <1>2, <3>2, Zenon DEF ReplayFaults!Next, ReplayFaults!Ask, ReplayFaults!Fault,
                          ReplayFaults!playback, playback
      <4>2. QED
        BY <4>1, RestPlays, Zenon DEF IInv
    <3>3. QED
      BY <3>1, <3>2
  <2>4. QED
    BY <1>2, <2>1, <2>2, <2>3, Zenon DEF IInv
<1>3. CASE program = "ecuSim" /\ EcuSim!Next /\ EcuSimOnly
  <2>1. program' = program /\ UNCHANGED playback
    BY <1>3 DEF EcuSimOnly
  <2>2. Kept' /\ Plays'
    BY <1>3, <2>1, EcuSimNextKeeps, RestPlays DEF IInv
  <2>3. QED
    BY <1>3, <2>1, <2>2 DEF IInv, Readers
<1>4. CASE program = "ecuSim, faults" /\ EcuSimFaults!Next /\ EcuSimOnly
  <2>1. program' = program /\ UNCHANGED playback
    BY <1>4, Zenon DEF EcuSimOnly
  <2>2. Kept' /\ Plays'
    BY <1>4, <2>1, EcuSimFaultsNextKeeps, RestPlays, Zenon DEF IInv
  <2>3. QED
    BY <1>4, <2>1, <2>2, Zenon DEF IInv, Readers
<1>5. CASE program = "example" /\ Example!SimNext /\ ExampleOnly
  <2>1. Reader' /\ UNCHANGED <<frame, loops>>
    BY <1>5, ExampleMoves, ReaderMoves DEF IInv, Readers
  <2>2. program' = program /\ UNCHANGED playback
    BY <1>5, <2>1 DEF ExampleOnly, playback
  <2>3. Plays'
    BY <2>2, RestPlays, Zenon DEF IInv
  <2>4. QED
    BY <1>5, <2>1, <2>2, <2>3 DEF IInv
<1>6. CASE program = "example, faults" /\ ExampleFaults!SimNext /\ ExampleOnly
  <2>1. Reader' /\ UNCHANGED <<frame, loops>>
    BY <1>6, ExampleFaultsMoves, ReaderMoves, Zenon DEF IInv, Readers
  <2>2. program' = program /\ UNCHANGED playback
    BY <1>6, <2>1, Zenon DEF ExampleOnly, playback
  <2>3. Plays'
    BY <2>2, RestPlays, Zenon DEF IInv
  <2>4. QED
    BY <1>6, <2>1, <2>2, <2>3, Zenon DEF IInv
<1>7. CASE \/ program = "older, losses" /\ OlderLost!Next /\ OlderOnly
           \/ program = "older, noise" /\ OlderNoise!Next /\ OlderOnly
           \/ program = "older, sevens" /\ OlderSevens!Next /\ OlderOnly
  <2>1. program' = program /\ Plays'
    BY <1>7, RestPlays, Zenon DEF OlderOnly, IInv
  <2>2. QED
    BY <1>7, <2>1, Zenon DEF IInv, Readers
<1>8. CASE program \in {"capture", "dash"} /\ ToolOnly
  <2>1. program' = program /\ Plays'
    BY <1>8, RestPlays, Zenon DEF ToolOnly, IInv
  <2>2. QED
    BY <1>8, <2>1, Zenon DEF IInv, Readers
<1>9. QED
  BY <1>1, <1>2, <1>3, <1>4, <1>5, <1>6, <1>7, <1>8, Zenon DEF AnyNext

(* and a stuttering step does.                                              *)
LEMMA StutterIInv ==
  ASSUME IInv, UNCHANGED all
  PROVE  IInv'
  BY Zenon DEF IInv, all, vars, Reader, Kept, Facing, Asleep, InOrder, Plays, PlaysInOrder

(* The stream of unanswered requests is the same in every program.          *)
LEMMA StreamSame ==
  ASSUME NEW o
  PROVE  EcuSim!Stream(o) = Stream(o) /\ Example!Stream(o) = Stream(o)
  BY Zenon DEF EcuSim!Stream, Example!Stream, Stream, EcuSim!Bytes, Example!Bytes, Bytes,
               EcuSim!Version, Example!Version, Version, EcuSim!Frame, Example!Frame, Frame

(* The inductive invariant implies the property of the runs.                *)
LEMMA IInvIsEnough ==
  ASSUME IInv
  PROVE  AllAnsweredInOrder
<1>1. Kept => (faults = 0 => buffer \o line = Stream(owed))
  BY DEF Kept, InOrder
<1>2. program \in {"replay", "replay, faults"} => AnsweredInOrder
  BY <1>1, Zenon DEF IInv, Readers, Reader, AnsweredInOrder
<1>3. program \in {"ecuSim", "ecuSim, faults"} => EcuSim!AnsweredInOrder
  BY <1>1, StreamSame, Zenon DEF IInv, EcuSim!AnsweredInOrder
<1>4. program \in {"example", "example, faults"} => Example!AnsweredInOrder
  BY <1>1, StreamSame, Zenon DEF IInv, Readers, Reader, Example!AnsweredInOrder
<1>5. program = "replay" => NeverSleepsOnRequest
  BY DEF IInv, Readers, Reader, Asleep, NeverSleepsOnRequest, GiveUp
<1>6. QED
  BY <1>2, <1>3, <1>4, <1>5, Zenon DEF AllAnsweredInOrder, IInv, Plays

(* However the requests of a client are cut into pieces on a line that     *)
(* keeps every byte, ecuSim, the replay server and the simulator of        *)
(* exampleFiles answer each of them once and in order (RequestBuffer and   *)
(* read_framed_request); the replay server plays its recording in order,   *)
(* and never goes to sleep on a request it has.                            *)
THEOREM InOrderOfAsking == AnySpec => []AllAnsweredInOrder
<1>1. AnyInit => IInv
  BY InitIInv
<1>2. IInv /\ [AnyNext]_all => IInv'
  BY NextIInv, StutterIInv
<1>3. IInv => AllAnsweredInOrder
  BY IInvIsEnough
<1>4. QED
  BY <1>1, <1>2, <1>3, PTL DEF AnySpec

------------------------------------------------------------------------------
(* The capture tool, with any blocks, intervals and limits of time, and on *)
(* a line with any number of faults.                                       *)
CONSTANTS Blocks, BlockSize, Signature, Interval, Patience, Duration

Polling == INSTANCE PollingTools WITH pc <- doing, Tool <- "capture"

(* What load_capture finds at a place p of a file f: the end, or a frame   *)
(* and the place after it.                                                 *)
Ends(f, p)    == p + 1 > Len(f) \/ p + 1 + f[p + 1] > Len(f)
FrameAt(f, p) == [stamp |-> f[p], block |-> SubSeq(f, p + 2, p + 1 + f[p + 1])]
After(f, p)   == p + 2 + f[p + 1]

(* h maps each place of f to the frames from there on: the function that   *)
(* Loaded chooses.                                                         *)
IsLoading(h, f) ==
  h = [p \in 1 .. Len(f) + 1 |->
         IF Ends(f, p) THEN << >> ELSE <<FrameAt(f, p)>> \o h[After(f, p)]]

LEMMA LoadedIs ==
  ASSUME NEW f
  PROVE  Polling!Loaded(f) = (CHOOSE h : IsLoading(h, f))[1]
  BY Zenon DEF Polling!Loaded, IsLoading, Ends, FrameAt, After

(* There is such a function, by induction on how much of the file is left. *)
LEMMA LoadingExists ==
  ASSUME NEW f \in Seq(Nat)
  PROVE  \E h : IsLoading(h, f)
<1> DEFINE From(h, m) ==
             h = [p \in m .. Len(f) + 1 |->
                    IF Ends(f, p) THEN << >> ELSE <<FrameAt(f, p)>> \o h[After(f, p)]]
           P == {n \in Nat : n <= Len(f) => \E h : From(h, Len(f) + 1 - n)}
<1>1. PICK l \in Nat : l = Len(f)
  BY LenProperties
<1>2. 0 \in P
  <2> DEFINE h == [p \in l + 1 .. l + 1 |-> << >>]
  <2>1. \A p \in l + 1 .. l + 1 : Ends(f, p)
    BY <1>1 DEF Ends
  <2>2. h = [p \in l + 1 .. l + 1 |->
               IF Ends(f, p) THEN << >> ELSE <<FrameAt(f, p)>> \o h[After(f, p)]]
    BY <2>1, Zenon
  <2> HIDE DEF h
  <2>3. From(h, l + 1)
    BY <1>1, <2>2, Zenon
  <2>4. Len(f) + 1 - 0 = l + 1
    BY <1>1
  <2>5. From(h, Len(f) + 1 - 0)
    BY <2>3, <2>4, Zenon
  <2> HIDE DEF From
  <2>6. QED
    BY <2>5, Zenon
<1>3. ASSUME NEW n \in Nat, n \in P PROVE n + 1 \in P
  <2>n. n + 1 \in Nat
    OBVIOUS
  <2> SUFFICES ASSUME n + 1 <= Len(f) PROVE \E h : From(h, Len(f) + 1 - (n + 1))
    <3> HIDE DEF From
    <3>1. QED
      BY <2>n, Zenon
  <2>1. PICK m \in Nat : /\ m = l - n /\ m >= 1 /\ m <= l /\ n <= Len(f)
                         /\ Len(f) + 1 - (n + 1) = m /\ Len(f) + 1 - n = m + 1
    BY <1>1, SMTT(60)
  <2>2. \E h : From(h, m + 1)
    BY <1>3, <2>1, Zenon
  <2>3. PICK h : h = [p \in m + 1 .. l + 1 |->
                        IF Ends(f, p) THEN << >> ELSE <<FrameAt(f, p)>> \o h[After(f, p)]]
    BY <1>1, <2>2, Zenon
  <2> DEFINE Value(g, p) == IF Ends(f, p) THEN << >> ELSE <<FrameAt(f, p)>> \o g[After(f, p)]
             k == [p \in m .. l + 1 |-> IF p = m THEN Value(h, m) ELSE h[p]]
  <2>4. \A p \in m + 1 .. l + 1 : h[p] = Value(h, p)
    BY <2>3, Zenon
  <2> HIDE DEF k
  <2>5. ASSUME NEW p \in m .. l + 1, ~Ends(f, p) PROVE k[After(f, p)] = h[After(f, p)]
    <3>1. /\ p + 1 <= l /\ p + 1 \in 1 .. Len(f)
      BY <1>1, <2>1, <2>5 DEF Ends
    <3>2. PICK v \in Nat : v = f[p + 1]
      BY <3>1, ElementOfSeq
    <3>3. p + 1 + v <= l
      BY <1>1, <2>1, <2>5, <3>1, <3>2, SMTT(60) DEF Ends
    <3>a. PICK a : a = p + 2 + v
      OBVIOUS
    <3>b. a = After(f, p)
      BY <3>2, <3>a DEF After
    <3>4. a \in m .. l + 1 /\ a # m
      BY <2>1, <3>3, <3>a
    <3>5. k[a] = h[a]
      BY <3>4, Zenon DEF k
    <3>6. QED
      BY <3>b, <3>5
  <2>6. \A p \in m .. l + 1 : Value(k, p) = Value(h, p)
    BY <2>5, Zenon
  <2>7. ASSUME NEW p \in m .. l + 1
        PROVE  (IF p = m THEN Value(h, m) ELSE h[p]) = Value(k, p)
    <3>1. CASE p = m
      BY <2>6, <3>1, Zenon
    <3>2. CASE p # m
      <4>1. p \in m + 1 .. l + 1
        BY <2>1, <3>2
      <4>2. QED
        BY <2>4, <2>6, <3>2, <4>1, Zenon
    <3>3. QED
      BY <3>1, <3>2, Zenon
  <2>8. k = [p \in m .. l + 1 |-> Value(k, p)]
    <3> HIDE DEF Value
    <3>1. QED
      BY <2>7, Zenon DEF k
  <2>9. From(k, m)
    BY <1>1, <2>8, Zenon
  <2> HIDE DEF From
  <2>10. QED
    BY <2>1, <2>9, Zenon
<1>4. Nat \subseteq P
  <2> HIDE DEF P
  <2>1. QED
    BY <1>2, <1>3, Induction, Zenon
<1>5. l \in P
  <2> HIDE DEF P
  <2>1. QED
    BY <1>1, <1>4
<1>6. PICK h : From(h, 1)
  <2>1. l <= Len(f) /\ Len(f) + 1 - l = 1
    BY <1>1
  <2>2. \E h : From(h, Len(f) + 1 - l)
    BY <1>5, <2>1, Zenon
  <2> HIDE DEF From
  <2>3. QED
    BY <2>1, <2>2
<1>7. IsLoading(h, f)
  BY <1>6, Zenon DEF IsLoading
<1>8. QED
  BY <1>7, Zenon

(* The frames r are written in f, one after the other: frame i begins at   *)
(* e[i], and the file ends with the last.                                  *)
Captured == [stamp : Nat, block : Seq(Nat)]

FrameIn(f, x, p, q) ==
  /\ q = p + 2 + Len(x.block)
  /\ f[p] = x.stamp /\ f[p + 1] = Len(x.block)
  /\ \A j \in 1 .. Len(x.block) : f[p + 1 + j] = x.block[j]

Written(f, r, e) ==
  /\ f \in Seq(Nat) /\ r \in Seq(Captured)
  /\ e \in [1 .. Len(r) + 1 -> Nat] /\ e[1] = 1 /\ e[Len(r) + 1] = Len(f) + 1
  /\ \A i, j \in 1 .. Len(r) + 1 : i <= j => e[i] <= e[j]
  /\ \A i \in 1 .. Len(r) : FrameIn(f, r[i], e[i], e[i + 1])

(* A frame that is all there is found.                                     *)
LEMMA FrameFound ==
  ASSUME NEW f \in Seq(Nat), NEW x \in Captured, NEW p \in Nat, NEW q \in Nat,
         p >= 1, q <= Len(f) + 1, FrameIn(f, x, p, q)
  PROVE  ~Ends(f, p) /\ FrameAt(f, p) = x /\ After(f, p) = q
<1>1. PICK b \in Seq(Nat) : b = x.block
  BY DEF Captured
<1>2. PICK n \in Nat, l \in Nat : n = Len(b) /\ l = Len(f)
  BY <1>1, LenProperties
<1>3. /\ q = p + 2 + n /\ f[p] = x.stamp /\ f[p + 1] = n
      /\ \A j \in 1 .. n : f[p + 1 + j] = b[j]
  BY <1>1, <1>2, Zenon DEF FrameIn
<1>4. ~Ends(f, p) /\ After(f, p) = q
  BY <1>2, <1>3 DEF Ends, After
<1>5. SubSeq(f, p + 2, p + 1 + n) = b
  <2> DEFINE s == SubSeq(f, p + 2, p + 1 + n)
  <2>1. \A i \in p + 2 .. p + 1 + n : f[i] \in Nat
    <3>1. \A i \in p + 2 .. p + 1 + n : i \in 1 .. Len(f)
      BY <1>2, <1>3
    <3>2. QED
      BY <3>1, ElementOfSeq, Zenon
  <2>2. s \in Seq(Nat) /\ Len(s) = n /\ \A i \in 1 .. n : s[i] = f[p + 1 + i]
    <3>1. /\ s \in Seq(Nat)
          /\ Len(s) = IF p + 2 <= p + 1 + n THEN (p + 1 + n) - (p + 2) + 1 ELSE 0
          /\ \A i \in 1 .. (p + 1 + n) - (p + 2) + 1 : s[i] = f[p + 2 + i - 1]
      BY <2>1, SubSeqProperties
    <3> HIDE DEF s
    <3>2. (p + 1 + n) - (p + 2) + 1 = n /\ \A i \in 1 .. n : p + 2 + i - 1 = p + 1 + i
      OBVIOUS
    <3>3. Len(s) = n
      BY <3>1
    <3>4. QED
      BY <3>1, <3>2, <3>3, Zenon
  <2> HIDE DEF s
  <2>3. \A i \in 1 .. Len(s) : s[i] = b[i]
    BY <1>3, <2>2, Zenon
  <2>4. s = b
    BY <1>2, <2>2, <2>3, SeqEqual, Zenon
  <2>5. QED
    BY <2>4 DEF s
<1>6. x = [stamp |-> x.stamp, block |-> x.block]
  BY DEF Captured
<1>7. FrameAt(f, p) = x
  BY <1>1, <1>3, <1>5, <1>6, Zenon DEF FrameAt
<1>8. QED
  BY <1>4, <1>7

(* A file that is cut is read as the frames before the cut.                 *)
CutReads(f, r, n) ==
  \E k \in 0 .. Len(r) : /\ Polling!Loaded(SubSeq(f, 1, n)) = SubSeq(r, 1, k)
                         /\ n = Len(f) => k = Len(r)

LEMMA CutFile ==
  ASSUME NEW f, NEW r, NEW e, Written(f, r, e), NEW n \in 0 .. Len(f)
  PROVE  CutReads(f, r, n)
<1>1. f \in Seq(Nat) /\ r \in Seq(Captured)
  BY DEF Written
<1>2. PICK l \in Nat, c \in Nat : l = Len(f) /\ c = Len(r) /\ n <= l
  BY <1>1, LenProperties
<1>3. /\ e \in [1 .. c + 1 -> Nat] /\ e[1] = 1 /\ e[c + 1] = l + 1
      /\ \A i, j \in 1 .. c + 1 : i <= j => e[i] <= e[j]
      /\ \A i \in 1 .. c : FrameIn(f, r[i], e[i], e[i + 1])
  BY <1>2, Zenon DEF Written
<1> DEFINE g == SubSeq(f, 1, n)
<1>4. /\ g \in Seq(Nat) /\ Len(g) = n /\ \A i \in 1 .. n : g[i] = f[i]
  <2>1. \A i \in 1 .. n : f[i] \in Nat
    BY <1>1, <1>2, ElementOfSeq
  <2>2. /\ g \in Seq(Nat) /\ Len(g) = IF 1 <= n THEN n - 1 + 1 ELSE 0
        /\ \A i \in 1 .. n - 1 + 1 : g[i] = f[1 + i - 1]
    BY <2>1, SubSeqProperties
  <2> HIDE DEF g
  <2>3. QED
    BY <2>2
<1> HIDE DEF g
(* The last frame that ends before the cut.                                 *)
<1>5. PICK k \in 0 .. c : e[k + 1] <= n + 1 /\ (k < c => e[k + 2] > n + 1)
  <2> DEFINE T == {m \in Nat : m <= c /\ e[c - m + 1] <= n + 1}
  <2>1. c \in T
    <3>1. c - c + 1 = 1 /\ 1 <= n + 1
      BY <1>2
    <3>2. QED
      BY <1>2, <1>3, <3>1
  <2>2. PICK m \in T : \A y \in T : m <= y
    <3> HIDE DEF T
    <3>1. T \in SUBSET Nat
      BY DEF T
    <3>2. QED
      BY <2>1, <3>1, Least, Zenon
  <2>3. c - m \in 0 .. c /\ e[(c - m) + 1] <= n + 1
    BY <2>2
  <2>4. ASSUME c - m < c PROVE e[(c - m) + 2] > n + 1
    <3>1. m - 1 \in Nat /\ m - 1 <= c /\ ~(m <= m - 1) /\ c - (m - 1) + 1 = (c - m) + 2
      BY <2>2, <2>4
    <3>2. m - 1 \notin T
      BY <2>2, <3>1
    <3>3. ~(e[(c - m) + 2] <= n + 1)
      BY <3>1, <3>2
    <3>4. (c - m) + 2 \in 1 .. c + 1
      BY <2>2, <3>1
    <3>5. e[(c - m) + 2] \in Nat
      BY <1>3, <3>4
    <3>6. QED
      BY <3>3, <3>5
  <2> HIDE DEF T
  <2>5. QED
    BY <2>3, <2>4, Zenon
<1> DEFINE h == CHOOSE h : IsLoading(h, g)
<1>6. IsLoading(h, g)
  BY <1>4, LoadingExists, Zenon
<1>l. Polling!Loaded(g) = h[1]
  BY LoadedIs, Zenon
<1> HIDE DEF h
<1>7. \A p \in 1 .. n + 1 : h[p] = IF Ends(g, p) THEN << >> ELSE <<FrameAt(g, p)>> \o h[After(g, p)]
  <2>1. h = [p \in 1 .. n + 1 |->
               IF Ends(g, p) THEN << >> ELSE <<FrameAt(g, p)>> \o h[After(g, p)]]
    BY <1>4, <1>6, Zenon DEF IsLoading
  <2>2. QED
    BY <2>1, Zenon
<1>k. k \in Nat /\ k <= c
  BY <1>2
<1>8. ASSUME NEW i \in 1 .. k PROVE h[e[i]] = <<r[i]>> \o h[e[i + 1]]
  <2>1. /\ i \in 1 .. c /\ i \in 1 .. c + 1 /\ i + 1 \in 1 .. c + 1 /\ k + 1 \in 1 .. c + 1
        /\ 1 \in 1 .. c + 1 /\ 1 <= i /\ i + 1 <= k + 1
    BY <1>k, <1>2
  <2>2. PICK p \in Nat, q \in Nat, m \in Nat :
          p = e[i] /\ q = e[i + 1] /\ m = e[k + 1]
    BY <1>3, <2>1, Zenon
  <2>3. 1 <= p /\ q <= m /\ m <= n + 1
    BY <1>3, <1>5, <2>1, <2>2, Zenon
  <2>4. r[i] \in Captured /\ FrameIn(f, r[i], p, q)
    <3>1. r[i] \in Captured
      BY <1>1, <1>2, <2>1, ElementOfSeq
    <3>2. QED
      BY <1>3, <2>1, <2>2, <3>1
  <2>5. FrameIn(g, r[i], p, q)
    <3>1. PICK b \in Seq(Nat), w \in Nat : b = r[i].block /\ w = Len(b)
      BY <2>4, LenProperties DEF Captured
    <3>2. /\ q = p + 2 + w /\ f[p] = r[i].stamp /\ f[p + 1] = w
          /\ \A j \in 1 .. w : f[p + 1 + j] = b[j]
      BY <2>4, <3>1, Zenon DEF FrameIn
    <3>3. /\ p \in 1 .. n /\ p + 1 \in 1 .. n
          /\ \A j \in 1 .. w : p + 1 + j \in 1 .. n
      BY <1>2, <2>3, <3>2
    <3>4. /\ g[p] = r[i].stamp /\ g[p + 1] = w
          /\ \A j \in 1 .. w : g[p + 1 + j] = b[j]
      BY <1>4, <3>2, <3>3, Zenon
    <3>5. QED
      BY <3>1, <3>2, <3>4, Zenon DEF FrameIn
  <2>6. ~Ends(g, p) /\ FrameAt(g, p) = r[i] /\ After(g, p) = q
    BY <1>4, <2>3, <2>4, <2>5, FrameFound
  <2>7. p \in 1 .. n + 1
    <3>1. PICK w \in Nat : w = Len(r[i].block)
      BY <2>4, LenProperties DEF Captured
    <3>2. q = p + 2 + w
      BY <2>4, <3>1 DEF FrameIn
    <3>3. QED
      BY <1>2, <2>3, <3>2
  <2>8. QED
    BY <1>7, <2>2, <2>6, <2>7, Zenon
<1>9. h[e[k + 1]] = << >>
  <2>1. k + 1 \in 1 .. c + 1 /\ 1 \in 1 .. c + 1 /\ 1 <= k + 1
    BY <1>k
  <2>2. PICK p \in Nat : p = e[k + 1]
    BY <1>3, <2>1
  <2>3. 1 <= p /\ p <= n + 1
    BY <1>3, <1>5, <2>1, <2>2
  <2>4. Ends(g, p)
    <3>1. CASE p + 1 > n
      BY <1>4, <3>1 DEF Ends
    <3>2. CASE ~(p + 1 > n)
      <4>1. k # c
        <5>1. k = c => p = l + 1
          BY <1>3, <2>2
        <5>2. QED
          BY <1>2, <3>2, <5>1
      <4>2. /\ k < c /\ k + 1 \in 1 .. c /\ k + 2 \in 1 .. c + 1 /\ (k + 1) + 1 = k + 2
        BY <1>k, <4>1
      <4>3. PICK q \in Nat : q = e[k + 2] /\ q > n + 1
        BY <1>3, <1>5, <4>2
      <4>4. FrameIn(f, r[k + 1], p, q)
        BY <1>3, <2>2, <4>2, <4>3
      <4>5. r[k + 1] \in Captured
        BY <1>1, <1>2, <4>2, ElementOfSeq
      <4>6. PICK w \in Nat : w = Len(r[k + 1].block)
        BY <4>5, LenProperties DEF Captured
      <4>7. q = p + 2 + w /\ f[p + 1] = w
        BY <4>4, <4>6 DEF FrameIn
      <4>8. g[p + 1] = w
        BY <1>4, <2>3, <3>2, <4>7
      <4>9. p + 1 + g[p + 1] > n
        BY <1>2, <4>3, <4>7, <4>8
      <4>10. QED
        BY <1>4, <4>9 DEF Ends
    <3>3. QED
      BY <3>1, <3>2
  <2>5. p \in 1 .. n + 1
    BY <1>2, <2>3
  <2>6. QED
    BY <1>7, <2>2, <2>4, <2>5, Zenon
<1>10. h[1] = SubSeq(r, 1, k)
  <2> DEFINE P == {m \in Nat : m <= k => h[e[k + 1 - m]] = SubSeq(r, k + 1 - m, k)}
  <2>1. 0 \in P
    <3>1. SubSeq(r, k + 1, k) = << >>
      BY <1>k, SubSeqEmpty
    <3>2. k + 1 - 0 = k + 1
      BY <1>k
    <3>3. h[e[k + 1 - 0]] = SubSeq(r, k + 1 - 0, k)
      BY <1>9, <3>1, <3>2, Zenon
    <3>4. QED
      BY <3>3, Zenon
  <2>2. ASSUME NEW m \in Nat, m \in P PROVE m + 1 \in P
    <3>1. m + 1 \in Nat
      OBVIOUS
    <3>2. ASSUME m + 1 <= k
          PROVE  h[e[k + 1 - (m + 1)]] = SubSeq(r, k + 1 - (m + 1), k)
      <4>1. PICK i \in Nat : /\ i = k - m /\ i \in 1 .. k /\ k \in i .. Len(r) /\ i \in 1 .. Len(r)
                             /\ m <= k /\ k + 1 - (m + 1) = i /\ k + 1 - m = i + 1
        BY <1>k, <1>2, <3>2
      <4>2. h[e[i + 1]] = SubSeq(r, i + 1, k)
        BY <2>2, <4>1, Zenon
      <4>3. SubSeq(r, i, k) = <<r[i]>> \o SubSeq(r, i + 1, k)
        BY <1>1, <4>1, SubSeqRecursiveFirst
      <4>4. h[e[i]] = <<r[i]>> \o h[e[i + 1]]
        BY <1>8, <4>1
      <4>5. h[e[i]] = SubSeq(r, i, k)
        BY <4>2, <4>3, <4>4, Zenon
      <4>6. QED
        BY <4>1, <4>5, Zenon
    <3>3. QED
      BY <3>1, <3>2, Zenon
  <2> HIDE DEF P
  <2>3. k \in P
    BY <1>k, <2>1, <2>2, Induction
  <2>4. k <= k /\ k + 1 - k = 1
    BY <1>k
  <2>5. h[e[k + 1 - k]] = SubSeq(r, k + 1 - k, k)
    BY <2>3, <2>4, Zenon DEF P
  <2>6. QED
    BY <1>3, <2>4, <2>5, Zenon
<1>11. n = Len(f) => k = c
  <2> SUFFICES ASSUME n = l, k # c PROVE FALSE
    BY <1>2
  <2>1. k < c /\ k + 2 \in 1 .. c + 1 /\ c + 1 \in 1 .. c + 1 /\ k + 2 <= c + 1
    BY <1>k
  <2>2. e[k + 2] > l + 1 /\ e[k + 2] <= l + 1 /\ e[k + 2] \in Nat
    BY <1>3, <1>5, <2>1
  <2>3. QED
    BY <1>2, <2>2
<1>12. QED
  BY <1>l, <1>2, <1>10, <1>11 DEF g, CutReads

(* u is t after s.                                                         *)
NatsJoined(s, t, u) ==
  /\ u \in Seq(Nat) /\ Len(u) = Len(s) + Len(t)
  /\ \A i \in 1 .. Len(s) : u[i] = s[i]
  /\ \A i \in 1 .. Len(t) : u[Len(s) + i] = t[i]

LEMMA NatsJoin ==
  ASSUME NEW s \in Seq(Nat), NEW t \in Seq(Nat)
  PROVE  NatsJoined(s, t, s \o t)
<1>1. /\ s \o t \in Seq(Nat) /\ Len(s \o t) = Len(s) + Len(t)
      /\ \A i \in 1 .. Len(s) + Len(t) : (s \o t)[i] = IF i <= Len(s) THEN s[i] ELSE t[i - Len(s)]
  BY ConcatProperties
<1>2. Len(s) \in Nat /\ Len(t) \in Nat
  BY LenProperties
<1>3. QED
  BY <1>1, <1>2 DEF NatsJoined

(* One more frame is written after the others (write_frame).                *)
LEMMA WriteMore ==
  ASSUME NEW f, NEW r, NEW e, Written(f, r, e), NEW stamp \in Nat, NEW b \in Seq(Nat)
  PROVE  \E d : Written(f \o <<stamp, Len(b)>> \o b,
                        Append(r, [stamp |-> stamp, block |-> b]), d)
<1> DEFINE x == [stamp |-> stamp, block |-> b]
           head == <<stamp, Len(b)>>
           g == f \o head \o b
           s == Append(r, x)
<1>1. f \in Seq(Nat) /\ r \in Seq(Captured)
  BY DEF Written
<1>2. PICK l \in Nat, c \in Nat, w \in Nat : l = Len(f) /\ c = Len(r) /\ w = Len(b)
  BY <1>1, LenProperties
<1>3. /\ e \in [1 .. c + 1 -> Nat] /\ e[1] = 1 /\ e[c + 1] = l + 1
      /\ \A i, j \in 1 .. c + 1 : i <= j => e[i] <= e[j]
      /\ \A i \in 1 .. c : FrameIn(f, r[i], e[i], e[i + 1])
  BY <1>2, Zenon DEF Written
<1>4. /\ x \in Captured /\ x.stamp = stamp /\ x.block = b
      /\ head \in Seq(Nat) /\ Len(head) = 2 /\ head[1] = stamp /\ head[2] = w
  BY <1>2 DEF Captured
<1> HIDE DEF x, head
<1>5. /\ g \in Seq(Nat) /\ Len(g) = l + 2 + w
      /\ \A i \in 1 .. l : g[i] = f[i]
      /\ g[l + 1] = stamp /\ g[l + 2] = w
      /\ \A j \in 1 .. w : g[l + 2 + j] = b[j]
  <2> DEFINE u == f \o head
             v == u \o b
  <2>1. NatsJoined(f, head, u)
    BY <1>1, <1>4, NatsJoin
  <2> HIDE DEF u
  <2>2. u \in Seq(Nat) /\ NatsJoined(u, b, v)
    BY <2>1, NatsJoin, Zenon DEF NatsJoined
  <2> HIDE DEF v
  <2>3. /\ Len(u) = l + 2 /\ \A i \in 1 .. l : u[i] = f[i]
        /\ u[l + 1] = stamp /\ u[l + 2] = w
    <3>1. /\ Len(u) = l + 2 /\ \A i \in 1 .. l : u[i] = f[i]
          /\ \A i \in 1 .. 2 : u[l + i] = head[i]
      BY <1>2, <1>4, <2>1 DEF NatsJoined
    <3>2. 1 \in 1 .. 2 /\ 2 \in 1 .. 2
      OBVIOUS
    <3>3. QED
      BY <1>4, <3>1, <3>2
  <2>4. /\ v \in Seq(Nat) /\ Len(v) = l + 2 + w
        /\ \A i \in 1 .. l + 2 : v[i] = u[i]
        /\ \A j \in 1 .. w : v[l + 2 + j] = b[j]
    BY <1>2, <2>2, <2>3 DEF NatsJoined
  <2>5. g = v
    BY DEF u, v
  <2>6. \A i \in 1 .. l : v[i] = f[i]
    BY <1>2, <2>3, <2>4
  <2>7. v[l + 1] = stamp /\ v[l + 2] = w
    <3>1. l + 1 \in 1 .. l + 2 /\ l + 2 \in 1 .. l + 2
      BY <1>2
    <3>2. QED
      BY <2>3, <2>4, <3>1, Zenon
  <2> HIDE DEF g
  <2>8. QED
    BY <2>4, <2>5, <2>6, <2>7, Zenon
<1>6. /\ s \in Seq(Captured) /\ Len(s) = c + 1
      /\ \A i \in 1 .. c : s[i] = r[i]
      /\ s[c + 1] = x
  BY <1>1, <1>2, <1>4
<1> HIDE DEF g, s
<1> DEFINE d == [i \in 1 .. c + 2 |-> IF i = c + 2 THEN l + 3 + w ELSE e[i]]
<1>7. /\ \A i \in 1 .. c + 1 : d[i] = e[i]
      /\ d[c + 2] = l + 3 + w
  <2>1. /\ \A i \in 1 .. c + 1 : i \in 1 .. c + 2 /\ i # c + 2
        /\ c + 2 \in 1 .. c + 2
    BY <1>2
  <2>2. QED
    BY <2>1, Zenon
<1>8. d \in [1 .. (c + 1) + 1 -> Nat]
  <2>1. ASSUME NEW i \in 1 .. c + 2
        PROVE  (IF i = c + 2 THEN l + 3 + w ELSE e[i]) \in Nat
    <3>1. i # c + 2 => i \in 1 .. c + 1
      BY <1>2
    <3>2. i # c + 2 => e[i] \in Nat
      BY <1>3, <3>1, Zenon
    <3>3. l + 3 + w \in Nat
      BY <1>2
    <3>4. QED
      BY <3>2, <3>3, Zenon
  <2>2. (c + 1) + 1 = c + 2
    BY <1>2
  <2>3. QED
    BY <2>1, <2>2
<1> HIDE DEF d
<1>n. /\ 1 \in 1 .. c + 1 /\ c + 1 \in 1 .. c + 1 /\ (c + 1) + 1 = c + 2
      /\ (l + 2 + w) + 1 = l + 3 + w
  BY <1>2
<1>9. d[1] = 1 /\ d[(c + 1) + 1] = Len(g) + 1
  BY <1>3, <1>5, <1>7, <1>n, Zenon
<1>10. ASSUME NEW i \in 1 .. (c + 1) + 1, NEW j \in 1 .. (c + 1) + 1, i <= j
       PROVE  d[i] <= d[j]
  <2>1. CASE j \in 1 .. c + 1
    <3>1. i \in 1 .. c + 1
      BY <1>2, <1>10, <2>1
    <3>2. QED
      BY <1>3, <1>7, <1>10, <2>1, <3>1, Zenon
  <2>2. CASE j \notin 1 .. c + 1
    <3>1. j = c + 2 /\ d[j] = l + 3 + w
      BY <1>2, <1>7, <2>2
    <3>2. CASE i \in 1 .. c + 1
      <4>1. c + 1 \in 1 .. c + 1 /\ i <= c + 1
        BY <1>2, <3>2
      <4>2. e[i] <= e[c + 1] /\ e[i] \in Nat
        BY <1>3, <3>2, <4>1
      <4>3. QED
        BY <1>2, <1>3, <1>7, <3>1, <3>2, <4>2
    <3>3. CASE i \notin 1 .. c + 1
      <4>1. i = c + 2
        BY <1>2, <3>3
      <4>2. QED
        BY <1>2, <3>1, <4>1
    <3>4. QED
      BY <3>2, <3>3
  <2>3. QED
    BY <2>1, <2>2
<1>11. ASSUME NEW i \in 1 .. c + 1
       PROVE  FrameIn(g, s[i], d[i], d[i + 1])
  <2>1. CASE i = c + 1
    <3>1. d[i] = l + 1 /\ d[i + 1] = l + 3 + w /\ s[i] = x
      <4>1. c + 1 \in 1 .. c + 1 /\ (c + 1) + 1 = c + 2
        BY <1>2
      <4>2. QED
        BY <1>3, <1>6, <1>7, <2>1, <4>1
    <3>2. /\ l + 3 + w = (l + 1) + 2 + w /\ (l + 1) + 1 = l + 2
          /\ \A j \in 1 .. w : (l + 1) + 1 + j = l + 2 + j
      BY <1>2
    <3>3. FrameIn(g, x, l + 1, l + 3 + w)
      BY <1>2, <1>4, <1>5, <3>2 DEF FrameIn
    <3>4. QED
      BY <3>1, <3>3, Zenon
  <2>2. CASE i # c + 1
    <3>1. /\ i \in 1 .. c /\ i \in 1 .. c + 1 /\ i + 1 \in 1 .. c + 1 /\ c + 1 \in 1 .. c + 1
          /\ 1 \in 1 .. c + 1 /\ 1 <= i /\ i + 1 <= c + 1
      BY <1>2, <2>2
    <3>2. PICK p \in Nat, q \in Nat : p = e[i] /\ q = e[i + 1]
      BY <1>3, <3>1, Zenon
    <3>3. 1 <= p /\ q <= l + 1
      BY <1>3, <3>1, <3>2
    <3>4. d[i] = p /\ d[i + 1] = q /\ s[i] = r[i] /\ FrameIn(f, r[i], p, q) /\ r[i] \in Captured
      <4>1. r[i] \in Captured
        BY <1>1, <1>2, <3>1, ElementOfSeq
      <4>2. QED
        BY <1>3, <1>6, <1>7, <3>1, <3>2, <4>1, Zenon
    <3>5. PICK y \in Seq(Nat), v \in Nat : y = r[i].block /\ v = Len(y)
      BY <3>4, LenProperties DEF Captured
    <3>6. /\ q = p + 2 + v /\ f[p] = r[i].stamp /\ f[p + 1] = v
          /\ \A j \in 1 .. v : f[p + 1 + j] = y[j]
      BY <3>4, <3>5, Zenon DEF FrameIn
    <3>7. /\ p \in 1 .. l /\ p + 1 \in 1 .. l
          /\ \A j \in 1 .. v : p + 1 + j \in 1 .. l
      BY <1>2, <3>3, <3>6, SMTT(60)
    <3>8. /\ g[p] = r[i].stamp /\ g[p + 1] = v
          /\ \A j \in 1 .. v : g[p + 1 + j] = y[j]
      BY <1>5, <3>6, <3>7, Zenon
    <3>9. FrameIn(g, r[i], p, q)
      BY <3>5, <3>6, <3>8, Zenon DEF FrameIn
    <3>10. QED
      BY <3>4, <3>9, Zenon
  <2>3. QED
    BY <2>1, <2>2
<1>12. Written(g, s, d)
  BY <1>5, <1>6, <1>8, <1>9, <1>10, <1>11, Zenon DEF Written
<1>13. QED
  BY <1>12 DEF g, s, head, x

------------------------------------------------------------------------------
(* What the capture tool keeps: the file has been written frame by frame,   *)
(* polls are in the order of time, and the next one is not before the last, *)
(* nor before an interval after the one before.                             *)
FileWritten == \E e : Written(file, recorded, e)

PollsTimed ==
  /\ clock \in Nat /\ next \in Nat /\ polls \in Seq(Nat)
  /\ request \in {"Q", "A"} /\ (request = "A" => polls # << >>)

NextAfter ==
  /\ polls # << >> => next >= polls[Len(polls)]
  /\ Len(polls) > 1 => next >= polls[Len(polls) - 1] + Interval
  /\ Polling!PollsAreSpread

CaptureInv == FileWritten /\ PollsTimed /\ NextAfter

LEMMA CaptureStarts ==
  ASSUME Polling!Init
  PROVE  CaptureInv
<1>1. file = << >> /\ recorded = << >> /\ clock = 0 /\ next = 0 /\ polls = << >> /\ request = "Q"
  BY DEF Polling!Init
<1>2. Written(<< >>, << >>, [i \in 1 .. 1 |-> 1])
  BY DEF Written, Captured
<1>3. FileWritten
  BY <1>1, <1>2, Zenon DEF FileWritten
<1>4. PollsTimed /\ NextAfter
  BY <1>1 DEF PollsTimed, NextAfter, Polling!PollsAreSpread
<1>5. QED
  BY <1>3, <1>4 DEF CaptureInv

(* A step that neither polls nor records.                                   *)
LEMMA CaptureRests ==
  ASSUME CaptureInv, UNCHANGED <<next, polls, file, recorded>>,
         clock' \in Nat, request' \in {"Q", request}
  PROVE  CaptureInv'
<1>1. FileWritten'
  BY Zenon DEF CaptureInv, FileWritten
<1>2. PollsTimed'
  BY DEF CaptureInv, PollsTimed
<1>3. NextAfter'
  BY DEF CaptureInv, NextAfter, Polling!PollsAreSpread
<1>4. QED
  BY <1>1, <1>2, <1>3 DEF CaptureInv

(* An answer is recorded: its payload has a flag, and is stamped with the   *)
(* time of the last poll.                                                   *)
LEMMA CaptureRecords ==
  ASSUME CaptureInv, NEW p \in DOMAIN Crc, request = "A", Polling!Record(p),
         UNCHANGED <<clock, next, polls, request>>
  PROVE  CaptureInv'
<1>1. PICK e : Written(file, recorded, e)
  BY Zenon DEF CaptureInv, FileWritten
<1>2. p \in Seq(Byte) /\ Len(p) >= 1
  BY CrcAssumption
<1>3. PICK b : b = Tail(p) /\ b \in Seq(Nat) /\ Len(b) = Len(p) - 1
  <2>1. p # << >>
    BY <1>2
  <2>2. Tail(p) \in Seq(Byte) /\ Len(Tail(p)) = Len(p) - 1
    BY <1>2, <2>1, HeadTailProperties
  <2>3. Byte \subseteq Nat
    BY DEF Byte
  <2>4. Tail(p) \in Seq(Nat)
    BY <2>2, <2>3, SeqMonotonic, Zenon
  <2>5. QED
    BY <2>2, <2>4, Zenon
<1>4. PICK stamp \in Nat : stamp = polls[Len(polls)]
  BY EmptySeq, ElementOfSeq DEF CaptureInv, PollsTimed
<1>5. /\ file' = file \o <<stamp, Len(b)>> \o b
      /\ recorded' = Append(recorded, [stamp |-> stamp, block |-> b])
  BY <1>3, <1>4, Zenon DEF Polling!Record
<1>6. FileWritten'
  BY <1>1, <1>3, <1>5, WriteMore, Zenon DEF FileWritten
<1>7. PollsTimed'
  BY DEF CaptureInv, PollsTimed
<1>8. NextAfter'
  BY DEF CaptureInv, NextAfter, Polling!PollsAreSpread
<1>9. QED
  BY <1>6, <1>7, <1>8 DEF CaptureInv

(* A poll.  The schedule moves on by at least an interval, and not behind   *)
(* the clock.                                                               *)
LEMMA CapturePolls ==
  ASSUME CaptureInv, Polling!Poll, Interval \in Nat
  PROVE  CaptureInv'
<1>1. /\ clock \in Nat /\ next \in Nat /\ clock >= next /\ polls \in Seq(Nat)
      /\ polls' = Append(polls, clock)
      /\ next' = IF next + Interval < clock THEN clock + Interval ELSE next + Interval
      /\ UNCHANGED <<clock, file, recorded>> /\ request' = "A"
  BY DEF CaptureInv, PollsTimed, Polling!Poll, Polling!ScheduledNext, Polling!results
<1>2. next' \in Nat /\ next' >= clock /\ next' >= next + Interval
  BY <1>1
<1>3. PICK n \in Nat : n = Len(polls)
  BY <1>1, LenProperties
<1>4. /\ polls' \in Seq(Nat) /\ Len(polls') = n + 1 /\ polls'[n + 1] = clock
      /\ \A i \in 1 .. n : polls'[i] = polls[i] /\ polls[i] \in Nat
  BY <1>1, <1>3, ElementOfSeq
<1>5. PollsTimed'
  <2>1. polls' # << >>
    BY <1>3, <1>4, EmptySeq
  <2>2. QED
    BY <1>1, <1>2, <1>4, <2>1 DEF PollsTimed
<1>6. /\ n > 0 => next >= polls[n]
      /\ n > 1 => next >= polls[n - 1] + Interval
      /\ \A i \in 1 .. n - 2 : polls[i + 2] - polls[i] >= Interval
  BY <1>3, EmptySeq DEF CaptureInv, NextAfter, Polling!PollsAreSpread
<1>7. next' >= polls'[n + 1]
  BY <1>2, <1>4
<1>8. n + 1 > 1 => next' >= polls'[n + 1 - 1] + Interval
  BY <1>1, <1>2, <1>3, <1>4, <1>6
<1>9. ASSUME NEW i \in 1 .. (n + 1) - 2
      PROVE  polls'[i + 2] - polls'[i] >= Interval
  <2>1. CASE i = n - 1
    <3>1. i \in 1 .. n /\ n > 1 /\ i + 2 = n + 1
      BY <1>3, <2>1
    <3>2. polls'[i + 2] = clock /\ polls'[i] = polls[n - 1] /\ polls[n - 1] \in Nat
      BY <1>4, <2>1, <3>1
    <3>3. QED
      BY <1>1, <1>6, <3>1, <3>2, SMTT(60)
  <2>2. CASE i # n - 1
    <3>1. i \in 1 .. n - 2 /\ i \in 1 .. n /\ i + 2 \in 1 .. n
      BY <1>3, <2>2
    <3>2. QED
      BY <1>4, <1>6, <3>1
  <2>3. QED
    BY <2>1, <2>2
<1>10. NextAfter'
  BY <1>4, <1>7, <1>8, <1>9 DEF NextAfter, Polling!PollsAreSpread
<1>11. FileWritten'
  BY <1>1, Zenon DEF CaptureInv, FileWritten
<1>12. QED
  BY <1>5, <1>10, <1>11 DEF CaptureInv

(* Every step of the tool does one of these.                                *)
LEMMA CaptureSteps ==
  ASSUME CaptureInv, [Polling!Next]_Polling!vars, Interval \in Nat, Patience \in Nat
  PROVE  CaptureInv'
<1>0. clock \in Nat /\ request \in {"Q", "A"}
  BY DEF CaptureInv, PollsTimed
<1>1. CASE Polling!Lose
  BY <1>0, <1>1, CaptureRests DEF Polling!Lose, Polling!results
<1>2. CASE Polling!Query
  BY <1>0, <1>2, CaptureRests DEF Polling!Query, Polling!results
<1>3. CASE Polling!Tick
  BY <1>0, <1>3, CaptureRests DEF Polling!Tick, Polling!results
<1>4. CASE Polling!Poll
  BY <1>4, CapturePolls
<1>5. CASE Polling!End
  BY <1>0, <1>5, CaptureRests DEF Polling!End, Polling!results
<1>6. CASE Polling!ReadSize
  BY <1>0, <1>6, CaptureRests DEF Polling!ReadSize, Polling!results
<1>7. CASE Polling!ReadPayload
  BY <1>0, <1>7, CaptureRests DEF Polling!ReadPayload, Polling!results
<1>8. CASE Polling!ReadCrc
  <2>1. UNCHANGED <<request, clock, polls>>
    BY <1>8 DEF Polling!ReadCrc
  <2>2. CASE Polling!Fail(clock)
    <3>1. UNCHANGED <<next, file, recorded>>
      BY <2>2 DEF Polling!Fail, Polling!NoCapture
    <3>2. QED
      BY <1>0, <2>1, <3>1, CaptureRests
  <2>3. CASE Polling!CrcIs(payload, SubSeq(line, 1, 4)) /\ Polling!Take(payload)
    <3>1. Polling!Capture(payload) /\ next' = next
      BY <2>3 DEF Polling!Take, Polling!Capture
    <3>2. CASE UNCHANGED <<file, recorded>>
      BY <1>0, <2>1, <3>1, <3>2, CaptureRests
    <3>3. CASE ~UNCHANGED <<file, recorded>>
      <4>1. payload # Polling!None /\ request # "Q" /\ Polling!Record(payload)
        BY <3>1, <3>3, Zenon DEF Polling!Capture
      <4>2. payload \in DOMAIN Crc
        BY <2>3, <4>1, Zenon DEF Polling!CrcIs
      <4>3. request = "A"
        BY <1>0, <4>1
      <4>4. QED
        BY <2>1, <3>1, <4>1, <4>2, <4>3, CaptureRecords
    <3>4. QED
      BY <3>2, <3>3
  <2>4. QED
    BY <1>8, <2>2, <2>3, Zenon DEF Polling!ReadCrc
<1>9. CASE Polling!TimeOut
  <2>1. UNCHANGED <<request, polls>> /\ clock' = clock + Patience /\ Polling!Fail(clock')
    BY <1>9 DEF Polling!TimeOut
  <2>2. UNCHANGED <<next, file, recorded>>
    BY <2>1 DEF Polling!Fail, Polling!NoCapture
  <2>3. QED
    BY <1>0, <2>1, <2>2, CaptureRests
<1>10. CASE UNCHANGED Polling!vars
  BY <1>0, <1>10, CaptureRests DEF Polling!vars
<1>11. QED
  BY <1>1, <1>2, <1>3, <1>4, <1>5, <1>6, <1>7, <1>8, <1>9, <1>10, Zenon DEF Polling!Next

(* A file that is written frame by frame reads back.                        *)
LEMMA WrittenIsRead ==
  ASSUME CaptureInv
  PROVE  Polling!CutIsPrefix /\ Polling!PollsAreSpread
<1>1. PICK e : Written(file, recorded, e)
  BY Zenon DEF CaptureInv, FileWritten
<1>2. file \in Seq(Nat) /\ recorded \in Seq(Captured)
  BY <1>1, Zenon DEF Written
<1>3. PICK l \in Nat, c \in Nat : l = Len(file) /\ c = Len(recorded)
  BY <1>2, LenProperties
<1>4. Polling!Loaded(file) = recorded
  <2>1. Len(file) \in 0 .. Len(file)
    BY <1>3
  <2>2. CutReads(file, recorded, Len(file))
    BY <1>1, <2>1, CutFile
  <2>3. Polling!Loaded(SubSeq(file, 1, Len(file))) = SubSeq(recorded, 1, Len(recorded))
    BY <2>2, Zenon DEF CutReads
  <2>4. SubSeq(file, 1, Len(file)) = file /\ SubSeq(recorded, 1, Len(recorded)) = recorded
    BY <1>2, SubSeqFull
  <2>5. QED
    BY <2>3, <2>4, Zenon
<1>5. ASSUME NEW n \in 0 .. Len(file)
      PROVE  LET frames == Polling!Loaded(SubSeq(file, 1, n))
             IN  frames = SubSeq(recorded, 1, Len(frames))
  <2>0. CutReads(file, recorded, n)
    BY <1>1, CutFile
  <2>1. PICK k \in 0 .. Len(recorded) : Polling!Loaded(SubSeq(file, 1, n)) = SubSeq(recorded, 1, k)
    BY <2>0, Zenon DEF CutReads
  <2>2. Len(SubSeq(recorded, 1, k)) = k
    BY <1>2, <1>3
  <2>3. QED
    BY <2>1, <2>2, Zenon
<1>6. Polling!CutIsPrefix
  BY <1>4, <1>5, Zenon DEF Polling!CutIsPrefix
<1>7. QED
  BY <1>6, Zenon DEF CaptureInv, NextAfter

(* A capture that is cut at any byte, because the program or the machine    *)
(* stopped, is read as the frames before the cut (load_capture), and a      *)
(* schedule that fell behind does not lead to bursts of polls (next_poll),  *)
(* with any blocks, interval, limit of time and number of faults.           *)
THEOREM CapturesReadBack ==
  ASSUME Interval \in Nat, Patience \in Nat
  PROVE  Polling!Spec => [](Polling!CutIsPrefix /\ Polling!PollsAreSpread)
<1>1. Polling!Init => CaptureInv
  BY CaptureStarts
<1>2. CaptureInv /\ [Polling!Next]_Polling!vars => CaptureInv'
  BY CaptureSteps
<1>3. CaptureInv => Polling!CutIsPrefix /\ Polling!PollsAreSpread
  BY WrittenIsRead
<1>4. QED
  BY <1>1, <1>2, <1>3, PTL DEF Polling!Spec
===============================================================================
