--------------------------- MODULE SerialLinkProofs ---------------------------
(***************************************************************************)
(* Proofs about SerialLink, for any numbers of requests, faults and        *)
(* backoffs.                                                               *)
(*                                                                         *)
(* The argument for FlushResynchronises: if nothing was owed when the port *)
(* was opened, the line is silent before each request (Silent), and while  *)
(* the worker reads, what is on the line is some of the one answer to that *)
(* request, each part at most once and none of those it has read           *)
(* (OneAnswer).  So when an answer is accepted, it is that one and nothing *)
(* of it is left over.                                                     *)
(***************************************************************************)
EXTENDS SerialLink, SequenceTheorems, WellFoundedInduction, TLAPS

Silent == unanswered = << >> /\ wire = << >> /\ rx = << >>

(* The parts of the answer that the worker has read.                       *)
Read == CASE pc = "data" -> {"length"}
          [] pc = "crc"  -> {"length", "data"}
          [] OTHER       -> {}

Mine(q) == \A i \in 1 .. Len(q) : q[i].req = req /\ q[i].part \notin Read

Once(q) == \A i, j \in 1 .. Len(q) : q[i].part = q[j].part => i = j

Apart(q, r) ==
  \A i \in 1 .. Len(q), j \in 1 .. Len(r) : q[i].part # r[j].part

OneAnswer ==
  /\ unanswered # << >> =>
       pc = "length" /\ unanswered = <<req>> /\ wire = << >> /\ rx = << >>
  /\ Mine(wire) /\ Mine(rx)
  /\ Once(wire) /\ Once(rx)
  /\ Apart(wire, rx)

InTurn == /\ pc \in {"poll", "rest"} => Silent
          /\ pc \in {"length", "data", "crc"} => OneAnswer
          /\ pc = "crc" => data.req = req

InStep == /\ pc \in {"sleep", "reopen"} => fd = "closed"
          /\ fd = "open" /\ ~ owed => InTurn
          /\ FlushResynchronises

IInv == TypeOK /\ InStep

------------------------------------------------------------------------------
LEMMA ChunkType ==
  ASSUME NEW part \in {"length", "data", "crc"}, NEW r \in Req, NEW flag \in BOOLEAN
  PROVE  Piece(part, r, flag) \in Chunk
BY DEF Piece, Chunk

LEMMA NoDataType == NoData \in Chunk
<1>1. 0 \in Req
  BY KAssumption DEF Req
<1>2. QED
  BY <1>1, ChunkType, Zenon DEF NoData

LEMMA AnswerType ==
  ASSUME NEW r \in Req, NEW flag \in BOOLEAN
  PROVE  Answer(r, flag) \in Seq(Chunk)
BY ChunkType DEF Answer

LEMMA FailType ==
  ASSUME TypeOK, Fail
  PROVE  /\ backoff' \in 0 .. BackoffMax
         /\ failures' \in 0 .. MaxFailures
         /\ fd' = "closed" /\ pc' = "sleep"
         /\ data' \in Chunk
         /\ UNCHANGED <<req, shown, owed, refused, present, powered, unanswered, wire>>
<1>1. backoff' \in 0 .. BackoffMax
  BY BackoffAssumption DEF TypeOK, Fail, RaiseBackoff, Lesser
<1>2. failures' \in 0 .. MaxFailures
  BY BoundsAssumption DEF TypeOK, Fail, Up
<1>3. QED
  BY <1>1, <1>2, NoDataType DEF Fail, ecu

LEMMA InitType == Init => TypeOK
<1> SUFFICES ASSUME Init
             PROVE  TypeOK
  OBVIOUS
<1>1. 0 \in Req
  BY KAssumption DEF Req
<1>2. << >> \in Seq(Req) /\ << >> \in Seq(Chunk)
  BY EmptySeq
<1>3. 0 \in 0 .. BackoffMax /\ 0 \in 0 .. MaxFailures /\ 0 \in 0 .. MaxFaults
  BY BackoffAssumption, BoundsAssumption
<1>4. QED
  BY <1>1, <1>2, <1>3, NoDataType, Zenon DEF Init, TypeOK

LEMMA NextType == TypeOK /\ [Next]_vars => TypeOK'
<1> SUFFICES ASSUME TypeOK, [Next]_vars
             PROVE  TypeOK'
  OBVIOUS
<1>a. rx # << >> => Head(rx) \in Chunk /\ Tail(rx) \in Seq(Chunk)
  BY HeadTailProperties DEF TypeOK
<1>b. wire # << >> => Head(wire) \in Chunk /\ Tail(wire) \in Seq(Chunk)
  BY HeadTailProperties DEF TypeOK
<1>c. unanswered # << >> => Head(unanswered) \in Req /\ Tail(unanswered) \in Seq(Req)
  BY HeadTailProperties DEF TypeOK
<1>d. << >> \in Seq(Req) /\ << >> \in Seq(Chunk)
  BY EmptySeq
<1>e. Fault => faults' \in 0 .. MaxFaults
  BY BoundsAssumption DEF Fault, TypeOK
<1>f. ASecond => faults' \in 0 .. MaxFaults
  BY <1>e DEF ASecond, TypeOK
<1>g. /\ 0 \in 0 .. BackoffMax /\ 0 \in 0 .. MaxFailures
      /\ Up(refused) \in 0 .. MaxFailures
  BY BackoffAssumption, BoundsAssumption DEF TypeOK, Up
<1>1. CASE SendRequest
  <2>1. req' \in Req
    BY <1>1, KAssumption DEF SendRequest, Req, TypeOK
  <2>2. unanswered' \in Seq(Req)
    BY <1>1, <2>1, AppendProperties DEF SendRequest, TypeOK
  <2>3. QED
    BY <1>1, <2>1, <2>2 DEF SendRequest, TypeOK, tally
<1>2. CASE PortError
  BY <1>2, FailType DEF PortError, TypeOK
<1>3. CASE ReadLength
  BY <1>3, <1>a DEF ReadLength, Take, Going, TypeOK, tally, ecu
<1>4. CASE MistakeLength
  BY <1>4, <1>a, FailType DEF MistakeLength, Take, Going, TypeOK, tally, ecu
<1>5. CASE ReadData
  BY <1>5, <1>a DEF ReadData, Take, Going, TypeOK, tally, ecu
<1>6. CASE ReadAstray
  BY <1>6, <1>a, FailType DEF ReadAstray, Take, Going, TypeOK, tally, ecu
<1>7. CASE Accept
  <2>1. shown' \in Req /\ data' \in Chunk
    BY <1>7, NoDataType DEF Accept, TypeOK, Chunk
  <2>2. QED
    BY <1>7, <1>a, <1>g, <2>1 DEF Accept, Take, TypeOK, ecu
<1>8. CASE Reject
  BY <1>8, <1>a, FailType DEF Reject, Take, TypeOK
<1>9. CASE NoMemory
  BY <1>9, <1>a, <1>e, FailType DEF NoMemory, TypeOK
<1>10. CASE TimeOut
  BY <1>10, <1>f, FailType DEF TimeOut, TypeOK
<1>11. CASE Rest
  BY <1>11 DEF Rest, Going, TypeOK, tally, ecu
<1>12. CASE Sleep
  BY <1>12, <1>f DEF Sleep, Going, TypeOK, tally, ecu
<1>13. CASE Reopen
  BY <1>13, <1>d, <1>g DEF Reopen, TypeOK, ecu
<1>14. CASE ReopenFails
  BY <1>14, <1>g DEF ReopenFails, TypeOK, tally, ecu
<1>15. CASE EcuAnswers
  <2>1. wire' \in Seq(Chunk) /\ faults' \in 0 .. MaxFaults
    BY <1>15, <1>c, <1>e, AnswerType, Zenon DEF EcuAnswers, TypeOK
  <2>2. QED
    BY <1>15, <1>c, <2>1 DEF EcuAnswers, TypeOK, Daemon, tally
<1>16. CASE Deliver
  <2>1. rx' \in Seq(Chunk)
    BY <1>16, <1>b, AppendProperties DEF Deliver, TypeOK
  <2>2. QED
    BY <1>16, <1>b, <2>1 DEF Deliver, TypeOK, Daemon, tally
<1>17. CASE DropChunk
  BY <1>17, <1>b, <1>e DEF DropChunk, TypeOK, Daemon, tally
<1>18. CASE DamageChunk
  <2> DEFINE damaged == [wire[1] EXCEPT !.ok = FALSE]
  <2>1. 1 \in 1 .. Len(wire)
    BY <1>18 DEF DamageChunk, TypeOK
  <2>2. wire[1] \in Chunk
    BY <2>1, ElementOfSeq DEF TypeOK
  <2>3. damaged \in Chunk
    BY <2>2, Zenon DEF Chunk
  <2>4. wire' = [wire EXCEPT ![1] = damaged]
    BY <1>18 DEF DamageChunk
  <2> HIDE DEF damaged
  <2>5. wire' \in Seq(Chunk)
    BY <2>1, <2>3, <2>4, ExceptSeq DEF TypeOK
  <2>6. QED
    BY <1>18, <1>e, <2>5 DEF DamageChunk, TypeOK, Daemon, tally
<1>19. CASE LoseRequest
  <2>1. unanswered' \in Seq(Req)
    BY <1>19, SubSeqProperties DEF LoseRequest, TypeOK
  <2>2. QED
    BY <1>19, <1>e, <2>1 DEF LoseRequest, TypeOK, Daemon, tally
<1>20. CASE PowerOff
  BY <1>20, <1>d, <1>e, Zenon DEF PowerOff, TypeOK, Daemon, tally
<1>21. CASE PowerOn
  BY <1>21 DEF PowerOn, TypeOK, Daemon, tally
<1>22. CASE Unplug
  BY <1>22, <1>d, <1>e, Zenon DEF Unplug, TypeOK, Daemon, tally
<1>23. CASE PlugIn
  BY <1>23 DEF PlugIn, TypeOK, Daemon, tally
<1>24. CASE UNCHANGED vars
  BY <1>24 DEF vars, tally, ecu, TypeOK
<1>25. CASE SendFails
  BY <1>25, <1>e, FailType DEF SendFails, TypeOK
<1>26. QED
  BY <1>1, <1>2, <1>3, <1>4, <1>5, <1>6, <1>7, <1>8, <1>9, <1>10, <1>11, <1>12,
     <1>13, <1>14, <1>15, <1>16, <1>17, <1>18, <1>19, <1>20, <1>21, <1>22, <1>23,
     <1>24, <1>25 DEF Next, Worker, Environment

(* Whatever is sent, lost, damaged or answered late, every variable of the *)
(* worker, the line and the ECU keeps to its type; in particular the       *)
(* backoff never exceeds its maximum (main.c:89-96).                       *)
THEOREM TypeCorrect == Spec => []TypeOK
<1>1. QED
  BY InitType, NextType, PTL DEF Spec

------------------------------------------------------------------------------
(* What taking the first chunk of a sequence leaves.                       *)
LEMMA TailFacts ==
  ASSUME NEW q \in Seq(Chunk), q # << >>
  PROVE  /\ Head(q) = q[1] /\ 1 \in 1 .. Len(q)
         /\ \A i \in 1 .. Len(Tail(q)) : i + 1 \in 1 .. Len(q) /\ Tail(q)[i] = q[i + 1]
<1>1. Len(q) \in Nat \ {0}
  BY EmptySeq
<1>2. Len(Tail(q)) = Len(q) - 1
  BY HeadTailProperties
<1>3. QED
  BY <1>1, <1>2, HeadTailProperties

LEMMA OnceTail ==
  ASSUME NEW q \in Seq(Chunk), q # << >>, Once(q)
  PROVE  /\ Once(Tail(q))
         /\ \A i \in 1 .. Len(Tail(q)) : Tail(q)[i].part # Head(q).part
<1>1. ASSUME NEW i \in 1 .. Len(Tail(q)), NEW j \in 1 .. Len(Tail(q)),
             Tail(q)[i].part = Tail(q)[j].part
      PROVE  i = j
  <2>1. i + 1 = j + 1
    BY <1>1, TailFacts DEF Once
  <2>2. QED
    BY <2>1
<1>2. ASSUME NEW i \in 1 .. Len(Tail(q))
      PROVE  Tail(q)[i].part # Head(q).part
  <2>1. i + 1 # 1
    OBVIOUS
  <2>2. QED
    BY <2>1, TailFacts DEF Once
<1>3. QED
  BY <1>1, <1>2 DEF Once

LEMMA ApartTail ==
  ASSUME NEW q \in Seq(Chunk), NEW r \in Seq(Chunk), Apart(q, r)
  PROVE  /\ q # << >> =>
              /\ Apart(Tail(q), r)
              /\ \A j \in 1 .. Len(r) : Head(q).part # r[j].part
         /\ r # << >> =>
              /\ Apart(q, Tail(r))
              /\ \A i \in 1 .. Len(q) : q[i].part # Head(r).part
BY TailFacts DEF Apart

(* Nothing that fails a poll has to do with the line: the port is closed.  *)
LEMMA FailInStep == Fail => InStep'
BY DEF Fail, InStep, FlushResynchronises

(* A chunk that the ECU loses changes nothing, whichever it is.            *)
LEMMA LessOnWire ==
  ASSUME TypeOK, OneAnswer, wire # << >>, wire' = Tail(wire),
         UNCHANGED <<pc, req, unanswered, rx>>
  PROVE  OneAnswer'
<1>1. Read' = Read
  BY DEF Read
<1>2. unanswered = << >>
  BY DEF OneAnswer
<1>3. Mine(wire)' /\ Mine(rx)'
  BY <1>1, TailFacts DEF OneAnswer, Mine, TypeOK
<1>4. Once(wire)' /\ Once(rx)'
  BY OnceTail DEF OneAnswer, TypeOK, Once
<1>5. Apart(wire, rx)'
  BY ApartTail DEF OneAnswer, TypeOK, Apart
<1>6. QED
  BY <1>2, <1>3, <1>4, <1>5 DEF OneAnswer

(* After the worker has taken a chunk, no other of its part is on the way. *)
LEMMA Taken ==
  ASSUME TypeOK, OneAnswer, Take
  PROVE  /\ unanswered = << >>
         /\ Head(rx) \in Chunk /\ Head(rx).req = req
         /\ Once(wire) /\ Once(rx') /\ Apart(wire, rx')
         /\ \A i \in 1 .. Len(wire) :
              wire[i].req = req /\ wire[i].part \notin Read \cup {Head(rx).part}
         /\ \A i \in 1 .. Len(rx') :
              rx'[i].req = req /\ rx'[i].part \notin Read \cup {Head(rx).part}
<1>1. rx # << >> /\ rx' = Tail(rx)
  BY DEF Take
<1>2. unanswered = << >> /\ Head(rx) \in Chunk /\ Head(rx).req = req
  BY <1>1, TailFacts, HeadTailProperties DEF OneAnswer, Mine, TypeOK
<1>3. Once(wire) /\ Once(rx') /\ Apart(wire, rx')
  BY <1>1, OnceTail, ApartTail DEF OneAnswer, TypeOK
<1>4. ASSUME NEW i \in 1 .. Len(wire)
      PROVE  wire[i].req = req /\ wire[i].part \notin Read \cup {Head(rx).part}
  BY <1>1, ApartTail DEF OneAnswer, Mine, TypeOK
<1>5. ASSUME NEW i \in 1 .. Len(rx')
      PROVE  rx'[i].req = req /\ rx'[i].part \notin Read \cup {Head(rx).part}
  <2>1. rx'[i].req = req /\ rx'[i].part \notin Read
    BY <1>1, TailFacts DEF OneAnswer, Mine, TypeOK
  <2>2. rx'[i].part # Head(rx).part
    BY <1>1, OnceTail DEF OneAnswer, TypeOK
  <2>3. QED
    BY <2>1, <2>2
<1>6. QED
  BY <1>2, <1>3, <1>4, <1>5

LEMMA ReadsKeepStep ==
  ASSUME TypeOK, InStep, ReadLength \/ ReadData \/ Accept
  PROVE  InStep'
<1> SUFFICES ASSUME fd = "open", ~ owed
             PROVE  InTurn' /\ FlushResynchronises'
  <2>1. Take /\ UNCHANGED <<fd, owed>> /\ pc' \notin {"sleep", "reopen"}
    BY DEF ReadLength, ReadData, Accept, Going
  <2>2. fd = "open"
    BY <2>1 DEF Take
  <2>3. CASE owed
    BY <2>1, <2>2, <2>3 DEF InStep, FlushResynchronises
  <2>4. CASE ~ owed
    BY <2>1, <2>2, <2>4 DEF InStep
  <2>5. QED
    BY <2>3, <2>4
<1>1. Take /\ OneAnswer
  BY DEF InStep, InTurn, ReadLength, ReadData, Accept
<1>2. CASE ReadLength
  <2>1. Read \cup {Head(rx).part} = Read'
    BY <1>2 DEF ReadLength, InPlace, Read
  <2>2. UNCHANGED <<req, unanswered, wire>> /\ pc' = "data"
    BY <1>2 DEF ReadLength, Going, ecu
  <2>3. OneAnswer'
    BY <1>1, <2>1, <2>2, Taken DEF OneAnswer, Mine, Once
  <2>4. QED
    BY <2>2, <2>3 DEF InTurn, FlushResynchronises
<1>3. CASE ReadData
  <2>1. UNCHANGED <<req, unanswered, wire>> /\ pc' \in {"crc", "astray"}
    BY <1>3 DEF ReadData, Going, ecu
  <2>2. CASE pc' = "astray"
    BY <2>2 DEF InTurn, FlushResynchronises
  <2>3. CASE pc' = "crc"
    <3>1. Read \cup {Head(rx).part} = Read'
      BY <1>3, <2>3 DEF ReadData, Read
    <3>2. OneAnswer'
      BY <1>1, <2>1, <2>3, <3>1, Taken DEF OneAnswer, Mine, Once
    <3>3. data'.req = req'
      BY <1>1, <1>3, <2>1, Taken DEF ReadData
    <3>4. QED
      BY <2>3, <3>2, <3>3 DEF InTurn, FlushResynchronises
  <2>4. QED
    BY <2>1, <2>2, <2>3
<1>4. CASE Accept
  <2>1. Read \cup {Head(rx).part} = {"length", "data", "crc"}
    BY <1>4 DEF Accept, Good, InPlace, Read
  <2>2. UNCHANGED <<req, unanswered, wire>> /\ pc' = "rest" /\ shown' = data.req
    BY <1>4 DEF Accept, ecu
  <2>3. rx' \in Seq(Chunk) /\ wire \in Seq(Chunk)
    BY <1>1, HeadTailProperties DEF Take, TypeOK
  <2>4. ASSUME NEW q \in Seq(Chunk),
               \A i \in 1 .. Len(q) : q[i].part \notin {"length", "data", "crc"}
        PROVE  q = << >>
    <3>1. \A i \in 1 .. Len(q) : q[i].part \in {"length", "data", "crc"}
      <4>1. \A i \in 1 .. Len(q) : q[i] \in Chunk
        BY ElementOfSeq
      <4>2. QED
        BY <4>1 DEF Chunk
    <3>2. Len(q) \notin Nat \ {0}
      BY <2>4, <3>1
    <3>3. QED
      BY <3>2, EmptySeq
  <2>5. Silent'
    BY <1>1, <2>1, <2>2, <2>3, <2>4, Taken DEF Silent
  <2>6. shown' = req'
    BY <1>4, <2>2 DEF Accept, InStep, InTurn
  <2>7. QED
    BY <2>2, <2>5, <2>6 DEF InTurn, FlushResynchronises
<1>5. QED
  BY <1>2, <1>3, <1>4

LEMMA WorkerKeepsStep == TypeOK /\ InStep /\ Worker => InStep'
<1> SUFFICES ASSUME TypeOK, InStep, Worker
             PROVE  InStep'
  OBVIOUS
<1>1. CASE SendRequest
  <2>1. UNCHANGED <<fd, owed, wire, rx>> /\ pc' = "length" /\ req' \in Req
    BY <1>1, KAssumption DEF SendRequest, Req, TypeOK
  <2>2. ASSUME Silent
        PROVE  OneAnswer'
    <3>1. unanswered' = << >> \/ unanswered' = <<req'>>
      BY <1>1, <2>2, <2>1 DEF SendRequest, Silent
    <3>2. wire' = << >> /\ rx' = << >>
      BY <2>1, <2>2 DEF Silent
    <3>3. QED
      BY <2>1, <3>1, <3>2 DEF OneAnswer, Mine, Once, Apart
  <2>3. fd' = "open" /\ ~ owed' => InTurn'
    BY <1>1, <2>1, <2>2 DEF SendRequest, InStep, InTurn
  <2>4. QED
    BY <2>1, <2>3 DEF InStep, FlushResynchronises
<1>2. CASE Fail
  BY <1>2, FailInStep
<1>3. CASE ReadLength \/ ReadData \/ Accept
  BY <1>3, ReadsKeepStep
<1>4. CASE pc' = "astray"
  BY <1>4 DEF InStep, InTurn, FlushResynchronises, Worker, SendRequest, SendFails, PortError,
     Fail, ReadLength, MistakeLength, ReadData, ReadAstray, Accept, Reject,
     NoMemory, TimeOut, Rest, Sleep, Reopen, ReopenFails
<1>5. CASE Rest
  <2>1. UNCHANGED <<fd, owed, req, shown, unanswered, wire, rx>> /\ pc' = "poll"
    BY <1>5 DEF Rest, Going, ecu
  <2>2. QED
    BY <1>5, <2>1 DEF Rest, InStep, InTurn, Silent, FlushResynchronises
<1>6. CASE Sleep \/ ReopenFails
  <2>1. pc \in {"sleep", "reopen"} /\ pc' \in {"reopen", "poll"} /\ fd' = fd
    BY <1>6 DEF Sleep, ReopenFails, Going
  <2>2. QED
    BY <2>1 DEF InStep, FlushResynchronises
<1>7. CASE Reopen
  <2>1. ~ owed' => Silent'
    BY <1>7, Zenon DEF Reopen, Silent, ecu
  <2>2. QED
    BY <1>7, <2>1 DEF Reopen, InStep, InTurn, FlushResynchronises
<1>8. QED
  BY <1>1, <1>2, <1>3, <1>4, <1>5, <1>6, <1>7 DEF Worker, SendFails, PortError, MistakeLength,
     ReadAstray, Reject, NoMemory, TimeOut

LEMMA EnvironmentKeepsStep == TypeOK /\ InStep /\ Environment => InStep'
<1> SUFFICES ASSUME TypeOK, InStep, Environment
             PROVE  InStep'
  OBVIOUS
<1>1. UNCHANGED <<pc, data, req, shown, owed>>
  BY Zenon DEF Environment, EcuAnswers, Deliver, DropChunk, DamageChunk, LoseRequest,
     PowerOff, PowerOn, Unplug, PlugIn, Daemon
<1>2. fd' = fd \/ (fd = "open" /\ fd' = "hung")
  BY Zenon DEF Environment, EcuAnswers, Deliver, DropChunk, DamageChunk, LoseRequest,
     PowerOff, PowerOn, Unplug, PlugIn, Daemon
<1>3. SUFFICES ASSUME fd = "open", fd' = "open", ~ owed, InTurn
               PROVE  InTurn'
  BY <1>1, <1>2 DEF InStep, FlushResynchronises
<1>4. Read' = Read
  BY <1>1 DEF Read
<1>5. CASE pc \in {"poll", "rest"}
  <2>1. Silent
    BY <1>3, <1>5 DEF InTurn
  <2>2. CASE EcuAnswers \/ Deliver \/ DropChunk \/ DamageChunk \/ LoseRequest
    BY <2>1, <2>2 DEF Silent, EcuAnswers, Deliver, DropChunk, DamageChunk, LoseRequest
  <2>3. CASE PowerOff \/ PowerOn \/ Unplug \/ PlugIn
    BY <1>1, <1>5, <2>1, <2>3 DEF InTurn, Silent, PowerOff, PowerOn, Unplug, PlugIn
  <2>4. QED
    BY <2>2, <2>3 DEF Environment
<1>6. CASE pc \in {"length", "data", "crc"}
  <2>1. OneAnswer
    BY <1>3, <1>6 DEF InTurn
  <2>2. SUFFICES OneAnswer'
    BY <1>1, <1>3, <1>6 DEF InTurn
  <2>3. CASE EcuAnswers
    <3>1. pc = "length" /\ unanswered = <<req>> /\ rx = << >>
      BY <2>1, <2>3 DEF EcuAnswers, OneAnswer
    <3>2. unanswered' = << >> /\ rx' = << >>
      BY <2>3, <3>1 DEF EcuAnswers
    <3>3. PICK flag \in BOOLEAN : wire' = Answer(req, flag)
      <4>1. Head(unanswered) = req
        BY <3>1
      <4>2. wire' = Answer(req, TRUE) \/ wire' = Answer(req, FALSE)
        BY <2>3, <4>1, Zenon DEF EcuAnswers
      <4>3. QED
        BY <4>2, Zenon
    <3>4. Mine(wire)' /\ Once(wire)'
      BY <1>1, <3>1, <3>3 DEF Answer, Piece, Mine, Once, Read
    <3>5. QED
      BY <3>2, <3>4 DEF OneAnswer, Mine, Once, Apart
  <2>4. CASE Deliver
    <3>1. wire # << >> /\ wire' = Tail(wire) /\ rx' = Append(rx, Head(wire))
      BY <1>3, <2>4 DEF Deliver
    <3>2. UNCHANGED unanswered /\ unanswered = << >>
      BY <2>1, <2>4 DEF Deliver, OneAnswer
    <3>3. Head(wire) \in Chunk /\ Head(wire) = wire[1] /\ 1 \in 1 .. Len(wire)
      BY <3>1, TailFacts, HeadTailProperties DEF TypeOK
    <3>4. /\ Len(rx') = Len(rx) + 1
          /\ \A i \in 1 .. Len(rx) : rx'[i] = rx[i]
          /\ rx'[Len(rx) + 1] = Head(wire)
      BY <3>1, <3>3, AppendProperties DEF TypeOK
    <3>5. \A i \in 1 .. Len(rx') : i \in 1 .. Len(rx) \/ i = Len(rx) + 1
      BY <3>4 DEF TypeOK
    <3>6. Mine(wire)' /\ Mine(rx)'
      BY <1>1, <1>4, <2>1, <3>1, <3>3, <3>4, <3>5, TailFacts, SMTT(60) DEF OneAnswer, Mine, TypeOK
    <3>7. Once(wire)' /\ Once(rx)'
      <4>1. Once(wire)'
        BY <2>1, <3>1, OnceTail, Zenon DEF OneAnswer, TypeOK, Once
      <4>2. \A i \in 1 .. Len(rx) : Head(wire).part # rx[i].part
        BY <2>1, <3>1, ApartTail DEF OneAnswer, TypeOK
      <4>3. Once(rx)'
        BY <2>1, <3>4, <3>5, <4>2 DEF OneAnswer, Once
      <4>4. QED
        BY <4>1, <4>3
    <3>8. Apart(wire, rx)'
      <4>1. Apart(Tail(wire), rx)
        BY <2>1, <3>1, ApartTail DEF OneAnswer, TypeOK
      <4>2. \A i \in 1 .. Len(Tail(wire)) : Tail(wire)[i].part # Head(wire).part
        BY <2>1, <3>1, OnceTail DEF OneAnswer, TypeOK
      <4>3. QED
        BY <3>1, <3>4, <3>5, <4>1, <4>2 DEF Apart
    <3>9. QED
      BY <3>2, <3>6, <3>7, <3>8 DEF OneAnswer
  <2>5. CASE DropChunk
    BY <1>1, <2>1, <2>5, LessOnWire DEF DropChunk
  <2>6. CASE DamageChunk
    <3>1. 1 \in 1 .. Len(wire) /\ wire[1] \in Chunk /\ wire # << >>
      BY <2>6, TailFacts, ElementOfSeq DEF DamageChunk, TypeOK
    <3>2. UNCHANGED <<unanswered, rx>> /\ unanswered = << >>
      BY <2>1, <2>6 DEF DamageChunk, OneAnswer
    <3>3. /\ Len(wire') = Len(wire)
          /\ \A i \in 1 .. Len(wire) :
               wire'[i].part = wire[i].part /\ wire'[i].req = wire[i].req
      <4> DEFINE damaged == [wire[1] EXCEPT !.ok = FALSE]
      <4>1. damaged \in Chunk /\ damaged.part = wire[1].part /\ damaged.req = wire[1].req
        BY <3>1, Zenon DEF Chunk
      <4>2. wire' = [wire EXCEPT ![1] = damaged]
        BY <2>6 DEF DamageChunk
      <4> HIDE DEF damaged
      <4>3. QED
        BY <3>1, <4>1, <4>2, ExceptSeq DEF TypeOK
    <3>4. QED
      BY <1>1, <1>4, <2>1, <3>2, <3>3 DEF OneAnswer, Mine, Once, Apart
  <2>7. CASE LoseRequest
    <3>1. unanswered = <<req>> /\ pc = "length" /\ wire = << >> /\ rx = << >>
      BY <2>1, <2>7 DEF LoseRequest, OneAnswer
    <3>2. unanswered' = << >>
      BY <2>7, <3>1, SubSeqEmpty DEF LoseRequest
    <3>3. QED
      BY <2>7, <3>1, <3>2 DEF LoseRequest, OneAnswer, Mine, Once, Apart
  <2>8. CASE PowerOff
    BY <1>1, <1>4, <2>1, <2>8 DEF PowerOff, OneAnswer, Mine, Once, Apart
  <2>9. CASE PowerOn \/ PlugIn
    BY <1>1, <1>4, <2>1, <2>9 DEF PowerOn, PlugIn, OneAnswer, Mine, Once, Apart
  <2>10. CASE Unplug
    BY <1>3, <2>10 DEF Unplug
  <2>11. QED
    BY <2>3, <2>4, <2>5, <2>6, <2>7, <2>8, <2>9, <2>10 DEF Environment
<1>7. CASE pc \notin {"poll", "rest", "length", "data", "crc"}
  BY <1>1, <1>7 DEF InTurn
<1>8. QED
  BY <1>5, <1>6, <1>7

LEMMA StaysInStep == Spec => []InStep
<1>1. Init => InStep
  BY DEF Init, InStep, InTurn, Silent, FlushResynchronises
<1>2. TypeOK /\ InStep /\ [Next]_vars => InStep'
  <2>1. TypeOK /\ InStep /\ Next => InStep'
    BY WorkerKeepsStep, EnvironmentKeepsStep DEF Next
  <2>2. InStep /\ UNCHANGED vars => InStep'
    BY DEF vars, tally, ecu, InStep, InTurn, Silent, OneAnswer, Mine, Read, Once,
       Apart, FlushResynchronises
  <2>3. QED
    BY <2>1, <2>2
<1>3. QED
  BY <1>1, <1>2, TypeCorrect, PTL DEF Spec

(* Closing and reopening the port puts the worker back in step with the    *)
(* ECU, whatever was lost before (main.c:101-115, serial_comm.c:158).      *)
THEOREM BackInStep == Spec => []FlushResynchronises
<1>1. InStep => FlushResynchronises
  BY DEF InStep
<1>2. QED
  BY <1>1, StaysInStep, PTL
------------------------------------------------------------------------------
(* Induction over the naturals, for a set in place of a predicate: the     *)
(* naturals are well-founded, so that what is left out has a least element. *)
LEMMA Least ==
  ASSUME NEW T \in SUBSET Nat, T # {}
  PROVE  \E x \in T : \A y \in T : x <= y
<1> DEFINE R == OpToRel(<, Nat)
<1>1. R = {ss \in Nat \X Nat : ss[1] < ss[2]}
  BY Zenon DEF OpToRel
<1>2. IsWellFoundedOn(R, Nat)
  BY NatLessThanWellFounded, Zenon
<1> HIDE DEF R
<1>3. PICK x \in T : \A y \in T : ~ (<<y, x>> \in R)
  BY <1>2, WFMin, Zenon
<1>4. ASSUME NEW y \in T PROVE x <= y
  <2>1. <<y, x>> \notin R /\ x \in Nat /\ y \in Nat
    BY <1>3
  <2>2. QED
    BY <1>1, <2>1
<1>5. QED
  BY <1>4

LEMMA Induction ==
  ASSUME NEW P, 0 \in P, \A n \in Nat : n \in P => n + 1 \in P
  PROVE  Nat \subseteq P
<1> SUFFICES ASSUME Nat \ P # {} PROVE FALSE
  OBVIOUS
<1>1. PICK m \in Nat \ P : \A y \in Nat \ P : m <= y
  BY Least, Zenon
<1>2. m # 0 /\ m - 1 \in Nat /\ m - 1 + 1 = m /\ ~ (m <= m - 1)
  OBVIOUS
<1>3. m - 1 \in P
  BY <1>1, <1>2
<1>4. QED
  BY <1>2, <1>3

(* An element c of S and a function g on S have an iteration.              *)
IsIteration(f, S, c, g) ==
  f \in [Nat -> S] /\ f[0] = c /\ \A n \in Nat : f[n + 1] = g[f[n]]

LEMMA Iterates ==
  ASSUME NEW S, NEW c \in S, NEW g \in [S -> S]
  PROVE  \E f : IsIteration(f, S, c, g)
<1> DEFINE Upto(n) == {f \in [0 .. n -> S] : f[0] = c /\ \A i \in 0 .. n - 1 : f[i + 1] = g[f[i]]}
           P == {n \in Nat : Upto(n) # {}}
<1>1. 0 \in P
  <2>1. [i \in 0 .. 0 |-> c] \in Upto(0)
    OBVIOUS
  <2>2. QED
    BY <2>1
<1>2. ASSUME NEW n \in Nat, n \in P PROVE n + 1 \in P
  <2>1. PICK f \in [0 .. n -> S] : f[0] = c /\ \A i \in 0 .. n - 1 : f[i + 1] = g[f[i]]
    BY <1>2
  <2> DEFINE h == [i \in 0 .. n + 1 |-> IF i = n + 1 THEN g[f[n]] ELSE f[i]]
  <2>2. h \in [0 .. n + 1 -> S]
    OBVIOUS
  <2>3. h[0] = c
    BY <2>1
  <2>4. ASSUME NEW i \in 0 .. n PROVE h[i + 1] = g[h[i]]
    <3>1. CASE i = n
      BY <3>1
    <3>2. CASE i # n
      <4>1. i \in 0 .. n - 1 /\ i + 1 \in 0 .. n + 1 /\ i + 1 # n + 1 /\ i # n + 1 /\ i \in 0 .. n + 1
        BY <3>2
      <4>2. QED
        BY <2>1, <4>1
    <3>3. QED
      BY <3>1, <3>2
  <2>5. (n + 1) - 1 = n
    OBVIOUS
  <2> HIDE DEF h
  <2>6. h \in Upto(n + 1)
    BY <2>2, <2>3, <2>4, <2>5
  <2>7. QED
    BY <2>6
<1>3. \A n \in Nat : Upto(n) # {}
  <2> HIDE DEF P, Upto
  <2>1. Nat \subseteq P
    BY <1>1, <1>2, Induction
  <2>2. QED
    BY <2>1 DEF P
<1>4. ASSUME NEW n \in Nat, NEW m \in Nat, n <= m, NEW f \in Upto(n), NEW h \in Upto(m)
      PROVE  f[n] = h[n]
  <2> DEFINE Q == {i \in Nat : i <= n => f[i] = h[i]}
  <2>1. 0 \in Q
    OBVIOUS
  <2>2. ASSUME NEW i \in Nat, i \in Q PROVE i + 1 \in Q
    <3> SUFFICES ASSUME i + 1 <= n PROVE f[i + 1] = h[i + 1]
      OBVIOUS
    <3>1. i \in 0 .. n - 1 /\ i \in 0 .. m - 1 /\ i <= n
      BY <1>4
    <3>2. f[i + 1] = g[f[i]] /\ h[i + 1] = g[h[i]]
      BY <3>1
    <3>3. f[i] = h[i]
      BY <2>2, <3>1
    <3>4. QED
      BY <3>2, <3>3
  <2>3. Nat \subseteq Q
    <3> HIDE DEF Q
    <3>1. QED
      BY <2>1, <2>2, Induction, Zenon
  <2>4. QED
    BY <2>3
<1> DEFINE F == [n \in Nat |-> (CHOOSE f : f \in Upto(n))[n]]
<1>5. \A n \in Nat : (CHOOSE f : f \in Upto(n)) \in Upto(n)
  <2> HIDE DEF Upto
  <2>1. QED
    BY <1>3, Zenon
<1>6. ASSUME NEW n \in Nat PROVE F[n] \in S
  <2>1. PICK f : f \in Upto(n) /\ f = CHOOSE h : h \in Upto(n)
    <3> HIDE DEF Upto
    <3>1. QED
      BY <1>5
  <2>2. F[n] = f[n]
    BY <2>1
  <2>3. QED
    BY <2>1, <2>2, SMTT(60)
<1>7. F[0] = c
  <2>1. PICK f : f \in Upto(0) /\ f = CHOOSE h : h \in Upto(0)
    <3> HIDE DEF Upto
    <3>1. QED
      BY <1>5
  <2>2. F[0] = f[0]
    BY <2>1
  <2>3. QED
    BY <2>1, <2>2
<1>8. ASSUME NEW n \in Nat PROVE F[n + 1] = g[F[n]]
  <2>1. PICK f : f \in Upto(n) /\ f = CHOOSE h : h \in Upto(n)
    <3> HIDE DEF Upto
    <3>1. QED
      BY <1>5
  <2>2. PICK k : k \in Upto(n + 1) /\ k = CHOOSE h : h \in Upto(n + 1)
    <3> HIDE DEF Upto
    <3>1. QED
      BY <1>5
  <2>3. F[n] = f[n] /\ F[n + 1] = k[n + 1]
    BY <2>1, <2>2
  <2>4. f[n] = k[n]
    <3> HIDE DEF Upto
    <3>1. QED
      BY <1>4, <2>1, <2>2
  <2>5. n \in 0 .. (n + 1) - 1
    OBVIOUS
  <2>6. k[n + 1] = g[k[n]]
    BY <2>2, <2>5, Zenon
  <2>7. QED
    BY <2>3, <2>4, <2>6
<1>9. F \in [Nat -> S]
  <2> HIDE DEF Upto
  <2>1. QED
    BY <1>6
<1> HIDE DEF F
<1>10. QED
  BY <1>7, <1>8, <1>9 DEF IsIteration

(* The doublings of the backoff.                                           *)
LEMMA Doublings ==
  /\ \A n \in Nat : Doubled[n] \in Nat /\ Doubled[n] >= 1
  /\ Doubled[0] = BackoffInitial
  /\ \A n \in Nat : Doubled[n + 1] = 2 * Doubled[n]
<1> DEFINE S == Nat \ {0}
           D(f) == [n \in Nat |-> IF n = 0 THEN BackoffInitial ELSE 2 * f[n - 1]]
<1>1. PICK f : f \in [Nat -> S] /\ f[0] = BackoffInitial
               /\ \A n \in Nat : f[n + 1] = 2 * f[n]
  <2>1. PICK g \in [S -> S] : \A x \in S : g[x] = 2 * x
    <3>1. [x \in S |-> 2 * x] \in [S -> S]
      OBVIOUS
    <3>2. QED
      BY <3>1, Zenon
  <2>2. \E f : IsIteration(f, S, BackoffInitial, g)
    <3>1. BackoffInitial \in S
      BY BackoffAssumption
    <3> HIDE DEF S
    <3>2. QED
      BY <3>1, Iterates
  <2>3. QED
    BY <2>1, <2>2, SMTT(60) DEF IsIteration
<1>2. f = D(f)
  <2>1. ASSUME NEW n \in Nat PROVE f[n] = D(f)[n]
    <3>1. CASE n = 0
      BY <1>1, <3>1
    <3>2. CASE n # 0
      <4>1. n - 1 \in Nat /\ (n - 1) + 1 = n
        BY <3>2
      <4>2. f[n] = 2 * f[n - 1]
        BY <1>1, <4>1
      <4>3. QED
        BY <3>2, <4>2
    <3>3. QED
      BY <3>1, <3>2
  <2>2. QED
    BY <1>1, <2>1
<1>3. Doubled = D(Doubled)
  BY <1>2, Zenon DEF Doubled
<1>4. \A n \in Nat : Doubled[n] = f[n]
  <2> DEFINE Q == {n \in Nat : Doubled[n] = f[n]}
  <2>1. 0 \in Q
    BY <1>1, <1>3
  <2>2. ASSUME NEW n \in Nat, n \in Q PROVE n + 1 \in Q
    <3>1. n + 1 # 0 /\ (n + 1) - 1 = n
      OBVIOUS
    <3>2. Doubled[n + 1] = 2 * Doubled[n]
      BY <1>3, <3>1
    <3>3. QED
      BY <1>1, <2>2, <3>2
  <2>3. Nat \subseteq Q
    <3> HIDE DEF Q
    <3>1. QED
      BY <2>1, <2>2, Induction
  <2>4. QED
    BY <2>3
<1>5. QED
  BY <1>1, <1>4

(* One more failure moves the schedule on by one.                          *)
LEMMA Raised ==
  ASSUME NEW n \in Nat, backoff = Scheduled(n), RaiseBackoff
  PROVE  backoff' = Scheduled(n + 1)
<1> DEFINE d == Doubled[n - 1]
<1>1. (n + 1) - 1 = n /\ n + 1 # 0
  OBVIOUS
<1>2. Scheduled(n + 1) = Lesser(Doubled[n], BackoffMax)
  BY <1>1 DEF Scheduled
<1>3. CASE n = 0
  BY <1>2, <1>3, Doublings, BackoffAssumption DEF Scheduled, RaiseBackoff, Lesser
<1>4. CASE n # 0
  <2>1. n - 1 \in Nat /\ (n - 1) + 1 = n
    BY <1>4
  <2>2. d \in Nat /\ d >= 1 /\ Doubled[n] = 2 * d
    BY <2>1, Doublings
  <2>3. backoff = Lesser(d, BackoffMax)
    BY <1>4 DEF Scheduled
  <2> HIDE DEF d
  <2>4. QED
    BY <1>2, <2>2, <2>3, BackoffAssumption DEF RaiseBackoff, Lesser
<1>5. QED
  BY <1>3, <1>4

(* Where the count of refused openings saturates so does the schedule.     *)
LEMMA Saturated ==
  ASSUME NEW n \in 0 .. MaxFailures
  PROVE  Scheduled(Up(n)) = Scheduled(n + 1)
<1>1. CASE n < MaxFailures
  BY <1>1 DEF Up
<1>2. CASE n = MaxFailures
  <2> DEFINE d == Doubled[MaxFailures - 1]
  <2>1. /\ MaxFailures - 1 \in Nat /\ (MaxFailures - 1) + 1 = MaxFailures
        /\ MaxFailures \in Nat \ {0} /\ (MaxFailures + 1) - 1 = MaxFailures
    BY BoundsAssumption
  <2>2. d \in Nat /\ Doubled[MaxFailures] = 2 * d /\ BackoffMax <= d
    BY <2>1, Doublings, SaturationAssumption
  <2>3. Scheduled(MaxFailures) = Lesser(d, BackoffMax)
    BY <2>1 DEF Scheduled
  <2>4. Scheduled(MaxFailures + 1) = Lesser(Doubled[MaxFailures], BackoffMax)
    BY <2>1 DEF Scheduled
  <2> HIDE DEF d
  <2>5. Lesser(d, BackoffMax) = Lesser(2 * d, BackoffMax)
    BY <2>2, BackoffAssumption DEF Lesser
  <2>6. QED
    BY <1>2, <2>2, <2>3, <2>4, <2>5 DEF Up
<1>3. QED
  BY <1>1, <1>2, BoundsAssumption

(* The argument for RetryRate: no opening is refused while the port is     *)
(* open, so a poll on an open port finds the schedule at its start, and    *)
(* one without a port finds it where the last refusal left it.             *)
Paced ==
  /\ fd # "closed" \/ pc \notin {"poll", "sleep", "reopen"} => refused = 0
  /\ backoff = Scheduled(IF pc \in {"sleep", "reopen"} THEN refused + 1 ELSE refused)

LEMMA FailPaced ==
  ASSUME TypeOK, Paced, Fail, pc \notin {"sleep", "reopen"}
  PROVE  Paced'
<1>1. refused \in Nat
  BY BoundsAssumption DEF TypeOK
<1>2. backoff' = Scheduled(refused + 1)
  BY <1>1, Raised DEF Paced, Fail
<1>3. QED
  BY <1>2 DEF Paced, Fail, Scheduled

LEMMA WorkerPaced == TypeOK /\ InStep /\ Paced /\ Worker => Paced'
<1> SUFFICES ASSUME TypeOK, InStep, Paced, Worker
             PROVE  Paced'
  OBVIOUS
<1>1. CASE Fail /\ pc \notin {"sleep", "reopen"}
  BY <1>1, FailPaced
<1>2. CASE SendRequest \/ ReadLength \/ ReadData \/ Rest
  <2>1. UNCHANGED <<fd, backoff, refused>> /\ pc \notin {"sleep", "reopen"}
        /\ pc' \notin {"sleep", "reopen"}
    BY <1>2 DEF SendRequest, ReadLength, ReadData, Rest, Going, tally
  <2>2. refused = 0
    BY <1>2 DEF Paced, SendRequest, ReadLength, ReadData, Rest
  <2>3. QED
    BY <2>1, <2>2 DEF Paced, Scheduled
<1>3. CASE Going /\ pc' = "astray" /\ pc \notin {"poll", "sleep", "reopen"}
  <2>1. UNCHANGED <<backoff, refused>> /\ refused = 0
    BY <1>3 DEF Going, tally, Paced
  <2>2. QED
    BY <1>3, <2>1 DEF Paced, Scheduled
<1>4. CASE Accept
  BY <1>4 DEF Accept, Paced, Scheduled
<1>5. CASE Sleep
  BY <1>5 DEF Sleep, Going, tally, Paced, InStep, Scheduled
<1>6. CASE Reopen
  BY <1>6 DEF Reopen, Paced, Scheduled
<1>7. CASE ReopenFails
  <2>1. /\ pc' = "poll" /\ fd' = "closed" /\ backoff' = Scheduled(refused + 1)
        /\ refused' = Up(refused)
    BY <1>7 DEF ReopenFails, tally, Paced, InStep
  <2>2. backoff' = Scheduled(refused')
    BY <2>1, Saturated DEF TypeOK
  <2>3. QED
    BY <2>1, <2>2 DEF Paced, Scheduled
<1>8. QED
  BY <1>1, <1>2, <1>3, <1>4, <1>5, <1>6, <1>7 DEF Worker, SendFails, PortError,
     MistakeLength, ReadAstray, Reject, NoMemory, TimeOut

LEMMA EnvironmentPaced == Paced /\ Environment => Paced'
<1> SUFFICES ASSUME Paced, Environment
             PROVE  Paced'
  OBVIOUS
<1>1. UNCHANGED <<pc, backoff, refused>>
  BY Zenon DEF Environment, EcuAnswers, Deliver, DropChunk, DamageChunk, LoseRequest,
     PowerOff, PowerOn, Unplug, PlugIn, Daemon, tally
<1>2. fd' = fd \/ (fd = "open" /\ fd' = "hung")
  BY Zenon DEF Environment, EcuAnswers, Deliver, DropChunk, DamageChunk, LoseRequest,
     PowerOff, PowerOn, Unplug, PlugIn, Daemon
<1>3. QED
  BY <1>1, <1>2 DEF Paced, Scheduled

(* The wait before the next attempt depends on the openings that failed    *)
(* since the port was open and on nothing else (main.c:86-118): so it      *)
(* doubles while the port is gone, and an ECU that is silent behind a port *)
(* that opens is tried again after BackoffInitial each time.               *)
THEOREM WaitsForThePort == Spec => []RetryRate
<1>1. Init => Paced
  BY DEF Init, Paced, Scheduled
<1>2. TypeOK /\ InStep /\ Paced /\ [Next]_vars => Paced'
  <2>1. UNCHANGED vars /\ Paced => Paced'
    BY DEF vars, tally, Paced, Scheduled
  <2>2. QED
    BY <2>1, WorkerPaced, EnvironmentPaced DEF Next
<1>3. Paced => RetryRate
  BY DEF Paced, RetryRate, Scheduled
<1>4. QED
  BY <1>1, <1>2, <1>3, TypeCorrect, StaysInStep, PTL DEF Spec
===============================================================================
