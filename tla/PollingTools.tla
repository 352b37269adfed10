----------------------------- MODULE PollingTools ------------------------------
(***************************************************************************)
(* The two Python programs that poll the ECU over the serial line:         *)
(* capture_ecu_outpc.py writes the answers into a capture file, which      *)
(* load_capture reads; ms2_ini_dash.py shows them.  Neither empties the    *)
(* line after an answer that failed or came late.                          *)
(*                                                                         *)
(* line holds all bytes the ECU has sent; which of them have arrived when  *)
(* a read times out is chosen there.  The clock counts ticks.              *)
(***************************************************************************)
EXTENDS Framing, Integers

CONSTANTS
  Tool,       (* "capture" or "dash"                                       *)
  Blocks,     (* Blocks[k]: the OUTPC block the ECU answers to poll k      *)
  BlockSize,  (* ochBlockSize                                              *)
  Signature,  (* the payload of the answer to Q                            *)
  Interval,   (* ticks from poll to poll                                   *)
  Patience,   (* ticks of a timeout                                        *)
  Duration,   (* ticks of the capture; for the dash a bound                *)
  MaxFaults   (* bound: bursts of lost bytes, and late answers             *)

VARIABLES
  line,     (* bytes from the ECU that have not been read                  *)
  pc,       (* query, size, payload, crc, wait, end, or dead: an exception *)
  request,  (* Q or A: what is being read is to be the answer to           *)
  size, payload, (* what has been read of it                               *)
  clock, next,   (* the time, next_poll                                    *)
  polls,    (* history: the times of the polls                             *)
  file,     (* the capture file behind its header: stamp, length, bytes    *)
  recorded, (* history: the frames written to it                           *)
  shown,    (* what the dash shows: the block, and no warning              *)
  faults

vars == <<line, pc, request, size, payload, clock, next, polls, file, recorded, shown, faults>>
results == <<file, recorded, shown>>

Answer(p) == Frame(p)
Nothing == [block |-> << >>, ok |-> FALSE]

Init == /\ line = << >> /\ pc = "query" /\ request = "Q"
        /\ size = 0 /\ payload = None
        /\ clock = 0 /\ next = 0 /\ polls = << >>
        /\ file = << >> /\ recorded = << >> /\ shown = Nothing
        /\ faults = 0

------------------------------------------------------------------------------
(* The line.                                                               *)

Lose == \E i \in 1 .. Len(line) : \E j \in i .. Len(line) :
  /\ faults < MaxFaults
  /\ faults' = faults + 1
  /\ line' = SubSeq(line, 1, i - 1) \o Drop(line, j)
  /\ UNCHANGED <<pc, request, size, payload, clock, next, polls, results>>

------------------------------------------------------------------------------
(* Requests.                                                               *)

(* query_signature; the input is empty after the port was opened.          *)
Query ==
  /\ pc = "query"
  /\ line' = Answer(Signature)
  /\ pc' = "size" /\ request' = "Q"
  /\ UNCHANGED <<size, payload, clock, next, polls, results, faults>>

Running == Tool = "dash" \/ clock < Duration

(* Time passes: sleeping until the next poll, or at work.                  *)
Tick ==
  /\ pc = "wait" /\ Running /\ clock < Duration
  /\ clock' = clock + 1
  /\ UNCHANGED <<line, pc, request, size, payload, next, polls, results, faults>>

(* Faulty variant: a schedule that has fallen behind is caught up with.    *)
CaughtUpNext == next + Interval

(* "Don't let it fall too far behind".                                     *)
ScheduledNext == IF next + Interval < clock THEN clock + Interval ELSE next + Interval

(* The request A, and the block the ECU answers it with.                   *)
Poll ==
  /\ pc = "wait" /\ Running /\ clock >= next /\ Len(polls) < Len(Blocks)
  /\ polls' = Append(polls, clock)
  /\ line' = line \o Answer(<<1>> \o Blocks[Len(polls) + 1])
  /\ next' = IF Tool = "capture" THEN ScheduledNext ELSE next
  /\ pc' = "size" /\ request' = "A"
  /\ UNCHANGED <<size, payload, clock, results, faults>>

End == /\ pc = "wait" /\ ~Running
       /\ pc' = "end"
       /\ UNCHANGED <<line, request, size, payload, clock, next, polls, results, faults>>

------------------------------------------------------------------------------
(* What is done with an answer p, and with none.                           *)

Record(p) ==
  /\ file' = file \o <<polls[Len(polls)], Len(p) - 1>> \o Tail(p)
  /\ recorded' = Append(recorded, [stamp |-> polls[Len(polls)], block |-> Tail(p)])

(* capture_outpc: the flag of an answer to Q is not looked at, and any     *)
(* answer must have one.                                                   *)
Capture(p) ==
  /\ IF p = None THEN pc' = "dead" /\ UNCHANGED <<file, recorded>>
     ELSE IF request = "Q"
       THEN pc' = (IF Len(p) > 1 THEN "wait" ELSE "end") /\ UNCHANGED <<file, recorded>>
     ELSE /\ pc' = "wait"
          /\ IF p[1] = 1 THEN Record(p) ELSE UNCHANGED <<file, recorded>>
  /\ UNCHANGED <<shown, next>>

NoCapture == /\ pc' = IF request = "Q" THEN "end" ELSE "wait"
             /\ UNCHANGED <<file, recorded, shown, next>>

(* Faulty variant: an answer of any size is shown as it is.                *)
ShowAny(p) ==
  /\ pc' = "wait" /\ next' = clock + Interval
  /\ shown' = IF request = "Q" THEN shown ELSE [block |-> IF p = None THEN p ELSE Tail(p), ok |-> TRUE]
  /\ UNCHANGED <<file, recorded>>

(* The dash: the flag is skipped, another size is a warning.               *)
Show(p) ==
  /\ pc' = "wait" /\ next' = clock + Interval
  /\ LET block == IF p = None THEN p ELSE Tail(p)
     IN shown' = IF request = "Q" THEN shown ELSE [block |-> block, ok |-> Len(block) = BlockSize]
  /\ UNCHANGED <<file, recorded>>

NoShow(now) ==
  /\ pc' = "wait" /\ next' = now + Interval
  /\ shown' = IF request = "Q" THEN shown ELSE Nothing
  /\ UNCHANGED <<file, recorded>>

Take(p)   == IF Tool = "capture" THEN Capture(p) ELSE Show(p)
Fail(now) == IF Tool = "capture" THEN NoCapture ELSE NoShow(now)

------------------------------------------------------------------------------
(* read_response and send_command.                                         *)

Need == CASE pc = "size" -> 2 [] pc = "payload" -> size [] OTHER -> 4

Reading == pc \in {"size", "payload", "crc"} /\ Len(line) >= Need

(* A faulty variant: the size is taken for a signed number.                *)
ReadSizeSigned ==
  /\ Reading /\ pc = "size"
  /\ size' = 256 * line[1] + line[2] - (IF line[1] > 127 THEN 65536 ELSE 0)
  /\ line' = Drop(line, 2) /\ pc' = "payload"
  /\ UNCHANGED <<request, payload, clock, next, polls, results, faults>>

ReadSize ==
  /\ Reading /\ pc = "size"
  /\ size' = 256 * line[1] + line[2]
  /\ line' = Drop(line, 2) /\ pc' = "payload"
  /\ UNCHANGED <<request, payload, clock, next, polls, results, faults>>

ReadPayload ==
  /\ Reading /\ pc = "payload"
  /\ payload' = SubSeq(line, 1, size)
  /\ line' = Drop(line, size) /\ pc' = "crc"
  /\ UNCHANGED <<request, size, clock, next, polls, results, faults>>

(* The CRC-32 of no bytes is zero.                                         *)
CrcIs(p, c) == IF p = None THEN c = <<0, 0, 0, 0>> ELSE p \in DOMAIN Crc /\ Crc[p] = c

(* A faulty variant: a CRC that does not match is not noticed.             *)
ReadCrcOnly ==
  /\ Reading /\ pc = "crc"
  /\ Take(payload)
  /\ line' = Drop(line, 4)
  /\ UNCHANGED <<request, size, payload, clock, polls, faults>>

ReadCrc ==
  /\ Reading /\ pc = "crc"
  /\ IF CrcIs(payload, SubSeq(line, 1, 4)) THEN Take(payload) ELSE Fail(clock)
  /\ line' = Drop(line, 4)
  /\ UNCHANGED <<request, size, payload, clock, polls, faults>>

(* A faulty variant: a read does not wait for bytes that are on their way. *)
TimeOutAtOnce ==
  /\ pc \in {"size", "payload", "crc"}
  /\ \E k \in 0 .. Need - 1 : k <= Len(line) /\ line' = Drop(line, k)
  /\ clock' = clock + Patience
  /\ Fail(clock')
  /\ UNCHANGED <<request, size, payload, polls, faults>>

(* The rest has not arrived in time, or was never sent: what has arrived   *)
(* is read and dropped, what comes later stays.                            *)
TimeOut ==
  /\ pc \in {"size", "payload", "crc"}
  /\ \E k \in 0 .. Need - 1 :
       /\ k <= Len(line) /\ (k < Len(line) => faults < MaxFaults)
       /\ faults' = IF k < Len(line) THEN faults + 1 ELSE faults
       /\ line' = Drop(line, k)
  /\ clock' = clock + Patience
  /\ Fail(clock')
  /\ UNCHANGED <<request, size, payload, polls>>

Next == Lose \/ Query \/ Tick \/ Poll \/ End \/ ReadSize \/ ReadPayload \/ ReadCrc \/ TimeOut

Spec == Init /\ [][Next]_vars

------------------------------------------------------------------------------
(* load_capture, of the replay server and of inspect_capture.              *)

(* A faulty variant: the length of the last block is not checked.          *)
LoadedShort(f) ==
  LET from[p \in 1 .. Len(f) + 1] ==
        IF p + 1 > Len(f) THEN << >>
        ELSE IF p + 1 + f[p + 1] > Len(f)
               THEN <<[stamp |-> f[p], block |-> SubSeq(f, p + 2, Len(f))]>>
        ELSE <<[stamp |-> f[p], block |-> SubSeq(f, p + 2, p + 1 + f[p + 1])]>> \o from[p + 2 + f[p + 1]]
  IN from[1]

Loaded(f) ==
  LET from[p \in 1 .. Len(f) + 1] ==
        IF p + 1 > Len(f) \/ p + 1 + f[p + 1] > Len(f) THEN << >>
        ELSE <<[stamp |-> f[p], block |-> SubSeq(f, p + 2, p + 1 + f[p + 1])]>> \o from[p + 2 + f[p + 1]]
  IN from[1]

------------------------------------------------------------------------------
(* The poll whose answer a block is.                                       *)
Sample(block) == CHOOSE k \in DOMAIN Blocks : Blocks[k] = block

TypeOK ==
  /\ pc \in {"query", "size", "payload", "crc", "wait", "end", "dead"}
  /\ Len(line) <= (1 + Len(polls)) * (BlockSize + 7)
  /\ size \in 0 .. 65535 /\ faults \in 0 .. MaxFaults

(* However bytes are lost and answers late, every frame in the file is a   *)
(* whole block of the ECU, none twice, in the order of the samples and of  *)
(* the stamps (capture_outpc, read_response).                              *)
RecordsInOrder ==
  \A i \in DOMAIN recorded :
    /\ \E k \in DOMAIN polls : recorded[i].block = Blocks[k]
    /\ i > 1 => /\ Sample(recorded[i - 1].block) < Sample(recorded[i].block)
                /\ recorded[i - 1].stamp <= recorded[i].stamp

(* A block that is recorded or shown may be the answer to an earlier poll  *)
(* than the one whose time it is stamped with: earlier by no more polls    *)
(* than there were faults, late answers among them.                        *)
StaleByFaults ==
  [][/\ recorded' # recorded => Len(polls) - Sample(recorded'[Len(recorded')].block) <= faults
     /\ shown' # shown /\ shown'.ok => Len(polls) - Sample(shown'.block) <= faults]_vars

(* A capture that is cut at any byte, because the program or the machine   *)
(* stopped, is read as the frames before the cut (load_capture).           *)
CutIsPrefix ==
  /\ Loaded(file) = recorded
  /\ \A n \in 0 .. Len(file) :
       LET frames == Loaded(SubSeq(file, 1, n))
       IN frames = SubSeq(recorded, 1, Len(frames))

(* A schedule that fell behind does not lead to bursts: of three polls the *)
(* last is an interval after the first (next_poll).                        *)
PollsAreSpread ==
  \A i \in 1 .. Len(polls) - 2 : polls[i + 2] - polls[i] >= Interval

(* What the dash shows without a warning is a whole block of the ECU,      *)
(* although it never looks at the flag.                                    *)
ShownIsOutpc == shown.ok => \E k \in DOMAIN polls : shown.block = Blocks[k]
===============================================================================
