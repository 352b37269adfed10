----------------------------- MODULE EcuRequests ------------------------------
(***************************************************************************)
(* How the ECU simulator (ecuSim) finds the requests in the bytes that     *)
(* come over its pseudo-terminal: the main loop of simulator.py reads what *)
(* has arrived, in pieces that need not be whole requests, and takes from  *)
(* the RequestBuffer of protocol.py one request after the other until      *)
(* get_next_response returns None.                                         *)
(*                                                                         *)
(* The client asks the same request over and over, as a polling client     *)
(* does, and other ones in between.  It waits for an answer only as long   *)
(* as its patience lasts, and asks again.  Bytes may be lost on the line,  *)
(* and the line may hold a byte left by somebody else.                     *)
(***************************************************************************)
EXTENDS Framing

CONSTANTS
  Poll,      (* the payload of the request the client repeats              *)
  Others,    (* requests asked in between, Version among them              *)
  Noise,     (* bytes somebody else may have left on the line              *)
  LineSize,  (* bound: bytes on the line                                   *)
  MaxDeaf,   (* bound: polls in a row without an answer that are counted   *)
  MaxFaults  (* bound: lost and foreign bytes                              *)

VARIABLES
  line,   (* bytes on their way to the simulator                           *)
  buffer, (* RequestBuffer.buffer                                          *)
  pc,     (* read: between rounds of the loop; parse: in its inner loop    *)
  owed,   (* history: the requests asked and not answered, while faults = 0 *)
  deaf,   (* history: polls since the last answer                          *)
  faults

vars == <<line, buffer, pc, owed, deaf, faults>>

Init == /\ line = << >>
        /\ buffer = << >>
        /\ pc = "read"
        /\ owed = << >>
        /\ deaf = 0
        /\ faults = 0

------------------------------------------------------------------------------
(* The client, and the line.                                               *)

Ask(request) ==
  /\ Len(line) + Len(Bytes(request)) <= LineSize
  /\ line' = line \o Bytes(request)
  /\ owed' = IF faults = 0 THEN Append(owed, request) ELSE owed
  /\ deaf' = IF deaf < MaxDeaf THEN deaf + 1 ELSE deaf
  /\ UNCHANGED <<buffer, pc, faults>>

Fault == /\ faults < MaxFaults
         /\ faults' = faults + 1
         /\ owed' = << >>

Lose == /\ line # << >>
        /\ Fault
        /\ line' = Tail(line)
        /\ UNCHANGED <<buffer, pc, deaf>>

Disturb == /\ Fault
           /\ Len(line) < LineSize
           /\ \E b \in Noise : line' = Append(line, b)
           /\ UNCHANGED <<buffer, pc, deaf>>

------------------------------------------------------------------------------
(* The simulator.                                                          *)

(* A faulty variant: nothing is read while the buffer holds anything.      *)
ReadWhenEmpty == /\ pc = "read"
                 /\ IF line = << >> \/ buffer # << >> THEN UNCHANGED <<line, buffer>>
                    ELSE \E n \in 1 .. Len(line) : /\ buffer' = SubSeq(line, 1, n)
                                                   /\ line' = Drop(line, n)
                 /\ pc' = "parse"
                 /\ UNCHANGED <<owed, deaf, faults>>

(* One round of _run_loop: the bytes that have arrived are read.           *)
Read == /\ pc = "read"
        /\ IF line = << >> THEN UNCHANGED <<line, buffer>>
           ELSE \E n \in 1 .. Len(line) :
                  /\ n <= 1024
                  /\ buffer' = buffer \o SubSeq(line, 1, n)
                  /\ line' = Drop(line, n)
        /\ pc' = "parse"
        /\ UNCHANGED <<owed, deaf, faults>>

(* The answer is written.                                                  *)
Respond == /\ owed' = IF owed = << >> THEN owed ELSE Tail(owed)
           /\ deaf' = 0
           /\ UNCHANGED <<line, pc, faults>>

(* Faulty variants: the rest of the buffer goes with the request that is   *)
(* answered; what cannot be read ends the loop.                            *)
AnswerAndClear == /\ pc = "parse"
                  /\ ParseFramed(buffer).request # None
                  /\ buffer' = << >>
                  /\ Respond

EndLoop == /\ pc = "parse"
           /\ ParseFramed(buffer).request = None
           /\ buffer' = ParseFramed(buffer).rest
           /\ pc' = "done"
           /\ UNCHANGED <<line, owed, deaf, faults>>

AnswerVersion == /\ pc = "parse"
                 /\ First(buffer) = Version
                 /\ buffer' = Tail(buffer)
                 /\ Respond

AnswerFramed == /\ pc = "parse"
                /\ First(buffer) # Version
                /\ ParseFramed(buffer).request # None
                /\ buffer' = ParseFramed(buffer).rest
                /\ Respond

(* get_next_response returns None, be it that bytes are missing, that one  *)
(* byte was skipped or that a frame was dropped: the round is over.        *)
NoResponse == /\ pc = "parse"
              /\ First(buffer) # Version
              /\ ParseFramed(buffer).request = None
              /\ buffer' = ParseFramed(buffer).rest
              /\ pc' = "read"
              /\ UNCHANGED <<line, owed, deaf, faults>>

AskPoll == Ask(Poll)

Simulator == Read \/ AnswerVersion \/ AnswerFramed \/ NoResponse

Next == AskPoll \/ (\E q \in Others : Ask(q)) \/ Lose \/ Disturb \/ Simulator

(* The loop runs on, and the client polls on.                              *)
Spec == Init /\ [][Next]_vars /\ WF_vars(Simulator) /\ WF_vars(AskPoll)

------------------------------------------------------------------------------
TypeOK == /\ line \in Seq(Byte) /\ Len(line) <= LineSize
          /\ buffer \in Seq(Byte)
          /\ pc \in {"read", "parse"}
          /\ owed \in Seq({Poll} \cup Others)
          /\ deaf \in 0 .. MaxDeaf
          /\ faults \in 0 .. MaxFaults

(* However the requests are cut into pieces on the way, each one is        *)
(* answered once, in the order they were asked: what is in the buffer and  *)
(* on the line is exactly the requests still to be answered                *)
(* (RequestBuffer, get_next_response).                                     *)
AnsweredInOrder == faults = 0 => buffer \o line = Stream(owed)

(* A lost or foreign byte makes the parser take a wrong length and swallow *)
(* requests, but no more polls than a frame of that length has room for:   *)
(* MaxDeaf is not reached (parse_framed_request drops what it cannot read). *)
DeafnessBounded == deaf < MaxDeaf

(* Nothing the line may do makes the buffer grow without bound: it holds   *)
(* less than the largest frame and what one read adds.                     *)
BufferBounded == Len(buffer) < 2 + MaxSize + 4 + LineSize

(* A client that keeps asking is answered again and again, whatever has    *)
(* happened to the line (the README: "Responds to all standard TunerStudio *)
(* commands").                                                             *)
KeepsAnswering == []<>(deaf = 0)
===============================================================================
