---------------------------- MODULE ReplayServer ------------------------------
(***************************************************************************)
(* replay_ecu_protocol.py: serves the OUTPC frames of a capture file, one  *)
(* for each request, over a pseudo-terminal.                               *)
(*                                                                         *)
(* Unlike ecuSim the server goes to sleep in select until bytes arrive,    *)
(* whatever its buffer holds, and reads the rest of a request that has     *)
(* begun inside read_framed_request, as often as MaxAttempts times.        *)
(***************************************************************************)
EXTENDS Framing

CONSTANTS
  Requests,    (* payloads of the requests asked, and Version              *)
  Frames,      (* the number of captured frames                            *)
  Loop,        (* FALSE with --no-loop                                     *)
  Noise,       (* bytes somebody else may have left on the line            *)
  MaxAttempts, (* waits for the rest of a request: 100 in the code         *)
  LineSize,    (* bound: bytes on the line                                 *)
  MaxServed,   (* bound: frames served                                     *)
  MaxFaults    (* bound: lost and foreign bytes                            *)

NoAnswer == [flag |-> 0, frame |-> 0]

ASSUME ServerAssumption ==
  /\ Requests \subseteq DOMAIN Crc \cup {Version}
  /\ Frames \in Nat \ {0} /\ Loop \in BOOLEAN
  /\ {MaxAttempts, LineSize, MaxServed, MaxFaults} \subseteq Nat

VARIABLES
  line,     (* bytes on their way to the server                            *)
  buffer,   (* read_buffer                                                 *)
  pc,       (* wait: in select; loop: while read_buffer; head, fill: in    *)
            (* read_framed_request                                         *)
  attempts,
  frame,    (* frame_index                                                 *)
  loops,    (* loop_count                                                  *)
  answer,   (* the last framed answer: its flag and, for OUTPC, its frame  *)
  owed,     (* history: the requests asked and not answered, while faults = 0 *)
  served,   (* history: the OUTPC answers                                  *)
  faults

vars == <<line, buffer, pc, attempts, frame, loops, answer, owed, served, faults>>
playback == <<frame, loops, answer, served>>

Init == /\ line = << >> /\ buffer = << >>
        /\ pc = "wait" /\ attempts = 0
        /\ frame = 0 /\ loops = 0 /\ answer = NoAnswer
        /\ owed = << >> /\ served = 0 /\ faults = 0

------------------------------------------------------------------------------
(* The client, and the line.                                               *)

Ask(request) ==
  /\ Len(line) + Len(Bytes(request)) <= LineSize
  /\ served < MaxServed
  /\ line' = line \o Bytes(request)
  /\ owed' = IF faults = 0 THEN Append(owed, request) ELSE owed
  /\ UNCHANGED <<buffer, pc, attempts, playback, faults>>

Fault == /\ faults < MaxFaults
         /\ faults' = faults + 1
         /\ owed' = << >>
         /\ \/ line # << >> /\ line' = Tail(line)
            \/ Len(line) < LineSize /\ \E b \in Noise : line' = Append(line, b)
         /\ UNCHANGED <<buffer, pc, attempts, playback>>

------------------------------------------------------------------------------
(* read_framed_request.                                                    *)

(* os.read returns between 1 and n of the bytes that are there.            *)
Receive(n) == \E k \in 1 .. n :
                /\ k <= Len(line)
                /\ buffer' = buffer \o SubSeq(line, 1, k)
                /\ line' = Drop(line, k)

(* A select that times out: nothing has arrived yet.                       *)
Nothing == UNCHANGED <<line, buffer>>

GiveUp == ParseFramed(buffer).request = None

(* The two bytes of the length, which may still be missing.                *)
ReadHead == /\ pc = "head"
            /\ IF Len(buffer) < 2 THEN Receive(1024) \/ Nothing ELSE Nothing
            /\ pc' = "fill"
            /\ attempts' = 0
            /\ UNCHANGED <<playback, owed, faults>>

Short(b) == Len(b) >= 2 /\ Size(b) \in 1 .. MaxSize /\ Len(b) < Needed(b)

(* As much as is missing, and no more.                                     *)
(* A faulty variant: no limit to the attempts.                             *)
FillForEver == /\ pc = "fill"
               /\ Short(buffer)
               /\ Receive(Needed(buffer) - Len(buffer)) \/ Nothing
               /\ attempts' = attempts + 1
               /\ UNCHANGED <<pc, playback, owed, faults>>

Fill == /\ pc = "fill"
        /\ Short(buffer) /\ attempts < MaxAttempts
        /\ Receive(Needed(buffer) - Len(buffer)) \/ Nothing
        /\ attempts' = attempts + 1
        /\ UNCHANGED <<pc, playback, owed, faults>>

Done == pc = "fill" /\ ~(Short(buffer) /\ attempts < MaxAttempts)

------------------------------------------------------------------------------
(* The loop of run_replay_server.                                          *)

Wake == /\ pc = "wait"
        /\ Receive(1024)
        /\ pc' = "loop"
        /\ UNCHANGED <<attempts, playback, owed, faults>>

Settle == owed' = IF owed = << >> THEN owed ELSE Tail(owed)

AnswerVersion == /\ pc = "loop"
                 /\ First(buffer) = Version
                 /\ buffer' = Tail(buffer)
                 /\ Settle
                 /\ UNCHANGED <<line, pc, attempts, playback, faults>>

TryFrame == /\ pc = "loop"
            /\ First(buffer) # Version
            /\ pc' = IF buffer = << >> THEN "wait" ELSE "head"
            /\ UNCHANGED <<line, buffer, attempts, playback, owed, faults>>

(* A, and r of table 7.                                                    *)
IsRealtime(q) == q = <<65>> \/ (Len(q) >= 7 /\ q[1] = 114 /\ q[3] = 7)

(* Q, S, and r of any other table; the rest is answered with an error.     *)
IsKnown(q) == \/ q \in {<<81>>, <<83>>}
              \/ Len(q) >= 7 /\ q[1] = 114

NextFrame == /\ frame' = (frame + 1) % Frames
             /\ loops' = IF frame' = 0 /\ Loop THEN loops + 1 ELSE loops
             /\ served' = served + 1

(* Faulty variant: the index is moved on before it is used.                *)
AdvanceFirst(q) == IF IsRealtime(q)
                     THEN NextFrame /\ answer' = [flag |-> 1, frame |-> frame']
                     ELSE /\ answer' = NoAnswer
                          /\ UNCHANGED <<frame, loops, served>>

Serve(q) == IF IsRealtime(q)
              THEN answer' = [flag |-> 1, frame |-> frame] /\ NextFrame
              ELSE /\ answer' = [flag |-> IF IsKnown(q) THEN 0 ELSE 131, frame |-> 0]
                   /\ UNCHANGED <<frame, loops, served>>

(* Faulty variants: what is left in the buffer is thrown away; one request *)
(* is answered for each wake-up.                                           *)
AnswerAndClear == /\ Done /\ ~GiveUp
                  /\ buffer' = << >>
                  /\ Serve(ParseFramed(buffer).request)
                  /\ Settle
                  /\ pc' = "loop"
                  /\ UNCHANGED <<line, attempts, faults>>

AnswerAndWait == /\ Done /\ ~GiveUp
                 /\ buffer' = ParseFramed(buffer).rest
                 /\ Serve(ParseFramed(buffer).request)
                 /\ Settle
                 /\ pc' = "wait"
                 /\ UNCHANGED <<line, attempts, faults>>

Answer == /\ Done /\ ~GiveUp
          /\ buffer' = ParseFramed(buffer).rest
          /\ Serve(ParseFramed(buffer).request)
          /\ Settle
          /\ pc' = "loop"
          /\ UNCHANGED <<line, attempts, faults>>

(* No request: the loop over the buffer is left, to wait for more bytes.   *)
Break == /\ Done /\ GiveUp
         /\ buffer' = ParseFramed(buffer).rest
         /\ pc' = "wait"
         /\ UNCHANGED <<line, attempts, playback, owed, faults>>

Server == Wake \/ ReadHead \/ Fill \/ AnswerVersion \/ TryFrame \/ Answer \/ Break

Next == (\E q \in Requests : Ask(q)) \/ Fault \/ Server

Spec == Init /\ [][Next]_vars

------------------------------------------------------------------------------
TypeOK == /\ line \in Seq(Byte) /\ buffer \in Seq(Byte)
          /\ pc \in {"wait", "loop", "head", "fill"}
          /\ attempts \in 0 .. MaxAttempts
          /\ frame \in 0 .. Frames - 1
          /\ loops \in Nat /\ served \in Nat
          /\ answer \in [flag : {0, 1, 131}, frame : 0 .. Frames - 1]
          /\ owed \in Seq(Requests) /\ faults \in 0 .. MaxFaults

(* However the requests are cut into pieces, and whichever part of them is *)
(* read by the main loop, by the wait for a length and by the wait for the *)
(* rest, each one is answered once and in order.                           *)
AnsweredInOrder == faults = 0 => buffer \o line = Stream(owed)

(* A client that polls sees the recording from its first frame on, every   *)
(* frame once and in order, whatever else is asked in between, and --loop  *)
(* counts how often it went round (frame_index, loop_count).               *)
PlaysInOrder == /\ answer.flag = 1 => answer.frame = (served - 1) % Frames
                /\ frame = served % Frames
                /\ loops = IF Loop THEN served \div Frames ELSE 0

(* On a line that keeps every byte the server never goes to sleep on a     *)
(* request it already has (the loop "while read_buffer").                  *)
NeverSleepsOnRequest ==
  faults = 0 /\ pc = "wait" => GiveUp /\ First(buffer) # Version

(* However long the server is out of step, it holds less than the largest  *)
(* frame and what one read adds.                                           *)
BufferBounded == Len(buffer) < 2 + MaxSize + 4 + LineSize
===============================================================================
