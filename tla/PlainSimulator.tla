----------------------------- MODULE PlainSimulator -----------------------------
(***************************************************************************)
(* The older simulator of work-ms2d-daemon (ms2_ecu_simulator.py).  Its    *)
(* read_request keeps no buffer: it reads the length, the payload and the  *)
(* CRC of one request off the pseudo-terminal, waiting for the rest of the *)
(* payload as long as it takes, and throws away whatever was none.  The    *)
(* client asks for the same thing all the time, and waits for the answer   *)
(* or for its time limit before it asks again.                             *)
(***************************************************************************)
EXTENDS Framing

CONSTANTS
  Request,  (* the payload of the request asked all the time               *)
  Lost,     (* the bytes of a request that may be lost, by their number    *)
  Noise,    (* foreign bytes that may come before a request                *)
  MaxFaults, (* bound: faults                                              *)
  MaxMissed (* bound: what is counted of the requests that get no answer   *)

VARIABLES
  line,    (* bytes on their way to the simulator                          *)
  pc,      (* wait: in select; payload, crc: in read_request               *)
  want,    (* the bytes of the payload still to be read                    *)
  payload, (* what was read of it, as far as it may be the request         *)
  missed,  (* requests asked since the last answer                         *)
  faults

vars == <<line, pc, want, payload, missed, faults>>

Init == line = << >> /\ pc = "wait" /\ want = 0 /\ payload = << >> /\ missed = 0 /\ faults = 0

Without(s, i) == SubSeq(s, 1, i - 1) \o Drop(s, i)
Least(a, b)   == IF a < b THEN a ELSE b

------------------------------------------------------------------------------
(* read_request.                                                           *)

GoTo(stage) == pc' = stage /\ UNCHANGED <<missed, faults>>

(* A single byte is taken off the line and forgotten.                      *)
ReadHead == /\ pc = "wait" /\ line # << >>
            /\ \/ /\ Len(line) = 1
                  /\ line' = << >>
                  /\ GoTo("wait") /\ UNCHANGED <<want, payload>>
               \/ /\ Len(line) >= 2
                  /\ want' = Size(line) /\ payload' = << >> /\ line' = Drop(line, 2)
                  /\ GoTo(IF want' = 0 THEN "crc" ELSE "payload")

(* os.read takes what is there.  Of a payload only so much is kept that it *)
(* can be told from the request.                                           *)
ReadPayload == /\ pc = "payload" /\ line # << >>
               /\ LET n == Least(want, Len(line)) IN
                    /\ line' = Drop(line, n)
                    /\ want' = want - n
                    /\ payload' = SubSeq(payload \o line, 1, Least(Len(payload) + n, Len(Request) + 1))
               /\ GoTo(IF want' = 0 THEN "crc" ELSE "payload")

(* A faulty variant: it waits for all four bytes of the CRC.               *)
WaitForCrc == /\ pc = "crc" /\ Len(line) >= 4
              /\ line' = Drop(line, 4)
              /\ pc' = "wait"
              /\ missed' = IF SubSeq(line, 1, 4) = Crc[Request] /\ payload = Request THEN 0
                           ELSE missed
              /\ UNCHANGED <<want, payload, faults>>

(* It takes up to four bytes, and fewer are no CRC.  The rest of the loop  *)
(* answers the request.                                                    *)
ReadCrc == /\ pc = "crc" /\ line # << >>
           /\ line' = Drop(line, Least(4, Len(line)))
           /\ pc' = "wait"
           /\ missed' = IF SubSeq(line, 1, Least(4, Len(line))) = Crc[Request]
                             /\ payload = Request
                        THEN 0 ELSE missed
           /\ UNCHANGED <<want, payload, faults>>

Simulator == ReadHead \/ ReadPayload \/ ReadCrc

------------------------------------------------------------------------------
(* The client.  Its time limit is much longer than a round of the          *)
(* simulator, which has read all it can.                                   *)
Idle == ~ ENABLED Simulator

Ask == /\ Idle
       /\ line' = line \o Frame(Request)
       /\ missed' = Least(MaxMissed, missed + 1)
       /\ UNCHANGED <<pc, want, payload, faults>>

AskFaulty == /\ Idle /\ faults < MaxFaults
             /\ faults' = faults + 1
             /\ \/ \E i \in Lost : line' = line \o Without(Frame(Request), i)
                \/ \E b \in Noise : line' = line \o <<b>> \o Frame(Request)
             /\ missed' = Least(MaxMissed, missed + 1)
             /\ UNCHANGED <<pc, want, payload>>

Next == Ask \/ AskFaulty \/ Simulator

(* The client asks again, and the simulator reads what there is.           *)
Spec == Init /\ [][Next]_vars /\ WF_vars(Ask) /\ WF_vars(Simulator)

------------------------------------------------------------------------------
TypeOK == /\ line \in Seq(0 .. 255) /\ Len(line) <= Len(Frame(Request)) + 1
          /\ pc \in {"wait", "payload", "crc"}
          /\ want \in 0 .. 65535 /\ (pc = "payload" <=> want > 0)
          /\ Len(payload) <= Len(Request) + 1
          /\ missed \in 0 .. MaxMissed /\ faults \in 0 .. MaxFaults

(* How many requests a byte that is lost or comes too many costs.  There   *)
(* is no time limit, and no start of a frame is looked for; what brings    *)
(* the reader back into step is that a piece too short for a length or a   *)
(* CRC is thrown away (read_request).                                      *)
DeafnessBounded == missed < MaxMissed

(* After some bytes the pieces thrown away never bring it back: it reads   *)
(* on for ever as many bytes too late, and answers no request any more.    *)
DeafForGood == faults > 0 => missed > 0
===============================================================================
