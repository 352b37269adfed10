---------------------------- MODULE ExampleSimulator ----------------------------
(***************************************************************************)
(* The older simulator of exampleFiles (ms2_ecu_simulator.py).  It reads   *)
(* requests as the replay server does, with the same read_framed_request;  *)
(* but its loop looks at the buffer in every round, be there new bytes or  *)
(* not, and each OUTPC is made from the state of its engine.               *)
(***************************************************************************)
EXTENDS ReplayServer

(* A faulty variant: the buffer is looked at when there are new bytes.     *)
LookWhenReady == /\ pc = "wait"
                 /\ Receive(1024)
                 /\ pc' = "loop"
                 /\ UNCHANGED <<attempts, playback, owed, faults>>

(* The main loop waits for 20 ms, and goes on.                             *)
Look == /\ pc = "wait"
        /\ Receive(1024) \/ (line = << >> /\ Nothing)
        /\ pc' = "loop"
        /\ UNCHANGED <<attempts, playback, owed, faults>>

(* Q, and r of a table other than 7: the signature, or zeros for any page. *)
IsServed(q) == q = <<81>> \/ (Len(q) >= 7 /\ q[1] = 114)

Reply(q) == /\ answer' = [flag  |-> IF IsRealtime(q) THEN 1 ELSE IF IsServed(q) THEN 0 ELSE 131,
                          frame |-> 0]
            /\ served' = IF IsRealtime(q) THEN served + 1 ELSE served
            /\ UNCHANGED <<frame, loops>>

(* A faulty variant: a request that was answered stays in the buffer if    *)
(* nothing follows it.                                                     *)
RespondAgain == /\ Done /\ ~ GiveUp
                /\ LET read == ParseFramed(buffer) IN
                     /\ buffer' = IF read.rest = << >> THEN buffer ELSE read.rest
                     /\ Reply(read.request)
                /\ Settle
                /\ pc' = "wait"
                /\ UNCHANGED <<line, attempts, faults>>

Respond == /\ Done /\ ~ GiveUp
           /\ LET read == ParseFramed(buffer) IN
                buffer' = read.rest /\ Reply(read.request)
           /\ Settle
           /\ pc' = "loop"
           /\ UNCHANGED <<line, attempts, faults>>

Simulator == Look \/ ReadHead \/ Fill \/ AnswerVersion \/ TryFrame \/ Respond \/ Break

SimNext == (\E q \in Requests : Ask(q)) \/ Fault \/ Simulator

------------------------------------------------------------------------------
(* While there is a request at the head of the buffer requests are         *)
(* answered: none waits there until the client sends something else, not   *)
(* even behind a frame that was not one, which ends the loop over the      *)
(* buffer (the main loop comes back to it in the next round).              *)
AnswersWhatItHas == <>[] ~ GiveUp => []<> <<Respond>>_vars
===============================================================================
