------------------------------- MODULE Snapshot -------------------------------
(***************************************************************************)
(* What the daemon promises about the values it serves.  There is one      *)
(* current frame.  The serial side replaces it as a whole; a client that   *)
(* asks for some fields gets, in the order of the call, the values they    *)
(* have in the one frame that is current at some instant between the call  *)
(* and the reply, or an error that carries no value at all.                *)
(***************************************************************************)
EXTENDS OutpcFrames

VARIABLES current, call

vars == <<current, call>>

Known(q) == \A k \in DOMAIN q : q[k] \in Fields

Idle == [state |-> "idle", request |-> << >>, ok |-> FALSE, values |-> << >>]

Asked(q) == [state |-> "asked", request |-> q, ok |-> FALSE, values |-> << >>]

Answered(q, vals) ==
  [state |-> "answered", request |-> q, ok |-> TRUE, values |-> vals]

Refused(q) ==
  [state |-> "answered", request |-> q, ok |-> FALSE, values |-> << >>]

Init == /\ current = NoFrame
        /\ call = Idle

Publish == /\ current' \in Frames
           /\ UNCHANGED call

Ask == /\ call.state = "idle"
       /\ call' \in {Asked(q) : q \in Requests}
       /\ UNCHANGED current

(* Both outcomes are open when every name is known: memory may run out.    *)
Answer == /\ call.state = "asked"
          /\ Known(call.request)
          /\ call' = Answered(call.request,
                       [k \in DOMAIN call.request |->
                          Value(current, call.request[k])])
          /\ UNCHANGED current

Refuse == /\ call.state = "asked"
          /\ call' = Refused(call.request)
          /\ UNCHANGED current

Reply == /\ call.state = "answered"
         /\ call' = Idle
         /\ UNCHANGED current

Next == Publish \/ Ask \/ Answer \/ Refuse \/ Reply

Spec == Init /\ [][Next]_vars
==============================================================================
