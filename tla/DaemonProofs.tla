----------------------------- MODULE DaemonProofs -----------------------------
(***************************************************************************)
(* Proofs about Daemon, for any clients, backlog and number of faults.     *)
(*                                                                         *)
(* The argument: where main is says whether the worker runs, the port is   *)
(* open and the socket listens (Stages); where the worker is says whether  *)
(* it has closed the port (PortHeld).  What each thread does to the port   *)
(* and the connections then keeps the counts right.                        *)
(***************************************************************************)
EXTENDS Daemon, SequenceTheorems, TLAPS

Setup   == {"open", "bind", "sigaction", "spawn"}
Ended   == {"exited", "killed"}
Talking == {"recv", "handle", "respond", "close"}
Loop    == {"check", "accept", "nap"} \cup Talking
Down    == {"shutdown", "closeport", "free"}

Stages == /\ main \in Setup \cup Ended \cup Down => worker = "gone"
          /\ main \in {"open", "bind", "closeport", "free"} \cup Ended =>
               ~ listening /\ backlog = << >>
          /\ main \in {"closeport", "free"} => ~ path
          /\ main \in Talking <=> serving # None

PortHeld == /\ main \in {"open", "free"} \cup Ended => ~ held
            /\ main \in {"bind", "sigaction", "spawn"} => held
            /\ worker \in {"backoff", "reopen"} => ~ held
            /\ NoDescriptorLost

IInv == TypeOK /\ Stages /\ PortHeld /\ NoConnectionLost

------------------------------------------------------------------------------
LEMMA InitInv == Init => IInv
<1> SUFFICES ASSUME Init
             PROVE  IInv
  OBVIOUS
<1>a. 0 \in 0 .. MaxFaults /\ 0 \in Nat /\ << >> \in Seq(Clients)
  BY EmptySeq, DaemonBounds
<1>1. TypeOK
  BY <1>a, Zenon DEF Init, TypeOK
<1>2. Stages /\ PortHeld
  BY DEF Init, Stages, PortHeld, NoDescriptorLost, Setup, Ended, Talking, Down
<1>3. NoConnectionLost
  BY DEF Init, NoConnectionLost, Connected
<1>4. QED
  BY <1>1, <1>2, <1>3 DEF IInv

LEMMA FaultType == TypeOK /\ Fault => faults' \in 0 .. MaxFaults
BY DaemonBounds DEF TypeOK, Fault

LEMMA HangUpType ==
  ASSUME HangUp
  PROVE  /\ backlog' \in Seq(Clients) /\ backlog' = << >>
         /\ serving' = None
         /\ hand' \in Kinds \cup {"none"}
         /\ client' \in [Clients -> {"away", "quiet", "waiting", "left", "answered"}]
         /\ inbox' \in [Clients -> Kinds \cup {"none"}]
         /\ NoConnectionLost'
<1>1. backlog' = << >> /\ serving' = None /\ \A c \in Clients : client'[c] = "away"
  BY DEF HangUp
<1>2. NoConnectionLost'
  BY <1>1 DEF NoConnectionLost, Connected
<1>3. QED
  BY <1>2, EmptySeq DEF HangUp

Killed == /\ main \in {"open", "bind", "sigaction"}
          /\ Fault
          /\ main' = "killed" /\ worker' = "gone" /\ held' = FALSE /\ fds' = 0
          /\ listening' = FALSE
          /\ HangUp
          /\ UNCHANGED <<running, plugged, path, stamp>>

(* The steps that end the connections one and all.                         *)
LEMMA EndsKeepInv ==
  ASSUME IInv, SetupFails \/ BrokenPipe \/ Shutdown \/ Killed
  PROVE  IInv'
<1>1. HangUp
  BY DEF SetupFails, BrokenPipe, Die, Shutdown, Unlisten, Killed
<1>2. CASE SetupFails
  <2>a. fds' = 0 /\ ~ held'
    BY <1>2 DEF IInv, PortHeld, NoDescriptorLost, SetupFails
  <2>b. faults' \in 0 .. MaxFaults
    BY <1>2, FaultType DEF IInv, SetupFails
  <2>1. TypeOK'
    <3>1. /\ main' = "exited" /\ held' = FALSE /\ fds' \in Nat
          /\ listening' = FALSE /\ path' = FALSE
          /\ UNCHANGED <<worker, running, plugged, stamp>>
      BY <1>2, <2>a DEF SetupFails, Unlisten
    <3>2. QED
      BY <1>1, <2>b, <3>1, HangUpType, Zenon DEF IInv, TypeOK
  <2>2. Stages' /\ PortHeld'
    BY <1>1, <1>2, <2>a, HangUpType DEF IInv, Stages, PortHeld, NoDescriptorLost, SetupFails,
       Unlisten, Setup, Ended, Talking, Down
  <2>3. QED
    BY <1>1, <2>1, <2>2, HangUpType DEF IInv
<1>3. CASE BrokenPipe
  <2>1. TypeOK'
    BY <1>1, <1>3, HangUpType, Zenon DEF IInv, TypeOK, BrokenPipe, Die
  <2>2. Stages' /\ PortHeld'
    BY <1>1, <1>3, HangUpType DEF BrokenPipe, Die, Stages, PortHeld, NoDescriptorLost,
       Setup, Ended, Talking, Down
  <2>3. QED
    BY <1>1, <2>1, <2>2, HangUpType DEF IInv
<1>4. CASE Shutdown
  <2>1. TypeOK'
    BY <1>1, <1>4, HangUpType, Zenon DEF IInv, TypeOK, Shutdown, Unlisten, At, port
  <2>2. Stages' /\ PortHeld'
    BY <1>1, <1>4, HangUpType DEF IInv, Stages, PortHeld, NoDescriptorLost, Shutdown,
       Unlisten, At, port, Setup, Ended, Talking, Down
  <2>3. QED
    BY <1>1, <2>1, <2>2, HangUpType DEF IInv
<1>5. CASE Killed
  <2>1. TypeOK'
    BY <1>1, <1>5, FaultType, HangUpType, Zenon DEF IInv, TypeOK, Killed
  <2>2. Stages' /\ PortHeld'
    BY <1>1, <1>5, HangUpType DEF Killed, Stages, PortHeld, NoDescriptorLost,
       Setup, Ended, Talking, Down
  <2>3. QED
    BY <1>1, <2>1, <2>2, HangUpType DEF IInv
<1>6. QED
  BY <1>2, <1>3, <1>4, <1>5

(* What leaves the connections as they are keeps them accounted for.       *)
LEMMA SameConnections ==
  NoConnectionLost /\ UNCHANGED <<backlog, serving, client>> => NoConnectionLost'
BY DEF NoConnectionLost, Connected

(* The steps of main that change neither the port nor the connections.     *)
LEMMA MainGoesOn ==
  ASSUME IInv, OpenPortFails \/ Bind \/ Sigaction \/ Spawn \/ Check \/ NoClient
                 \/ AcceptFails \/ Recv \/ RecvNothing \/ Handle \/ NoResponse
                 \/ Nap \/ Join \/ Free \/ Restart
  PROVE  IInv'
<1>1. UNCHANGED <<port, plugged, backlog, serving, client>>
  BY DEF OpenPortFails, Bind, Sigaction, Spawn, Check, NoClient, AcceptFails, Recv,
     RecvNothing, Handle, NoResponse, Nap, Join, Free, Restart, rpc, peers
<1>2. NoConnectionLost'
  BY <1>1, SameConnections DEF IInv
<1>3. PortHeld'
  BY <1>1 DEF IInv, PortHeld, NoDescriptorLost, port, OpenPortFails, Bind, Sigaction, Spawn,
     Check, NoClient, AcceptFails, Recv, RecvNothing, Handle, NoResponse, Nap, Join,
     Free, Restart, At, Ended
<1>4. Stages'
  BY <1>1 DEF IInv, Stages, OpenPortFails, Bind, Sigaction, Spawn, Check, NoClient,
     AcceptFails, Recv, RecvNothing, Handle, NoResponse, Nap, Join, Free, Restart,
     At, rpc, Setup, Ended, Talking, Down
<1>5. TypeOK'
  <2>1. faults' \in 0 .. MaxFaults
    BY FaultType DEF IInv, TypeOK, OpenPortFails, Bind, Sigaction, Spawn, Check, NoClient,
       AcceptFails, Recv, RecvNothing, Handle, NoResponse, Nap, Join, Free, Restart
  <2>2. CASE Recv
    <3>1. serving \in Clients
      BY <2>2 DEF IInv, TypeOK, Stages, Recv, At, Talking
    <3>2. QED
      BY <1>1, <2>1, <2>2, <3>1 DEF IInv, TypeOK, Recv, At, port
  <2>3. CASE Handle \/ NoResponse
    BY <1>1, <2>1, <2>3 DEF IInv, TypeOK, Handle, NoResponse, At, port, peers
  <2>4. CASE Bind
    <3>1. main' = "sigaction" /\ path' = TRUE /\ listening' = TRUE /\ stamp' = "start"
          /\ UNCHANGED <<worker, running, hand, inbox>>
      BY <2>4 DEF Bind, peers
    <3>2. QED
      BY <1>1, <2>1, <3>1 DEF IInv, TypeOK, port
  <2>5. CASE OpenPortFails \/ Sigaction \/ Spawn \/ Check \/ NoClient \/ AcceptFails
               \/ RecvNothing \/ Nap \/ Join \/ Free \/ Restart
    <3>1. main' \in {"exited", "spawn", "check", "accept", "join", "nap", "close",
                     "shutdown", "open"}
      BY <2>5 DEF OpenPortFails, Sigaction, Spawn, Check, NoClient, AcceptFails,
         RecvNothing, Nap, Join, Free, Restart, At
    <3>2. worker' \in {worker, "check"} /\ running' \in BOOLEAN
          /\ UNCHANGED <<rpc, peers>>
      BY <2>5, Zenon DEF IInv, TypeOK, OpenPortFails, Sigaction, Spawn, Check, NoClient, AcceptFails,
         RecvNothing, Nap, Join, Free, Restart
    <3>3. QED
      BY <1>1, <2>1, <3>1, <3>2 DEF IInv, TypeOK, port, rpc, peers
  <2>6. QED
    BY <2>2, <2>3, <2>4, <2>5
<1>6. QED
  BY <1>2, <1>3, <1>4, <1>5 DEF IInv

(* The steps that open and close the port, and the rest of the worker's.   *)
LEMMA PortKeepsInv ==
  ASSUME IInv, OpenPort \/ BindFails \/ ClosePort \/ Worker
  PROVE  IInv'
<1>1. UNCHANGED <<backlog, serving, client>>
  BY DEF OpenPort, BindFails, ClosePort, Worker, WorkerCheck, Poll, PollFails, Pause,
     Backoff, Reopen, ReopenFails, rpc, peers
<1>2. NoConnectionLost'
  BY <1>1, SameConnections DEF IInv
<1>3. CASE OpenPort
  BY <1>2, <1>3 DEF IInv, TypeOK, Stages, PortHeld, NoDescriptorLost, OpenPort, rpc, peers,
     Setup, Ended, Talking, Down
<1>4. CASE BindFails
  <2>1. fds' = 0 /\ held' = FALSE /\ faults' \in 0 .. MaxFaults
    BY <1>4, FaultType DEF IInv, PortHeld, NoDescriptorLost, BindFails
  <2>2. TypeOK'
    <3>1. main' = "exited" /\ path' = FALSE /\ fds' \in Nat
          /\ UNCHANGED <<worker, running, plugged, listening, hand, stamp, inbox>>
      BY <1>4, <2>1 DEF BindFails, peers
    <3>2. QED
      BY <1>1, <2>1, <3>1, ZenonT(60) DEF IInv, TypeOK
  <2>3. Stages' /\ PortHeld'
    BY <1>4, <2>1 DEF IInv, Stages, PortHeld, NoDescriptorLost, BindFails, Setup, Ended,
       Talking, Down
  <2>4. QED
    BY <1>2, <2>2, <2>3 DEF IInv
<1>5. CASE ClosePort
  <2>1. fds' = 0 /\ held' = FALSE
    BY <1>5 DEF IInv, PortHeld, NoDescriptorLost, ClosePort
  <2>2. main = "closeport" /\ main' = "free" /\ UNCHANGED <<worker, running, plugged, rpc, peers, faults>>
    BY <1>5 DEF ClosePort, At
  <2>3. TypeOK'
    BY <2>1, <2>2, ZenonT(60) DEF IInv, TypeOK, rpc, peers
  <2>4. Stages' /\ PortHeld'
    BY <2>1, <2>2 DEF IInv, Stages, PortHeld, NoDescriptorLost, rpc, Setup, Ended,
       Talking, Down
  <2>5. QED
    BY <1>2, <2>3, <2>4 DEF IInv
<1>6. CASE Worker
  <2>1. worker # "gone" /\ UNCHANGED <<main, running, plugged, path, listening, hand, inbox, faults>>
    BY <1>6 DEF Worker, WorkerCheck, Poll, PollFails, Pause, Backoff, Reopen, ReopenFails,
       Here, rpc, peers
  <2>2. main \notin Setup \cup Ended \cup Down
    BY <2>1 DEF IInv, Stages
  <2>3. Stages'
    BY <1>1, <2>1, <2>2 DEF IInv, Stages
  <2>4. PortHeld' /\ held' \in BOOLEAN /\ fds' \in Nat
    <3>1. main' \notin Setup \cup Ended \cup Down
      BY <2>1, <2>2
    <3>2. CASE PollFails
      <4>1. fds' = 0 /\ held' = FALSE /\ worker' = "backoff"
        BY <3>2 DEF IInv, PortHeld, NoDescriptorLost, PollFails, Here
      <4>2. QED
        BY <3>1, <4>1, Zenon DEF PortHeld, NoDescriptorLost, Setup, Ended, Down
    <3>3. CASE Reopen
      <4>1. fds' = 1 /\ held' = TRUE /\ worker' = "check"
        BY <3>3 DEF IInv, PortHeld, NoDescriptorLost, Reopen, Here
      <4>2. QED
        BY <3>1, <4>1 DEF PortHeld, NoDescriptorLost, Setup, Ended, Down
    <3>4. CASE WorkerCheck \/ Poll \/ Pause \/ Backoff \/ ReopenFails
      <4>1. UNCHANGED <<held, fds>>
        BY <3>4 DEF WorkerCheck, Poll, Pause, Backoff, ReopenFails, port
      <4>2. worker' \in {"backoff", "reopen"} => worker \in {"backoff", "reopen"}
        BY <3>4 DEF WorkerCheck, Poll, Pause, Backoff, ReopenFails, Here
      <4>3. QED
        BY <3>1, <4>1, <4>2 DEF IInv, TypeOK, PortHeld, NoDescriptorLost, Setup, Ended, Down
    <3>5. QED
      BY <1>6, <3>2, <3>3, <3>4 DEF Worker
  <2>5. worker' \in {"gone", "check", "poll", "pause", "backoff", "reopen"}
        /\ stamp' \in {"start", "later", "before"}
    BY <1>6 DEF IInv, TypeOK, Worker, WorkerCheck, Poll, PollFails, Pause, Backoff, Reopen,
       ReopenFails, Here, rpc
  <2>6. TypeOK'
    BY <1>1, <2>1, <2>4, <2>5 DEF IInv, TypeOK
  <2>7. QED
    BY <1>2, <2>3, <2>4, <2>6 DEF IInv
<1>7. QED
  BY <1>3, <1>4, <1>5, <1>6

(* The steps by which connections come and go, one at a time.              *)
LEMMA AcceptKeepsInv ==
  ASSUME IInv, Accept
  PROVE  IInv'
<1>1. /\ main = "accept" /\ main' = "recv"
      /\ backlog # << >> /\ serving' = Head(backlog) /\ backlog' = Tail(backlog)
      /\ UNCHANGED <<worker, running, held, fds, plugged, path, listening, hand, stamp,
                     client, inbox, faults>>
  BY DEF Accept, At, port, peers
<1>2. backlog \in Seq(Clients) /\ serving = None
  BY <1>1 DEF IInv, TypeOK, Stages, Talking
<1>3. /\ Head(backlog) = backlog[1] /\ Head(backlog) \in Clients
      /\ Tail(backlog) \in Seq(Clients)
      /\ DOMAIN backlog = 1 .. Len(backlog) /\ Len(backlog) \in Nat \ {0}
      /\ DOMAIN Tail(backlog) = 1 .. Len(backlog) - 1
      /\ \A i \in 1 .. Len(backlog) - 1 : Tail(backlog)[i] = backlog[i + 1]
  BY <1>1, <1>2, HeadTailProperties, EmptySeq, LenProperties
<1>4. TypeOK'
  BY <1>1, <1>3 DEF IInv, TypeOK
<1>5. Stages' /\ PortHeld'
  <2>1. serving' # None
    BY <1>1, <1>3, NoneAssumption
  <2>2. QED
    BY <1>1, <2>1 DEF IInv, Stages, PortHeld, NoDescriptorLost, Setup, Ended, Talking, Down
<1>6. NoConnectionLost'
  <2> DEFINE queue == {backlog[i] : i \in DOMAIN backlog}
             rest  == {Tail(backlog)[i] : i \in DOMAIN Tail(backlog)}
  <2>1. Connected = queue /\ \A i, j \in DOMAIN backlog : backlog[i] = backlog[j] => i = j
    BY <1>2 DEF IInv, NoConnectionLost
  <2>2. queue = rest \cup {Head(backlog)}
    <3>1. ASSUME NEW i \in DOMAIN backlog
          PROVE  backlog[i] \in rest \cup {Head(backlog)}
      <4>1. CASE i = 1
        BY <1>3, <4>1
      <4>2. CASE i # 1
        <5>1. i - 1 \in DOMAIN Tail(backlog) /\ Tail(backlog)[i - 1] = backlog[i]
          BY <1>3, <4>2
        <5>2. QED
          BY <5>1
      <4>3. QED
        BY <4>1, <4>2
    <3>2. ASSUME NEW i \in DOMAIN Tail(backlog)
          PROVE  Tail(backlog)[i] \in queue
      <4>1. i + 1 \in DOMAIN backlog /\ Tail(backlog)[i] = backlog[i + 1]
        BY <1>3
      <4>2. QED
        BY <4>1
    <3>3. Head(backlog) \in queue
      BY <1>3
    <3>4. QED
      BY <3>1, <3>2, <3>3
  <2>3. Head(backlog) \notin rest
    <3>1. ASSUME NEW i \in DOMAIN Tail(backlog), Tail(backlog)[i] = Head(backlog)
          PROVE  FALSE
      <4>1. i + 1 \in DOMAIN backlog /\ 1 \in DOMAIN backlog /\ backlog[i + 1] = backlog[1]
        BY <1>3, <3>1
      <4>2. i + 1 # 1
        BY <1>3
      <4>3. QED
        BY <2>1, <4>1, <4>2
    <3>2. QED
      BY <3>1
  <2>4. ASSUME NEW i \in DOMAIN Tail(backlog), NEW j \in DOMAIN Tail(backlog),
               Tail(backlog)[i] = Tail(backlog)[j]
        PROVE  i = j
    <3>1. i + 1 = j + 1
      BY <1>3, <2>1, <2>4
    <3>2. QED
      BY <1>3, <3>1
  <2>5. Connected' = Connected
    BY <1>1 DEF Connected
  <2>6. serving' # None
    BY <1>1, <1>3, NoneAssumption
  <2> HIDE DEF queue
  <2>7. QED
    BY <1>1, <2>1, <2>2, <2>3, <2>4, <2>5, <2>6 DEF NoConnectionLost
<1>7. QED
  BY <1>4, <1>5, <1>6 DEF IInv

LEMMA CloseKeepsInv ==
  ASSUME IInv, CloseClient
  PROVE  IInv'
<1>1. /\ main = "close" /\ main' = "nap"
      /\ serving' = None
      /\ client' = [client EXCEPT ![serving] = "away"]
      /\ inbox' = [inbox EXCEPT ![serving] = "none"]
      /\ UNCHANGED <<worker, running, held, fds, plugged, path, listening, backlog, hand,
                     stamp, faults>>
  BY DEF CloseClient, At, port
<1>2. serving \in Clients /\ serving # None
  BY <1>1 DEF IInv, TypeOK, Stages, Talking
<1>3. TypeOK'
  BY <1>1, <1>2 DEF IInv, TypeOK
<1>4. Stages' /\ PortHeld'
  BY <1>1 DEF IInv, Stages, PortHeld, NoDescriptorLost, Setup, Ended, Talking, Down
<1>5. Connected' = Connected \ {serving}
  BY <1>1, <1>2 DEF IInv, TypeOK, Connected
<1>6. NoConnectionLost'
  <2>1. backlog \in Seq(Clients)
    BY DEF IInv, TypeOK
  <2>2. None \notin {backlog[i] : i \in DOMAIN backlog}
    BY <2>1, NoneAssumption, ElementOfSeq
  <2>3. QED
    BY <1>1, <1>2, <1>5, <2>2 DEF IInv, NoConnectionLost
<1>7. QED
  BY <1>3, <1>4, <1>6 DEF IInv

LEMMA ConnectKeepsInv ==
  ASSUME IInv, NEW c \in Clients, Connect(c)
  PROVE  IInv'
<1>1. /\ client[c] = "away" /\ listening
      /\ backlog' = Append(backlog, c)
      /\ client' = [client EXCEPT ![c] = "quiet"]
      /\ UNCHANGED <<main, worker, running, held, fds, plugged, path, listening, serving,
                     hand, stamp, inbox, faults>>
  BY DEF Connect, Process, port
<1>2. backlog \in Seq(Clients)
  BY DEF IInv, TypeOK
<1>3. /\ backlog' \in Seq(Clients)
      /\ DOMAIN backlog = 1 .. Len(backlog) /\ Len(backlog) \in Nat
      /\ DOMAIN backlog' = 1 .. Len(backlog) + 1
      /\ \A i \in 1 .. Len(backlog) : backlog'[i] = backlog[i]
      /\ backlog'[Len(backlog) + 1] = c
  BY <1>1, <1>2, AppendProperties, LenProperties
<1>4. TypeOK'
  BY <1>1, <1>3 DEF IInv, TypeOK
<1>5. Stages' /\ PortHeld'
  BY <1>1 DEF IInv, Stages, PortHeld, NoDescriptorLost
<1>6. Connected' = Connected \cup {c} /\ c \notin Connected
  BY <1>1 DEF IInv, TypeOK, Connected
<1>7. NoConnectionLost'
  <2> DEFINE queue == {backlog[i] : i \in DOMAIN backlog}
             longer == {backlog'[i] : i \in DOMAIN backlog'}
  <2>1. longer = queue \cup {c}
    <3>1. ASSUME NEW i \in DOMAIN backlog'
          PROVE  backlog'[i] \in queue \cup {c}
      <4>1. i \in DOMAIN backlog \/ i = Len(backlog) + 1
        BY <1>3
      <4>2. QED
        BY <1>3, <4>1
    <3>2. ASSUME NEW i \in DOMAIN backlog
          PROVE  backlog[i] \in longer
      <4>1. i \in DOMAIN backlog' /\ backlog'[i] = backlog[i]
        BY <1>3
      <4>2. QED
        BY <4>1
    <3>3. c \in longer
      <4>1. Len(backlog) + 1 \in DOMAIN backlog'
        BY <1>3
      <4>2. QED
        BY <1>3, <4>1
    <3>4. QED
      BY <3>1, <3>2, <3>3
  <2>a. Connected = queue \cup ({serving} \ {None}) /\ serving \notin queue
    BY DEF IInv, NoConnectionLost
  <2>2. c \notin queue /\ c # serving
    BY <1>6, <2>a, NoneAssumption
  <2>3. ASSUME NEW i \in DOMAIN backlog', NEW j \in DOMAIN backlog',
               backlog'[i] = backlog'[j]
        PROVE  i = j
    <3>1. \A k \in DOMAIN backlog' : k \in DOMAIN backlog \/ k = Len(backlog) + 1
      BY <1>3
    <3>2. \A k \in DOMAIN backlog : backlog'[k] # c
      BY <1>3, <2>2
    <3>3. CASE i \in DOMAIN backlog /\ j \in DOMAIN backlog
      BY <1>3, <2>3, <3>3 DEF IInv, NoConnectionLost
    <3>4. CASE i \notin DOMAIN backlog \/ j \notin DOMAIN backlog
      BY <1>3, <2>3, <3>1, <3>2, <3>4
    <3>5. QED
      BY <3>3, <3>4
  <2> HIDE DEF queue
  <2>4. QED
    BY <1>1, <1>6, <2>a, <2>1, <2>2, <2>3 DEF NoConnectionLost
<1>8. QED
  BY <1>4, <1>5, <1>7 DEF IInv

(* What a connected client does, and what it is told, keeps it connected.  *)
LEMMA TalkKeepsInv ==
  ASSUME IInv, Respond \/ (\E c \in Clients : Send(c) \/ Leave(c)) \/ Plug
  PROVE  IInv'
<1>1. UNCHANGED <<worker, running, held, fds, path, listening, backlog, serving, hand,
                  stamp, faults>>
  BY DEF Respond, Send, Leave, Plug, Process, port, rpc, At
<1>2. CASE Respond
  <2>1. serving \in Clients /\ serving # None
    BY <1>2 DEF IInv, TypeOK, Stages, Respond, At, Talking
  <2>2. main = "respond" /\ main' = "close" /\ UNCHANGED <<plugged, inbox>>
        /\ client' = [client EXCEPT ![serving] = "answered"]
    BY <1>2 DEF Respond, At
  <2>3. TypeOK'
    BY <1>1, <2>1, <2>2 DEF IInv, TypeOK
  <2>4. Stages' /\ PortHeld'
    BY <1>1, <2>2 DEF IInv, Stages, PortHeld, NoDescriptorLost, Setup, Ended, Talking, Down
  <2>5. serving \in Connected
    BY <2>1 DEF IInv, NoConnectionLost
  <2>6. Connected' = Connected
    BY <2>1, <2>2, <2>5 DEF IInv, TypeOK, Connected
  <2>7. QED
    BY <1>1, <2>3, <2>4, <2>6 DEF IInv, NoConnectionLost
<1>3. ASSUME NEW c \in Clients, Send(c) \/ Leave(c)
      PROVE  IInv'
  <2>1. client[c] # "away" /\ UNCHANGED <<main, plugged>>
    BY <1>3 DEF Send, Leave, Process
  <2>2. PICK what \in {"waiting", "left"} : client' = [client EXCEPT ![c] = what]
    BY <1>3 DEF Send, Leave
  <2>3. inbox' \in [Clients -> Kinds \cup {"none"}]
    BY <1>3 DEF IInv, TypeOK, Send, Leave
  <2>a. client' \in [Clients -> {"away", "quiet", "waiting", "left", "answered"}]
    BY <2>2 DEF IInv, TypeOK
  <2>4. TypeOK'
    BY <1>1, <2>1, <2>3, <2>a DEF IInv, TypeOK
  <2>5. Stages' /\ PortHeld'
    BY <1>1, <2>1 DEF IInv, Stages, PortHeld, NoDescriptorLost
  <2>6. Connected' = Connected
    BY <2>1, <2>2 DEF IInv, TypeOK, Connected
  <2>7. QED
    BY <1>1, <2>4, <2>5, <2>6 DEF IInv, NoConnectionLost
<1>4. CASE Plug
  <2>1. UNCHANGED <<main, client, inbox>> /\ plugged' \in BOOLEAN
    BY <1>4 DEF Plug, Process, peers
  <2>2. QED
    BY <1>1, <2>1 DEF IInv, TypeOK, Stages, PortHeld, NoDescriptorLost, NoConnectionLost,
       Connected
<1>5. QED
  BY <1>2, <1>3, <1>4

LEMMA SignalKeepsInv == IInv /\ Signal => IInv'
<1> SUFFICES ASSUME IInv, Signal
             PROVE  IInv'
  OBVIOUS
<1>1. CASE Killed
  BY <1>1, EndsKeepInv
<1>2. CASE ~ Killed
  <2>1. /\ main \notin {"open", "bind", "sigaction", "exited", "killed"}
        /\ running' = FALSE
        /\ main' = main \/ (main = "recv" /\ main' = "close")
        /\ UNCHANGED <<worker, port, plugged, rpc, peers>>
        /\ Fault
    BY <1>2 DEF Signal, Killed
  <2>a. faults' \in 0 .. MaxFaults
    BY <2>1, FaultType DEF IInv
  <2>b. main' \in {main, "close"} /\ running' \in BOOLEAN
        /\ UNCHANGED <<worker, held, fds, plugged, path, listening, backlog, serving, hand,
                       client, inbox, stamp>>
    BY <2>1, Zenon DEF port, rpc, peers
  <2>2. TypeOK'
    BY <2>a, <2>b DEF IInv, TypeOK
  <2>3. Stages' /\ PortHeld'
    BY <2>1 DEF IInv, Stages, PortHeld, NoDescriptorLost, port, rpc, Setup, Ended,
       Talking, Down
  <2>4. NoConnectionLost'
    BY <2>1, SameConnections DEF IInv, rpc, peers
  <2>5. QED
    BY <2>2, <2>3, <2>4 DEF IInv
<1>3. QED
  BY <1>1, <1>2

LEMMA NextInv == IInv /\ [Next]_vars => IInv'
<1> SUFFICES ASSUME IInv, [Next]_vars
             PROVE  IInv'
  OBVIOUS
<1>1. CASE Main
  BY <1>1, EndsKeepInv, MainGoesOn, PortKeepsInv, AcceptKeepsInv, CloseKeepsInv,
     TalkKeepsInv DEF Main
<1>2. CASE Worker
  BY <1>2, PortKeepsInv
<1>3. CASE Outside
  BY <1>3, ConnectKeepsInv, TalkKeepsInv, SignalKeepsInv, MainGoesOn DEF Outside
<1>4. CASE UNCHANGED vars
  <2>1. UNCHANGED <<main, worker, running, held, fds, plugged, path, listening, backlog,
                    serving, hand, client, inbox, stamp, faults>>
    BY <1>4 DEF vars, port, rpc, peers
  <2>2. QED
    BY <2>1 DEF IInv, TypeOK, Stages, PortHeld, NoDescriptorLost, NoConnectionLost, Connected
<1>5. QED
  BY <1>1, <1>2, <1>3, <1>4 DEF Next

THEOREM Inductive == Spec => []IInv
<1>1. QED
  BY InitInv, NextInv, PTL DEF Spec

(* Every variable of the daemon keeps to its type.                         *)
THEOREM TypeCorrect == Spec => []TypeOK
<1>1. IInv => TypeOK
  BY DEF IInv
<1>2. QED
  BY <1>1, Inductive, PTL

(* However often the worker closes and reopens the port, no descriptor of  *)
(* it is lost open or closed twice (serial_comm.c:112-177).                *)
THEOREM DescriptorsCounted == Spec => []NoDescriptorLost
<1>1. IInv => NoDescriptorLost
  BY DEF IInv, PortHeld
<1>2. QED
  BY <1>1, Inductive, PTL

(* With any number of clients and any backlog, every connection is in the  *)
(* backlog or being served, once (rpc_server.c:619-650).                   *)
THEOREM ConnectionsCounted == Spec => []NoConnectionLost
<1>1. IInv => NoConnectionLost
  BY DEF IInv
<1>2. QED
  BY <1>1, Inductive, PTL

(* When main frees the memory the worker has ended, and port, socket and   *)
(* connections are closed (main.c:344-377).                                *)
THEOREM NothingUsedAfterFree == Spec => []FreedLast
<1>1. IInv => FreedLast
  BY DEF IInv, Stages, PortHeld, NoDescriptorLost, NoConnectionLost, FreedLast, Down,
     Talking
<1>2. QED
  BY <1>1, Inductive, PTL
==============================================================================
