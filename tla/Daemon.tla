-------------------------------- MODULE Daemon --------------------------------
(***************************************************************************)
(* The life of the daemon process: main (main.c) sets itself up, answers   *)
(* the RPC clients one by one (rpc_server.c), and takes everything down    *)
(* again when a signal has cleared g_running, while the worker thread      *)
(* polls.  start.sh starts the daemon again whenever it has ended.         *)
(*                                                                         *)
(* What a client asks is here only one of Kinds; OutpcBuffer has what the  *)
(* answers say, and that a call always gets the mutex it needs.            *)
(* SerialLink has what a poll goes through; here it succeeds or fails.     *)
(* A client is a connection: one that connects again while the daemon      *)
(* still holds its old connection is another client.                       *)
(***************************************************************************)
EXTENDS Naturals, Sequences

CONSTANTS
  Clients,
  None,      (* no client                                                  *)
  Backlog,   (* MS2D_RPC_BACKLOG: connections that wait to be accepted     *)
  MaxFaults  (* bound: calls to the system that fail                       *)

ASSUME NoneAssumption == None \notin Clients
ASSUME DaemonBounds == Backlog \in Nat \ {0} /\ MaxFaults \in Nat

VARIABLES
  main,      (* where the main thread is                                   *)
  worker,    (* where the worker thread is                                 *)
  running,   (* g_running                                                  *)
  held,      (* state->serial_fd >= 0                                      *)
  fds,       (* descriptors of the serial port that the process has open   *)
  plugged,   (* the device node exists                                     *)
  path,      (* the socket file exists                                     *)
  listening, (* g_rpc_server_fd >= 0                                       *)
  backlog,   (* connections not accepted yet, oldest first                 *)
  serving,   (* the connection accepted last, None once it is closed       *)
  hand,      (* the request that is being handled                          *)
  client,    (* what each client is about                                  *)
  inbox,     (* the request each client has sent and nobody has read       *)
  stamp,     (* g_rpc_last_poll_timestamp_ms against the last good poll    *)
  faults     (* failed calls to the system so far                          *)

port  == <<held, fds>>
rpc   == <<path, listening, backlog, serving, hand, stamp>>
peers == <<client, inbox>>
vars  == <<main, worker, running, port, plugged, rpc, peers, faults>>

(* Calls that decode fields, and what does not: get_status, list_fields,   *)
(* an unknown method, bytes that are no whole request.                     *)
Kinds == {"values", "other"}

Init == /\ main = "open"
        /\ worker = "gone"
        /\ running = TRUE
        /\ held = FALSE
        /\ fds = 0
        /\ plugged = TRUE
        /\ path = FALSE
        /\ listening = FALSE
        /\ backlog = << >>
        /\ serving = None
        /\ hand = "none"
        /\ client = [c \in Clients |-> "away"]
        /\ inbox = [c \in Clients |-> "none"]
        /\ stamp = "start"
        /\ faults = 0

Fault == faults < MaxFaults /\ faults' = faults + 1

------------------------------------------------------------------------------
(***************************************************************************)
(* Faulty variants of some of the actions below, each with a slip the code *)
(* could have: they show what the properties at the end can tell apart.    *)
(***************************************************************************)

(* The socket file of an earlier run is left where it is.                  *)
BindOverOld ==
  /\ main = "bind"
  /\ IF path
       THEN main' = "exited" /\ held' = FALSE /\ fds' = 0 /\ UNCHANGED <<path, listening, stamp>>
       ELSE /\ main' = "sigaction" /\ path' = TRUE /\ listening' = TRUE /\ stamp' = "start"
            /\ UNCHANGED port
  /\ UNCHANGED <<worker, running, plugged, backlog, serving, hand, peers, faults>>

(* The client is not closed when it has sent nothing.                      *)
RecvNothingLeaks ==
  /\ main = "recv" /\ main' = "nap"
  /\ inbox[serving] = "none"
  /\ client[serving] = "left"
  /\ serving' = None
  /\ UNCHANGED <<worker, running, port, plugged, path, listening, backlog, hand, stamp,
                 peers, faults>>

(* recv is called again when it has returned 0.                            *)
RecvAgain ==
  /\ main = "recv"
  /\ inbox[serving] = "none"
  /\ client[serving] = "left"
  /\ UNCHANGED vars

(* main does not wait for the worker to end.                               *)
JoinNobody == /\ main = "join" /\ main' = "shutdown"
              /\ UNCHANGED <<worker, running, port, plugged, rpc, peers, faults>>

(* The port is closed whether it is open or not.                           *)
CloseAnyway == /\ main = "closeport" /\ main' = "free"
               /\ held' = FALSE
               /\ fds' = fds - 1
               /\ UNCHANGED <<worker, running, plugged, rpc, peers, faults>>

(* The worker polls for ever.                                              *)
CheckNothing == /\ worker = "check"
                /\ worker' = "poll"
                /\ UNCHANGED <<main, running, port, plugged, rpc, peers, faults>>

(* The port is not closed after an error, and opened a second time.        *)
FailWithoutClose == /\ worker = "poll" /\ worker' = "backoff"
                    /\ UNCHANGED <<main, running, port, plugged, rpc, peers, faults>>

------------------------------------------------------------------------------
(* Setting up.                                                             *)

(* ms2d_serial_open.                                                       *)
OpenPort == /\ main = "open"
            /\ plugged
            /\ held' = TRUE
            /\ fds' = fds + 1
            /\ main' = "bind"
            /\ UNCHANGED <<worker, running, plugged, rpc, peers, faults>>

OpenPortFails == /\ main = "open"
                 /\ ~ plugged
                 /\ main' = "exited"
                 /\ UNCHANGED <<worker, running, port, plugged, rpc, peers, faults>>

(* ms2d_rpc_init removes the socket file that an earlier run may have left.*)
Bind == /\ main = "bind"
        /\ path' = TRUE
        /\ listening' = TRUE
        /\ stamp' = "start"
        /\ main' = "sigaction"
        /\ UNCHANGED <<worker, running, port, plugged, backlog, serving, hand, peers, faults>>

BindFails == /\ main = "bind"
             /\ Fault
             /\ path' = FALSE
             /\ held' = FALSE
             /\ fds' = fds - 1
             /\ main' = "exited"
             /\ UNCHANGED <<worker, running, plugged, listening, backlog, serving, hand,
                            stamp, peers>>

Sigaction == /\ main = "sigaction"
             /\ main' = "spawn"
             /\ UNCHANGED <<worker, running, port, plugged, rpc, peers, faults>>

Spawn == /\ main = "spawn"
         /\ worker' = "check"
         /\ main' = "check"
         /\ UNCHANGED <<running, port, plugged, rpc, peers, faults>>

(* Every connection is closed, read or not.                                *)
HangUp == /\ backlog' = << >>
          /\ serving' = None
          /\ hand' = "none"
          /\ client' = [c \in Clients |-> "away"]
          /\ inbox' = [c \in Clients |-> "none"]

(* ms2d_rpc_shutdown.                                                      *)
Unlisten == listening' = FALSE /\ path' = FALSE /\ HangUp

SetupFails == /\ main \in {"sigaction", "spawn"}
              /\ Fault
              /\ Unlisten
              /\ held' = FALSE
              /\ fds' = fds - 1
              /\ main' = "exited"
              /\ UNCHANGED <<worker, running, plugged, stamp>>

------------------------------------------------------------------------------
(* The main loop.                                                          *)

At(here, there) == main = here /\ main' = there

Check == /\ main = "check"
         /\ main' = IF running THEN "accept" ELSE "join"
         /\ UNCHANGED <<worker, running, port, plugged, rpc, peers, faults>>

Accept == /\ At("accept", "recv")
          /\ backlog # << >>
          /\ serving' = Head(backlog)
          /\ backlog' = Tail(backlog)
          /\ UNCHANGED <<worker, running, port, plugged, path, listening, hand, stamp,
                         peers, faults>>

NoClient == /\ At("accept", "nap")
            /\ backlog = << >>
            /\ UNCHANGED <<worker, running, port, plugged, rpc, peers, faults>>

(* No descriptor is left; the client stays in the backlog.                 *)
AcceptFails == /\ At("accept", "nap")
               /\ backlog # << >>
               /\ Fault
               /\ UNCHANGED <<worker, running, port, plugged, rpc, peers>>

(* recv waits until the client has sent something or closed its end.       *)
Recv == /\ At("recv", "handle")
        /\ inbox[serving] # "none"
        /\ hand' = inbox[serving]
        /\ inbox' = [inbox EXCEPT ![serving] = "none"]
        /\ UNCHANGED <<worker, running, port, plugged, path, listening, backlog, serving,
                       stamp, client, faults>>

RecvNothing == /\ At("recv", "close")
               /\ inbox[serving] = "none"
               /\ client[serving] = "left"
               /\ UNCHANGED <<worker, running, port, plugged, rpc, peers, faults>>

(* The method runs; those that decode fields set the timestamp, unless the *)
(* field is unknown or there is no memory.                                 *)
Handle == /\ At("handle", "respond")
          /\ stamp' \in IF hand = "values" THEN {"later", stamp} ELSE {stamp}
          /\ hand' = "none"
          /\ UNCHANGED <<worker, running, port, plugged, path, listening, backlog, serving,
                         peers, faults>>

(* There is no memory for the request or the response: none is sent.       *)
NoResponse == /\ At("handle", "close")
              /\ Fault
              /\ stamp' \in IF hand = "values" THEN {"later", stamp} ELSE {stamp}
              /\ hand' = "none"
              /\ UNCHANGED <<worker, running, port, plugged, path, listening, backlog,
                             serving, peers>>

Respond == /\ At("respond", "close")
           /\ client[serving] # "left"
           /\ client' = [client EXCEPT ![serving] = "answered"]
           /\ UNCHANGED <<worker, running, port, plugged, rpc, inbox, faults>>

(* The process ends at once, and the system closes what it had open.       *)
Die == /\ main' = "killed"
       /\ worker' = "gone"
       /\ held' = FALSE
       /\ fds' = 0
       /\ listening' = FALSE
       /\ HangUp
       /\ UNCHANGED <<running, plugged, path, stamp, faults>>

(* send to a client that has closed its end raises SIGPIPE.                *)
BrokenPipe == /\ main = "respond"
              /\ client[serving] = "left"
              /\ Die

CloseClient == /\ At("close", "nap")
               /\ client' = [client EXCEPT ![serving] = "away"]
               /\ inbox' = [inbox EXCEPT ![serving] = "none"]
               /\ serving' = None
               /\ UNCHANGED <<worker, running, port, plugged, path, listening, backlog,
                              hand, stamp, faults>>

Nap == /\ At("nap", "check")
       /\ UNCHANGED <<worker, running, port, plugged, rpc, peers, faults>>

------------------------------------------------------------------------------
(* Taking down.                                                            *)

Join == /\ At("join", "shutdown")
        /\ worker = "gone"
        /\ UNCHANGED <<worker, running, port, plugged, rpc, peers, faults>>

Shutdown == /\ At("shutdown", "closeport")
            /\ Unlisten
            /\ UNCHANGED <<worker, running, port, plugged, stamp, faults>>

ClosePort == /\ At("closeport", "free")
             /\ held' = FALSE
             /\ fds' = IF held THEN fds - 1 ELSE fds
             /\ UNCHANGED <<worker, running, plugged, rpc, peers, faults>>

Free == /\ At("free", "exited")
        /\ UNCHANGED <<worker, running, port, plugged, rpc, peers, faults>>

Main == OpenPort \/ OpenPortFails \/ Bind \/ BindFails \/ Sigaction \/ Spawn
          \/ SetupFails \/ Check \/ Accept \/ NoClient \/ AcceptFails \/ Recv
          \/ RecvNothing \/ Handle \/ NoResponse \/ Respond \/ BrokenPipe
          \/ CloseClient \/ Nap \/ Join \/ Shutdown \/ ClosePort \/ Free

------------------------------------------------------------------------------
(* The worker thread.                                                      *)

Here(here, there) == worker = here /\ worker' = there

WorkerCheck == /\ worker = "check"
               /\ worker' = IF running THEN "poll" ELSE "gone"
               /\ UNCHANGED <<main, running, port, plugged, rpc, peers, faults>>

(* Whatever timestamp was set before is older than this poll.              *)
Poll == /\ Here("poll", "pause")
        /\ held
        /\ plugged
        /\ stamp' = IF stamp = "later" THEN "before" ELSE stamp
        /\ UNCHANGED <<main, running, port, plugged, path, listening, backlog, serving,
                       hand, peers, faults>>

PollFails == /\ Here("poll", "backoff")
             /\ held' = FALSE
             /\ fds' = IF held THEN fds - 1 ELSE fds
             /\ UNCHANGED <<main, running, plugged, rpc, peers, faults>>

Pause == /\ Here("pause", "check")
         /\ UNCHANGED <<main, running, port, plugged, rpc, peers, faults>>

(* After the sleep g_running is read a second time.                        *)
Backoff == /\ worker = "backoff"
           /\ worker' = IF running THEN "reopen" ELSE "check"
           /\ UNCHANGED <<main, running, port, plugged, rpc, peers, faults>>

Reopen == /\ Here("reopen", "check")
          /\ plugged
          /\ held' = TRUE
          /\ fds' = fds + 1
          /\ UNCHANGED <<main, running, plugged, rpc, peers, faults>>

ReopenFails == /\ Here("reopen", "check")
               /\ ~ plugged
               /\ UNCHANGED <<main, running, port, plugged, rpc, peers, faults>>

Worker == WorkerCheck \/ Poll \/ PollFails \/ Pause \/ Backoff \/ Reopen
            \/ ReopenFails

------------------------------------------------------------------------------
(* The clients, the operator and start.sh.                                 *)

Process == <<main, worker, running, port, hand, stamp, faults>>

Connect(c) == /\ client[c] = "away"
              /\ listening
              /\ Len(backlog) < Backlog
              /\ backlog' = Append(backlog, c)
              /\ client' = [client EXCEPT ![c] = "quiet"]
              /\ UNCHANGED <<Process, plugged, path, listening, serving, inbox>>

Send(c) == /\ client[c] = "quiet"
           /\ client' = [client EXCEPT ![c] = "waiting"]
           /\ \E kind \in Kinds : inbox' = [inbox EXCEPT ![c] = kind]
           /\ UNCHANGED <<Process, plugged, path, listening, backlog, serving>>

(* The client ends, is interrupted, or has waited its five seconds.        *)
Leave(c) == /\ client[c] \in {"quiet", "waiting"}
            /\ client' = [client EXCEPT ![c] = "left"]
            /\ UNCHANGED <<Process, plugged, path, listening, backlog, serving, inbox>>

(* SIGINT or SIGTERM.  Before sigaction it ends the process.  After that   *)
(* it clears g_running, and wakes main if it is taken while main waits in  *)
(* recv (EINTR, as SA_RESTART is not set); a recv that begins later is not *)
(* woken.                                                                  *)
Signal ==
  /\ Fault
  /\ \/ /\ main \in {"open", "bind", "sigaction"}
        /\ main' = "killed" /\ worker' = "gone" /\ held' = FALSE /\ fds' = 0
        /\ listening' = FALSE
        /\ HangUp
        /\ UNCHANGED <<running, plugged, path, stamp>>
     \/ /\ main \notin {"open", "bind", "sigaction", "exited", "killed"}
        /\ running' = FALSE
        /\ \/ main' = main
           \/ main = "recv" /\ inbox[serving] = "none" /\ main' = "close"
        /\ UNCHANGED <<worker, port, plugged, rpc, peers>>

Plug == /\ plugged' = ~ plugged
        /\ UNCHANGED <<Process, path, listening, backlog, serving, peers>>

Restart == /\ main \in {"exited", "killed"}
           /\ main' = "open"
           /\ running' = TRUE
           /\ UNCHANGED <<worker, port, plugged, rpc, peers, faults>>

Outside == (\E c \in Clients : Connect(c) \/ Send(c) \/ Leave(c))
             \/ Signal \/ Plug \/ Restart

------------------------------------------------------------------------------
Next == Main \/ Worker \/ Outside

Spec == Init /\ [][Next]_vars

(* The two threads run whenever they can.                                  *)
ThreadsFair == Spec /\ WF_vars(Main) /\ WF_vars(Worker)

(* The clients of the repository send their request as soon as they are    *)
(* connected (ms2_client.c:52-77, ms2_client.js:190-192), or end.  start.sh*)
(* starts the daemon again two seconds after it ended.                     *)
Prompt(c) == client[c] = "quiet" /\ (Send(c) \/ Leave(c))

FairSpec == /\ ThreadsFair
            /\ \A c \in Clients : WF_vars(Prompt(c))
            /\ WF_vars(Restart)

------------------------------------------------------------------------------
(* Properties.                                                             *)

TypeOK ==
  /\ main \in {"open", "bind", "sigaction", "spawn", "check", "accept", "recv",
               "handle", "respond", "close", "nap", "join", "shutdown", "closeport",
               "free", "exited", "killed"}
  /\ worker \in {"gone", "check", "poll", "pause", "backoff", "reopen"}
  /\ running \in BOOLEAN
  /\ held \in BOOLEAN
  /\ fds \in Nat
  /\ plugged \in BOOLEAN
  /\ path \in BOOLEAN
  /\ listening \in BOOLEAN
  /\ backlog \in Seq(Clients)
  /\ serving \in Clients \cup {None}
  /\ hand \in Kinds \cup {"none"}
  /\ client \in [Clients -> {"away", "quiet", "waiting", "left", "answered"}]
  /\ inbox \in [Clients -> Kinds \cup {"none"}]
  /\ stamp \in {"start", "later", "before"}
  /\ faults \in 0 .. MaxFaults

(* However often the worker closes and reopens the port, while main sets   *)
(* up and takes down, the process has exactly the descriptor that          *)
(* state->serial_fd names (serial_comm.c:112-177): none is lost open.      *)
NoDescriptorLost == fds = IF held THEN 1 ELSE 0

(* Every connection is in the backlog or being served, once, and no other  *)
(* is still open: each return of ms2d_rpc_handle and each way to end       *)
(* closes those it should (rpc_server.c:625-635, main.c:344-358).          *)
Connected == {c \in Clients : client[c] # "away"}

NoConnectionLost ==
  /\ Connected = {backlog[i] : i \in DOMAIN backlog} \cup ({serving} \ {None})
  /\ \A i, j \in DOMAIN backlog : backlog[i] = backlog[j] => i = j
  /\ serving \notin {backlog[i] : i \in DOMAIN backlog}

(* When main frees the fields and the buffer, nobody is left to use them:  *)
(* the worker has ended and can neither poll nor open the port again, and  *)
(* the socket is gone (main.c:344-377).                                    *)
FreedLast == main = "free" => /\ worker = "gone"
                              /\ fds = 0
                              /\ ~ listening /\ ~ path
                              /\ Connected = {}

(* A client that has sent its request does not wait for ever, whatever the *)
(* other clients do: it is answered or its connection ends.                *)
Served == \A c \in Clients : client[c] = "waiting" ~> client[c] # "waiting"

(* Once g_running is cleared the process ends, also when the signal comes  *)
(* just before main waits in recv or the worker sleeps (main.c:34-38).     *)
ShutdownCompletes == ~ running ~> main \in {"exited", "killed"}

(* However the daemon ended, and whatever socket file it left, it listens  *)
(* again once its port is there for good (start.sh:56-74).                 *)
ComesBack == <>[] plugged => (main \in {"exited", "killed"} ~> listening)

(* "Accept new RPC client connection (non-blocking)" (rpc_server.h:77):    *)
(* ms2d_rpc_accept returns to the main loop by itself.                     *)
AcceptReturns == main = "recv" ~> main # "recv"

(* "Log error but continue" (main.c:328): once the main loop runs, no      *)
(* error with a client ends the daemon.                                    *)
SurvivesClients ==
  [][main # "killed" /\ main' = "killed" => main \in {"open", "bind", "sigaction"}]_vars
===============================================================================
