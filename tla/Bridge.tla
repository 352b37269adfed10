--------------------------------- MODULE Bridge ---------------------------------
(***************************************************************************)
(* The path of the data to the browser: the page (app.js) waits for the    *)
(* daemon and then polls the dashboard server (server.js), several polls   *)
(* may be under way at once; the server makes a call to the daemon for     *)
(* each request, on a socket of its own (ms2_client.js).                   *)
(*                                                                         *)
(* The handlers of the page and of the server are run to their next await  *)
(* as one step.  Of the daemon only matters whether it answers, and which  *)
(* of the polls of the ECU its answer is from.                             *)
(***************************************************************************)
EXTENDS Naturals

CONSTANTS
  Polls,    (* bound: polls of the page that can be under way at once      *)
  Boot,     (* the requests of waitForDaemon, one at a time                *)
  Retries,  (* maxRetries                                                  *)
  MaxTime   (* bound: polls of the ECU                                     *)

ASSUME SlotAssumption == Boot \notin Polls
ASSUME BridgeBounds   == Retries \in Nat \ {0} /\ MaxTime \in Nat

VARIABLES
  daemon,    (* up, down (nothing listens), stuck (nothing is answered)    *)
  time,      (* the polls of the ECU so far                                *)
  linked,    (* connected, in the server                                   *)
  http,      (* the request of each slot                                   *)
  sent,      (* the poll of the ECU its answer is from                     *)
  phase,     (* what the slot waits for: values or status                  *)
  got,       (* the values kept while the status is asked for              *)
  began,     (* the time at which the poll was begun                       *)
  tries,     (* i of waitForDaemon                                         *)
  ready,     (* state.daemonReady                                          *)
  connected, (* state.connected                                            *)
  shown      (* the poll of the ECU that is on the screen                  *)

Slots  == Polls \cup {Boot}
ecu    == <<daemon, time>>
server == <<linked, http, sent>>
screen == <<ready, connected, shown>>
vars   == <<ecu, server, phase, got, began, tries, screen>>

Init == /\ daemon \in {"up", "down", "stuck"} /\ time = 0
        /\ linked = TRUE
        /\ http  = [s \in Slots |-> "none"]
        /\ sent  = [s \in Slots |-> 0]
        /\ phase = [s \in Slots |-> "idle"]
        /\ got   = [s \in Slots |-> 0]
        /\ began = [s \in Slots |-> 0]
        /\ tries = 0
        /\ ready = FALSE /\ connected = FALSE /\ shown = 0

Ask(s, what) == /\ http'  = [http EXCEPT ![s] = "asked"]
                /\ phase' = [phase EXCEPT ![s] = what]

Done(s) == /\ http'  = [http EXCEPT ![s] = "none"]
           /\ phase' = [phase EXCEPT ![s] = "idle"]

------------------------------------------------------------------------------
(* Faulty variants of the actions below.                                   *)

(* The server asks for a connection once.                                  *)
ServeLinked(s) == /\ http[s] = "asked"
                  /\ http' = [http EXCEPT ![s] = IF linked THEN "calling" ELSE "503"]
                  /\ UNCHANGED <<ecu, linked, sent, phase, got, began, tries, screen>>

(* What was answered last is answered again to a call made meanwhile.      *)
AnswerShared(s) == /\ http[s] = "calling" /\ daemon = "up"
                   /\ http' = [http EXCEPT ![s] = "ok"]
                   /\ \E t \in Slots : sent' = [sent EXCEPT ![s] = IF http[t] = "ok" THEN sent[t]
                                                                   ELSE time]
                   /\ UNCHANGED <<ecu, linked, phase, got, began, tries, screen>>

(* The page waits for the ECU without end.                                 *)
WaitForEver == /\ phase[Boot] = "status" /\ http[Boot] \in {"ok", "500"}
               /\ Done(Boot)
               /\ \/ http[Boot] = "ok" /\ ready' = TRUE /\ connected' = TRUE /\ tries' = tries
                  \/ UNCHANGED <<tries, ready, connected>>
               /\ UNCHANGED <<ecu, linked, sent, got, began, shown>>

(* A poll that fails leaves the light as it is while others are under way. *)
FailQuietly(s) == /\ phase[s] = "values" /\ http[s] = "500"
                  /\ Done(s)
                  /\ connected' = (connected /\ \E t \in Polls \ {s} : phase[t] # "idle")
                  /\ UNCHANGED <<ecu, linked, sent, got, began, tries, ready, shown>>

------------------------------------------------------------------------------
(* server.js and ms2_client.js.                                            *)

(* handleAPI; connect of the client never fails, so that 503 is never the  *)
(* answer.                                                                 *)
Serve(s) == /\ http[s] = "asked"
            /\ linked' = TRUE
            /\ http' = [http EXCEPT ![s] = "calling"]
            /\ UNCHANGED <<ecu, sent, phase, got, began, tries, screen>>

Answer(s) == /\ http[s] = "calling" /\ daemon = "up"
             /\ http' = [http EXCEPT ![s] = "ok"]
             /\ sent' = [sent EXCEPT ![s] = time]
             /\ UNCHANGED <<ecu, linked, phase, got, began, tries, screen>>

(* The socket is refused or closed, or nothing has come for 5 s.           *)
CallFails(s) == /\ http[s] = "calling" /\ daemon # "up"
                /\ linked' = FALSE
                /\ http' = [http EXCEPT ![s] = "500"]
                /\ UNCHANGED <<ecu, sent, phase, got, began, tries, screen>>

------------------------------------------------------------------------------
(* app.js: waitForDaemon.                                                  *)

WaitForDaemon == /\ ~ ready /\ phase[Boot] = "idle"
                 /\ Ask(Boot, "status")
                 /\ UNCHANGED <<ecu, linked, sent, got, began, tries, screen>>

(* The answer may say that the daemon has no ECU.                          *)
WaitEnds == /\ phase[Boot] = "status" /\ http[Boot] \in {"ok", "500"}
            /\ Done(Boot)
            /\ \/ http[Boot] = "ok" /\ ready' = TRUE /\ connected' = TRUE /\ tries' = tries
               \/ tries' = tries + 1 /\ ready' = (tries' = Retries) /\ connected' = connected
            /\ UNCHANGED <<ecu, linked, sent, got, began, shown>>

------------------------------------------------------------------------------
(* app.js: poll.                                                           *)

Poll(s) == /\ ready /\ phase[s] = "idle"
           /\ Ask(s, "values")
           /\ began' = [began EXCEPT ![s] = time]
           /\ UNCHANGED <<ecu, linked, sent, got, tries, screen>>

Show(s) == /\ phase[s] = "values" /\ http[s] = "ok" /\ connected
           /\ Done(s)
           /\ shown' = sent[s]
           /\ UNCHANGED <<ecu, linked, sent, got, began, tries, ready, connected>>

(* The values are kept until the status has come.                          *)
AskStatus(s) == /\ phase[s] = "values" /\ http[s] = "ok" /\ ~ connected
                /\ Ask(s, "status")
                /\ got' = [got EXCEPT ![s] = sent[s]]
                /\ UNCHANGED <<ecu, linked, sent, began, tries, screen>>

(* The answer is not looked at: an error makes the page connected, too.    *)
ShowAfterStatus(s) == /\ phase[s] = "status" /\ http[s] \in {"ok", "500"}
                      /\ Done(s)
                      /\ connected' = TRUE /\ shown' = got[s]
                      /\ UNCHANGED <<ecu, linked, sent, got, began, tries, ready>>

Fail(s) == /\ phase[s] = "values" /\ http[s] = "500"
           /\ Done(s)
           /\ connected' = FALSE
           /\ UNCHANGED <<ecu, linked, sent, got, began, tries, ready, shown>>

------------------------------------------------------------------------------
(* The daemon.                                                             *)
PollEcu == /\ daemon = "up" /\ time < MaxTime
           /\ time' = time + 1
           /\ UNCHANGED <<daemon, server, phase, got, began, tries, screen>>

Change == /\ daemon' \in {"up", "down", "stuck"} \ {daemon}
          /\ UNCHANGED <<time, server, phase, got, began, tries, screen>>

Server(s)  == Serve(s) \/ Answer(s) \/ CallFails(s)
Booting    == WaitForDaemon \/ WaitEnds
Polling(s) == Poll(s) \/ Show(s) \/ AskStatus(s) \/ ShowAfterStatus(s) \/ Fail(s)

Next == \/ \E s \in Slots : Server(s)
        \/ Booting
        \/ \E s \in Polls : Polling(s)
        \/ PollEcu \/ Change

(* Both programs are event loops that run their handlers, and setInterval  *)
(* polls for ever.  Nothing is assumed of the daemon.                      *)
Spec == /\ Init /\ [][Next]_vars
        /\ \A s \in Slots : WF_vars(Server(s))
        /\ WF_vars(Booting)
        /\ \A s \in Polls : WF_vars(Polling(s))

------------------------------------------------------------------------------
TypeOK == /\ daemon \in {"up", "down", "stuck"} /\ time \in 0 .. MaxTime
          /\ linked \in BOOLEAN
          /\ http \in [Slots -> {"none", "asked", "calling", "ok", "500"}]
          /\ phase \in [Slots -> {"idle", "values", "status"}]
          /\ sent \in [Slots -> 0 .. MaxTime] /\ got \in [Slots -> 0 .. MaxTime]
          /\ began \in [Slots -> 0 .. MaxTime]
          /\ tries \in 0 .. Retries /\ ready \in BOOLEAN /\ connected \in BOOLEAN
          /\ shown \in 0 .. MaxTime

(* What a poll puts on the screen is not older than the poll itself,       *)
(* however the calls overlap and whatever was kept while the status was    *)
(* asked for (_rpcCall has a socket and an id for each call).  It may be   *)
(* older than what an overlapping poll has shown meanwhile, as nothing     *)
(* puts the answers in order; a poll that was begun after some values were *)
(* shown does not go back behind them.                                     *)
ShownSincePoll ==
  [][\A s \in Polls : (Show(s) \/ ShowAfterStatus(s)) => shown' >= began[s]]_vars

(* "Auto-reconnect on connection loss" (ms2d-dashboard/README.md:40): once *)
(* the daemon answers for good, the page is connected for good.            *)
AutoReconnects == <>[](daemon = "up") => <>[]connected

(* Once the daemon is gone, or answers no more, the page does not stay     *)
(* connected, although a status that fails makes it connected.             *)
LossIsSeen == <>[](daemon # "up") => <>[] ~ connected

(* The page starts to poll in the end, with or without a daemon            *)
(* (waitForDaemon: "starting anyway").                                     *)
StartsAnyway == <>ready
===============================================================================
