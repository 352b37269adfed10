------------------------------ MODULE SerialLink ------------------------------
(***************************************************************************)
(* The worker thread of the daemon (worker_thread in main.c) and the       *)
(* request/answer protocol it speaks with the ECU over a serial line       *)
(* (serial_comm.c).                                                        *)
(*                                                                         *)
(* The worker sends the request 'A', reads a two-byte length, that many    *)
(* bytes and a CRC-32 of them, and stores the frame.  On any error it      *)
(* closes the port, sleeps, and opens it again, which flushes the line.    *)
(* The ECU answers the requests it has received in their order, possibly   *)
(* after the worker has given up on them.  The line may drop or damage     *)
(* what it carries, the ECU may lose power and the port may go away.       *)
(*                                                                         *)
(* An answer crosses the line as three chunks.  A chunk names the request  *)
(* it answers, which the bytes on the wire do not: the worker compares the *)
(* names only where the code compares the CRC with the data (two answers   *)
(* are taken to have different CRCs), and the properties use them.         *)
(***************************************************************************)
EXTENDS Naturals, Sequences

CONSTANTS
  K,              (* requests are numbered modulo K                        *)
  MaxUnanswered,  (* requests the ECU's receive buffer holds               *)
  MaxFaults,      (* bound: faults of the ECU, the line and the port       *)
  BackoffInitial, (* MS2D_BACKOFF_INITIAL_MS                               *)
  BackoffMax,     (* MS2D_BACKOFF_MAX_MS                                   *)
  MaxFailures     (* bound: where the failure counts saturate              *)

ASSUME KAssumption == K \in Nat \ {0}
ASSUME BoundsAssumption ==
  MaxUnanswered \in Nat /\ MaxFaults \in Nat /\ MaxFailures \in Nat \ {0}
ASSUME BackoffAssumption ==
  /\ BackoffInitial \in Nat \ {0}
  /\ BackoffMax \in Nat
  /\ BackoffInitial <= BackoffMax

(* The counts saturate when the backoff is at its maximum, or later.       *)
Doubled[n \in Nat] == IF n = 0 THEN BackoffInitial ELSE 2 * Doubled[n - 1]

ASSUME SaturationAssumption == BackoffMax <= Doubled[MaxFailures - 1]

VARIABLES
  pc,         (* where the worker is                                       *)
  fd,         (* the port as the worker holds it: state->serial_fd         *)
  backoff,    (* backoff_ms                                                *)
  failures,   (* consecutive_failures                                      *)
  data,       (* the data chunk of the answer being read                   *)
  req,        (* the last request sent                                     *)
  shown,      (* the request whose answer is in the OUTPC buffer           *)
  present,    (* the device node exists                                    *)
  powered,    (* the ECU is on                                             *)
  unanswered, (* the requests the ECU has received and not answered        *)
  wire,       (* chunks the ECU is still sending                           *)
  rx,         (* chunks in the kernel's input queue                        *)
  faults,     (* faults so far                                             *)
  owed,       (* history: answers were still to come when the port opened  *)
  refused     (* history: openings that failed since the port was open     *)

tally == <<backoff, failures>>
ecu   == <<present, powered, unanswered, wire>>
vars  == <<pc, fd, tally, data, req, shown, owed, refused, ecu, rx, faults>>

Req == 0 .. K - 1

(* ok: undamaged; flag: the first byte of the data is 0x01                 *)
Chunk == [part : {"length", "data", "crc"}, req : Req, ok : BOOLEAN, flag : BOOLEAN]

Piece(part, r, flag) == [part |-> part, req |-> r, ok |-> TRUE, flag |-> flag]

NoData == Piece("data", 0, FALSE)

Answer(r, flag) ==
  <<Piece("length", r, flag), Piece("data", r, flag), Piece("crc", r, flag)>>

Init == /\ pc = "poll"
        /\ fd = "open"
        /\ backoff = 0
        /\ failures = 0
        /\ data = NoData
        /\ req = 0
        /\ shown = 0
        /\ present = TRUE
        /\ powered = TRUE
        /\ unanswered = << >>
        /\ wire = << >>
        /\ rx = << >>
        /\ faults = 0
        /\ owed = FALSE
        /\ refused = 0

Fault == faults < MaxFaults /\ faults' = faults + 1

Up(n) == IF n < MaxFailures THEN n + 1 ELSE n

------------------------------------------------------------------------------
(***************************************************************************)
(* Faulty variants of some of the actions below, each with a slip the code *)
(* could have: they show what the properties at the end can tell apart.    *)
(***************************************************************************)

(* The backoff is doubled without end.                                     *)
DoubleOnly == backoff' = IF backoff = 0 THEN BackoffInitial ELSE 2 * backoff

(* A read that returns 0 at the end of the file is no error but tried      *)
(* again.                                                                  *)
RetryOnHangup ==
  \/ /\ pc \in {"length", "data", "crc", "astray"}
     /\ fd = "hung"
     /\ UNCHANGED vars
  \/ /\ pc = "poll"
     /\ fd # "open"
     /\ fd' = "closed"
     /\ backoff' = IF backoff = 0 THEN BackoffInitial
                    ELSE IF 2 * backoff <= BackoffMax THEN 2 * backoff ELSE BackoffMax
     /\ failures' = IF failures < MaxFailures THEN failures + 1 ELSE failures
     /\ pc' = "sleep"
     /\ data' = NoData
     /\ UNCHANGED <<req, shown, owed, refused, ecu, rx, faults>>

(* A wait that times out is begun again.                                   *)
WaitAgain == /\ pc \in {"length", "data", "crc", "astray"}
             /\ fd = "open"
             /\ rx = << >>
             /\ UNCHANGED vars

(* The worker polls again without opening the port it has closed.          *)
SleepThenPoll == /\ pc = "sleep"
                 /\ pc' = "poll"
                 /\ UNCHANGED <<fd, tally, data, req, shown, owed, refused, ecu, rx, faults>>

(* ms2d_serial_open does not flush.                                        *)
OpenUnflushed == /\ pc = "reopen"
                 /\ present
                 /\ fd' = "open"
                 /\ owed' = (unanswered # << >> \/ wire # << >>)
                 /\ refused' = 0
                 /\ backoff' = 0
                 /\ failures' = 0
                 /\ pc' = "poll"
                 /\ UNCHANGED <<data, req, shown, ecu, rx, faults>>

(* Only the count of failures is reset when the port is open again.        *)
OpenKeepsBackoff == /\ pc = "reopen"
                    /\ present
                    /\ fd' = "open"
                    /\ rx' = << >>
                    /\ owed' = (unanswered # << >> \/ wire # << >>)
                    /\ refused' = 0
                    /\ failures' = 0
                    /\ pc' = "poll"
                    /\ UNCHANGED <<backoff, data, req, shown, ecu, faults>>

(* The backoff is reset whether or not the port could be opened.           *)
ForgetAfterReopen == /\ pc = "reopen"
                     /\ ~ present
                     /\ backoff' = 0
                     /\ failures' = 0
                     /\ pc' = "poll"
                     /\ refused' = Up(refused)
                     /\ UNCHANGED <<fd, req, shown, owed, ecu, data, rx, faults>>

------------------------------------------------------------------------------
(* The worker.                                                             *)

Lesser(a, b) == IF a <= b THEN a ELSE b

RaiseBackoff == backoff' = IF backoff = 0 THEN BackoffInitial
                                          ELSE Lesser(2 * backoff, BackoffMax)

(* A poll that returns an error: the worker raises the backoff, closes the *)
(* port if it is open, and goes to sleep.                                  *)
Fail == /\ RaiseBackoff
        /\ failures' = Up(failures)
        /\ fd' = "closed"
        /\ pc' = "sleep"
        /\ data' = NoData
        /\ UNCHANGED <<req, shown, owed, refused, ecu>>

(* ms2d_write_exact puts the request on the line.                          *)
SendRequest ==
  /\ pc = "poll"
  /\ fd = "open"
  /\ req' = (req + 1) % K
  /\ unanswered' = IF powered /\ Len(unanswered) < MaxUnanswered
                     THEN Append(unanswered, req') ELSE unanswered
  /\ pc' = "length"
  /\ UNCHANGED <<fd, tally, data, shown, owed, refused, present, powered, wire, rx, faults>>

(* The line takes no byte of it for a second, or only some.  An ECU that   *)
(* has some waits for the rest, and LoseRequest is what comes of that.     *)
SendFails ==
  /\ pc = "poll"
  /\ fd = "open"
  /\ Fault
  /\ Fail
  /\ UNCHANGED rx

(* No port: INVALID_ARG.  One that has gone away: an I/O error.            *)
PortError == /\ pc \in {"poll", "length", "data", "crc", "astray"}
             /\ fd # "open"
             /\ Fail
             /\ UNCHANGED <<rx, faults>>

(* Bytes are there to be read, and are taken.                              *)
Take == /\ fd = "open"
        /\ rx # << >>
        /\ rx' = Tail(rx)
        /\ UNCHANGED faults

Going == UNCHANGED <<fd, tally, req, shown, owed, refused, ecu>>

InPlace(part) == Head(rx).part = part /\ Head(rx).ok

ReadLength == /\ pc = "length"
              /\ Take
              /\ InPlace("length")
              /\ pc' = "data"
              /\ Going
              /\ UNCHANGED data

(* Bytes that are no length are taken for one: 0 and what is above 4096 is *)
(* refused, anything else believed.                                        *)
MistakeLength == /\ pc = "length"
                 /\ Take
                 /\ ~ InPlace("length")
                 /\ \/ pc' = "astray" /\ Going /\ UNCHANGED data
                    \/ Fail

(* As many bytes as the length said, right or damaged.  A chunk of another *)
(* part has another size, and the reader is out of step from then on.      *)
ReadData == /\ pc = "data"
            /\ Take
            /\ data' = Head(rx)
            /\ pc' = IF Head(rx).part = "data" THEN "crc" ELSE "astray"
            /\ Going

(* Out of step with the line, whatever it reads has a CRC that is wrong.   *)
ReadAstray == /\ pc = "astray"
              /\ Take
              /\ \/ Going /\ UNCHANGED <<pc, data>>
                 \/ Fail

Good == InPlace("crc") /\ data.ok /\ data.req = Head(rx).req /\ data.flag

(* CRC and flag are right: the frame is stored (see OutpcBuffer) and the   *)
(* backoff forgotten.                                                      *)
Accept == /\ pc = "crc"
          /\ Take
          /\ Good
          /\ shown' = data.req
          /\ backoff' = 0
          /\ failures' = 0
          /\ pc' = "rest"
          /\ data' = NoData
          /\ UNCHANGED <<fd, req, owed, refused, ecu>>

Reject == /\ pc = "crc"
          /\ Take
          /\ ~ Good
          /\ Fail

(* realloc has no memory for the frame.                                    *)
NoMemory == /\ pc = "crc"
            /\ fd = "open" /\ rx # << >>
            /\ Good
            /\ Fault
            /\ rx' = Tail(rx)
            /\ Fail

(* A second passes.  In that time an ECU that is well has sent all that it *)
(* owes; one that has not is too slow, or a signal has cut the wait short. *)
ASecond == \/ unanswered = << >> /\ wire = << >> /\ UNCHANGED faults
           \/ Fault

(* select sees nothing for a second.                                       *)
TimeOut == /\ pc \in {"length", "data", "crc", "astray"}
           /\ fd = "open"
           /\ rx = << >>
           /\ ASecond
           /\ Fail
           /\ UNCHANGED rx

(* The sleep of 33 ms after a poll...                                      *)
Rest == /\ pc = "rest"
        /\ pc' = "poll"
        /\ Going
        /\ UNCHANGED <<data, rx, faults>>

(* ...and that of backoff_ms, at least a second, after an error.           *)
Sleep == /\ pc = "sleep"
         /\ pc' = "reopen"
         /\ ASecond
         /\ Going
         /\ UNCHANGED <<data, rx>>

(* ms2d_serial_open flushes the kernel's queues; what the ECU has not sent *)
(* yet it cannot flush.                                                    *)
Reopen == /\ pc = "reopen"
          /\ present
          /\ fd' = "open"
          /\ rx' = << >>
          /\ owed' = (unanswered # << >> \/ wire # << >>)
          /\ refused' = 0
          /\ backoff' = 0
          /\ failures' = 0
          /\ pc' = "poll"
          /\ UNCHANGED <<data, req, shown, ecu, faults>>

ReopenFails == /\ pc = "reopen"
               /\ ~ present
               /\ pc' = "poll"
               /\ refused' = Up(refused)
               /\ UNCHANGED <<fd, tally, data, req, shown, owed, ecu, rx, faults>>

Worker == SendRequest \/ SendFails \/ PortError \/ ReadLength \/ MistakeLength
            \/ ReadData \/ ReadAstray \/ Accept \/ Reject \/ NoMemory \/ TimeOut
            \/ Rest \/ Sleep \/ Reopen \/ ReopenFails

------------------------------------------------------------------------------
(* The ECU, the line and the port.                                         *)

Daemon == <<pc, tally, data, req, shown, owed, refused>>

EcuAnswers == /\ unanswered # << >>
              /\ wire = << >>
              /\ unanswered' = Tail(unanswered)
              /\ \/ wire' = Answer(Head(unanswered), TRUE) /\ UNCHANGED faults
                 \/ wire' = Answer(Head(unanswered), FALSE) /\ Fault
              /\ UNCHANGED <<Daemon, fd, present, powered, rx>>

(* What arrives while the port is closed is lost.                          *)
Deliver == /\ wire # << >>
           /\ wire' = Tail(wire)
           /\ rx' = IF fd = "open" THEN Append(rx, Head(wire)) ELSE rx
           /\ UNCHANGED <<Daemon, fd, present, powered, unanswered, faults>>

DropChunk == /\ wire # << >>
             /\ Fault
             /\ wire' = Tail(wire)
             /\ UNCHANGED <<Daemon, fd, present, powered, unanswered, rx>>

DamageChunk == /\ wire # << >>
               /\ Fault
               /\ wire' = [wire EXCEPT ![1].ok = FALSE]
               /\ UNCHANGED <<Daemon, fd, present, powered, unanswered, rx>>

(* A damaged request is ignored by the ECU.                                *)
LoseRequest == /\ unanswered # << >>
               /\ Fault
               /\ unanswered' = SubSeq(unanswered, 1, Len(unanswered) - 1)
               /\ UNCHANGED <<Daemon, fd, present, powered, wire, rx>>

PowerOff == /\ powered
            /\ Fault
            /\ powered' = FALSE
            /\ unanswered' = << >>
            /\ wire' = << >>
            /\ UNCHANGED <<Daemon, fd, present, rx>>

PowerOn == /\ ~ powered
           /\ powered' = TRUE
           /\ UNCHANGED <<Daemon, fd, present, unanswered, wire, rx, faults>>

Unplug == /\ present
          /\ Fault
          /\ present' = FALSE
          /\ fd' = IF fd = "open" THEN "hung" ELSE fd
          /\ unanswered' = << >>
          /\ wire' = << >>
          /\ rx' = << >>
          /\ UNCHANGED <<Daemon, powered>>

PlugIn == /\ ~ present
          /\ present' = TRUE
          /\ UNCHANGED <<Daemon, fd, powered, unanswered, wire, rx, faults>>

Environment == EcuAnswers \/ Deliver \/ DropChunk \/ DamageChunk \/ LoseRequest
                 \/ PowerOff \/ PowerOn \/ Unplug \/ PlugIn

------------------------------------------------------------------------------
Next == Worker \/ Environment

Spec == Init /\ [][Next]_vars

(***************************************************************************)
(* The worker thread runs whenever it can: its selects and sleeps end.  An *)
(* ECU that is on answers what it received, and the line delivers.  Power  *)
(* and plug need not come back.                                            *)
(***************************************************************************)
FairSpec == /\ Spec
            /\ WF_vars(Worker)
            /\ WF_vars(EcuAnswers)
            /\ WF_vars(Deliver)

------------------------------------------------------------------------------
(* Properties.                                                             *)

TypeOK ==
  /\ pc \in {"poll", "length", "data", "crc", "astray", "rest", "sleep", "reopen"}
  /\ fd \in {"open", "hung", "closed"}
  /\ backoff \in 0 .. BackoffMax
  /\ failures \in 0 .. MaxFailures
  /\ data \in Chunk
  /\ req \in Req
  /\ shown \in Req
  /\ present \in BOOLEAN
  /\ powered \in BOOLEAN
  /\ unanswered \in Seq(Req)
  /\ wire \in Seq(Chunk)
  /\ rx \in Seq(Chunk)
  /\ faults \in 0 .. MaxFaults
  /\ owed \in BOOLEAN
  /\ refused \in 0 .. MaxFailures

(* Closing and reopening the port (main.c:101-115, serial_comm.c:158) puts *)
(* the worker back in step: after an answer was lost, damaged or refused   *)
(* half way, what is stored next is the answer to the request just sent,   *)
(* unless the ECU still owed an answer when the port was opened.           *)
FlushResynchronises == pc = "rest" /\ ~ owed => shown = req

(* How long the worker waits is a matter of the openings that failed alone *)
(* (main.c:86-118): after n of them in a row it sleeps for the n-th        *)
(* doubling of BackoffInitial, up to BackoffMax.  A poll that fails on an  *)
(* open port, whatever the reason and however often it does, is followed   *)
(* by BackoffInitial: the opening forgets the polls that failed before it. *)
Scheduled(n) == IF n = 0 THEN 0 ELSE Lesser(Doubled[n - 1], BackoffMax)

RetryRate == pc = "sleep" => backoff = Scheduled(refused + 1)

(* While the port is gone for good the retries become as rare as they are  *)
(* meant to, and stay so (main.c:89-118): a reopening that fails does not  *)
(* start the schedule again.                                               *)
SettlesAtCap == <>[]~ present => <>[](backoff = BackoffMax)

(* get_status says "connected" while serial_fd >= 0: once the port is gone *)
(* that ends (main.c:102-104).                                             *)
UnplugNoticed == ~ present ~> fd = "closed" \/ present

(* Every poll ends (serial_comm.c:17-92): no loss on the line leaves the   *)
(* worker waiting for bytes that will not come.                            *)
PollEnds == pc = "length" ~> pc \in {"rest", "sleep"}

(* When the faults are over and port and power are back, frames come in    *)
(* again and again.                                                        *)
Recovers == <>[](present /\ powered) => []<>(pc = "rest")

(* Whatever happens to line, port and ECU the worker goes on: no poll and  *)
(* no port that is gone holds it, and its retries settle or succeed.       *)
KeepsGoing == PollEnds /\ UnplugNoticed /\ SettlesAtCap /\ Recovers
===============================================================================
