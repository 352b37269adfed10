--------------------------- MODULE MCSerialPrograms ---------------------------
(***************************************************************************)
(* The Python programs at both ends of a serial line.  Four take requests, *)
(* each with its own reader of the frames: ecuSim, the replay server, and  *)
(* the older simulators of exampleFiles and of work-ms2d-daemon.  Two      *)
(* poll: the capture tool and the dash.  One of them runs in each          *)
(* behaviour, on a line that keeps every byte or on one with faults.       *)
(***************************************************************************)
EXTENDS ReplayServer, TLC

CONSTANTS
  EcuOthers,        (* requests asked of ecuSim between its polls          *)
  LongLine,         (* bound: bytes on the line to ecuSim                  *)
  ExampleRequests,  (* requests asked of the simulator of exampleFiles     *)
  MaxReplies        (* bound: its OUTPC answers                            *)

(* Requests, and the bytes of their CRC-32.                                *)
A == <<65>>
Q == <<81>>
X == <<88>>                        (* a command nobody knows               *)
R == <<114, 0, 7, 0, 0, 0, 209>>   (* r, table 7, all 209 bytes of OUTPC   *)

(* Blocks of two bytes, and the signature.                                 *)
MCBlocks    == <<<<0, 1>>, <<0, 2>>, <<0, 3>>, <<0, 4>>>>
MCSignature == <<0, 77>>

MCCrc == (A :> <<211, 217, 158, 139>>)
      @@ (Q :> <<206, 110, 142, 239>>)
      @@ (X :> <<183, 178, 54, 75>>)
      @@ (R :> <<165, 111, 32, 46>>)
      @@ (MCSignature :> <<73, 180, 47, 210>>)
      @@ (<<1, 0, 1>> :> <<137, 132, 131, 179>>)
      @@ (<<1, 0, 2>> :> <<16, 141, 210, 9>>)
      @@ (<<1, 0, 3>> :> <<103, 138, 226, 159>>)
      @@ (<<1, 0, 4>> :> <<249, 238, 119, 60>>)

Orderly      == {Version, A, Q, X}

EcuAsked     == {Version, R}
ExampleAsked == {Version, A, X}

ASSUME RequestsAssumption ==
  /\ A \in DOMAIN Crc /\ R \in DOMAIN Crc
  /\ EcuOthers \subseteq DOMAIN Crc \cup {Version}
  /\ ExampleRequests \subseteq DOMAIN Crc \cup {Version}

VARIABLES
  program,
  stage, deaf,     (* pc and deaf of EcuRequests; missed of PlainSimulator *)
  want, payload,   (* of PlainSimulator and PollingTools                   *)
  reply, replies,  (* answer and served of ExampleSimulator                *)
  doing, request, size, clock, next, polls, file, recorded, shown (* of PollingTools *)

ReplayFaults  == INSTANCE ReplayServer WITH
                   Requests <- {R}, Noise <- {1, 255}, LineSize <- 14, MaxFaults <- 1
EcuSim        == INSTANCE EcuRequests WITH
                   pc <- stage, Poll <- A, Others <- EcuOthers, LineSize <- LongLine, MaxDeaf <- 1
EcuSimFaults  == INSTANCE EcuRequests WITH
                   pc <- stage, Poll <- A, Others <- {}, Noise <- {1, 70, 255}, LineSize <- 14,
                   MaxDeaf <- 60, MaxFaults <- 1
Example       == INSTANCE ExampleSimulator WITH
                   answer <- reply, served <- replies, Requests <- ExampleRequests,
                   MaxServed <- MaxReplies
ExampleFaults == INSTANCE ExampleSimulator WITH
                   answer <- reply, served <- replies, Requests <- {A}, Noise <- {255},
                   MaxAttempts <- 1, LineSize <- 15, MaxServed <- 2, MaxFaults <- 1
OlderLost     == INSTANCE PlainSimulator WITH
                   missed <- deaf, Request <- A, Lost <- 1 .. 7, Noise <- {}, MaxMissed <- 96,
                   MaxFaults <- 2
OlderNoise    == INSTANCE PlainSimulator WITH
                   missed <- deaf, Request <- A, Lost <- 1 .. 7, Noise <- {1, 255},
                   MaxMissed <- 9328, MaxFaults <- 1
OlderSevens   == INSTANCE PlainSimulator WITH
                   missed <- deaf, Request <- A, Lost <- {}, Noise <- {7 * n : n \in 0 .. 36},
                   MaxMissed <- 1, MaxFaults <- 1
Capture       == INSTANCE PollingTools WITH
                   pc <- doing, Tool <- "capture", Blocks <- MCBlocks, BlockSize <- 2,
                   Signature <- MCSignature, Interval <- 3, Patience <- 5, Duration <- 9,
                   MaxFaults <- 2
Dash          == INSTANCE PollingTools WITH
                   pc <- doing, Tool <- "dash", Blocks <- SubSeq(MCBlocks, 1, 3), BlockSize <- 2,
                   Signature <- MCSignature, Interval <- 1, Patience <- 2, Duration <- 7,
                   MaxFaults <- 2

Programs == {"replay", "replay, faults", "ecuSim", "ecuSim, faults",
             "example", "example, faults", "older, losses", "older, noise",
             "older, sevens", "capture", "dash"}

tools == <<doing, request, size, clock, next, polls, file, recorded, shown>>
all   == <<vars, program, stage, deaf, want, payload, reply, replies, tools>>

AnyInit == program \in Programs /\ Init /\ EcuSim!Init /\ Example!Init /\ OlderLost!Init
           /\ Capture!Init

ReplayOnly  == UNCHANGED <<program, stage, deaf, want, payload, reply, replies, tools>>
EcuSimOnly  == UNCHANGED <<program, pc, attempts, playback, want, payload, reply, replies, tools>>
ExampleOnly == UNCHANGED <<program, stage, deaf, answer, served, want, payload, tools>>
OlderOnly   == UNCHANGED <<program, buffer, stage, attempts, playback, owed, reply, replies, tools>>
ToolOnly    == UNCHANGED <<program, buffer, pc, stage, attempts, playback, owed, deaf, want, reply, replies>>

AnyNext == \/ program = "replay" /\ Next /\ ReplayOnly
           \/ program = "replay, faults" /\ ReplayFaults!Next /\ ReplayOnly
           \/ program = "ecuSim" /\ EcuSim!Next /\ EcuSimOnly
           \/ program = "ecuSim, faults" /\ EcuSimFaults!Next /\ EcuSimOnly
           \/ program = "example" /\ Example!SimNext /\ ExampleOnly
           \/ program = "example, faults" /\ ExampleFaults!SimNext /\ ExampleOnly
           \/ program = "older, losses" /\ OlderLost!Next /\ OlderOnly
           \/ program = "older, noise" /\ OlderNoise!Next /\ OlderOnly
           \/ program = "older, sevens" /\ OlderSevens!Next /\ OlderOnly
           \/ program = "capture" /\ Capture!Next /\ ToolOnly
           \/ program = "dash" /\ Dash!Next /\ ToolOnly

(* The programs and their clients go on.                                   *)
AnySpec ==
  /\ AnyInit /\ [][AnyNext]_all
  /\ WF_(EcuSimFaults!vars)(program = "ecuSim, faults" /\ EcuSimFaults!Simulator)
  /\ WF_(EcuSimFaults!vars)(program = "ecuSim, faults" /\ EcuSimFaults!AskPoll)
  /\ WF_(ExampleFaults!vars)(program = "example, faults" /\ ExampleFaults!Simulator)

------------------------------------------------------------------------------
(* The types of the program that runs.                                     *)
TypesOK ==
  CASE program = "replay"          -> TypeOK
    [] program = "replay, faults"  -> ReplayFaults!TypeOK
    [] program = "ecuSim"          -> EcuSim!TypeOK
    [] program = "ecuSim, faults"  -> EcuSimFaults!TypeOK
    [] program = "example"         -> Example!TypeOK
    [] program = "example, faults" -> ExampleFaults!TypeOK
    [] program = "older, losses"   -> OlderLost!TypeOK
    [] program = "older, noise"    -> OlderNoise!TypeOK
    [] program = "older, sevens"   -> OlderSevens!TypeOK
    [] program = "capture"         -> Capture!TypeOK
    [] program = "dash"            -> Dash!TypeOK

(* However requests are cut into pieces on the way, the three programs     *)
(* with a buffer answer each of them once, in the order they were asked    *)
(* (RequestBuffer, read_framed_request): what is in the buffer and on the  *)
(* line is exactly the requests still to be answered.  The replay server   *)
(* plays its recording in that order, and never goes to sleep in select on *)
(* a request it already has.                                               *)
AllAnsweredInOrder ==
  /\ program \in {"replay", "replay, faults"}   => AnsweredInOrder
  /\ program \in {"ecuSim", "ecuSim, faults"}   => EcuSim!AnsweredInOrder
  /\ program \in {"example", "example, faults"} => Example!AnsweredInOrder
  /\ PlaysInOrder
  /\ program = "replay" => NeverSleepsOnRequest

(* A byte lost, or one too many, makes a reader take a wrong length and    *)
(* swallow requests, but no more polls than a frame of that length has     *)
(* room for.  ecuSim: 59, whichever byte (parse_framed_request drops what  *)
(* it cannot read).  The older simulator: 95 after two bytes lost from the *)
(* frames of A, 9327 after a foreign 1 or 255 before one of them, which it *)
(* takes for the length 256 or 65280 (read_request).  There are foreign    *)
(* bytes after which it is deaf for good, the multiples of 7, which is the *)
(* size of the frames; zero is one of them.  No buffer grows meanwhile     *)
(* beyond the largest frame and one read.                                  *)
LossIsBounded ==
  /\ program = "ecuSim, faults" => EcuSimFaults!DeafnessBounded /\ EcuSimFaults!BufferBounded
  /\ program = "older, losses"  => OlderLost!DeafnessBounded
  /\ program = "older, noise"   => OlderNoise!DeafnessBounded
  /\ program = "older, sevens"  => OlderSevens!DeafForGood
  /\ program = "replay, faults" => ReplayFaults!BufferBounded

(* The client that polls as ms2d does is answered by ecuSim again and      *)
(* again, whatever has happened to one byte of the line; and while there   *)
(* is a request at the head of its buffer the simulator of exampleFiles    *)
(* answers: none waits there until the client sends something else.        *)
AnswersAgain ==
  /\ program = "ecuSim, faults" => EcuSimFaults!KeepsAnswering
  /\ program = "example, faults" => ExampleFaults!AnswersWhatItHas

(* However bytes are lost and answers late, what the capture records and   *)
(* the dash shows are whole blocks of the ECU: those of the capture in     *)
(* order and none twice, also when its file is cut at any byte             *)
(* (load_capture), and not in bursts after a delay (next_poll); those of   *)
(* the dash although it never looks at the flag of an answer.              *)
OnlyOutpcIsKept ==
  /\ program = "capture" => Capture!RecordsInOrder /\ Capture!CutIsPrefix /\ Capture!PollsAreSpread
  /\ program = "dash"    => Dash!ShownIsOutpc

(* What is recorded or shown is older than its poll by no more polls than  *)
(* there were faults (read_response of both tools).                        *)
StaleByFaults == Capture!StaleByFaults
===============================================================================
