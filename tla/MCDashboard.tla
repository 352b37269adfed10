------------------------------- MODULE MCDashboard -------------------------------
(***************************************************************************)
(* The dashboard page: its polls by way of the server, or the drag race    *)
(* that runs in it.  The two share no state, and each behaviour is of one  *)
(* of them.                                                                *)
(***************************************************************************)
EXTENDS Bridge, Sequences

CONSTANTS
  SplitTimes,  (* when each split of the race is reached                   *)
  MaxStages,   (* bound: presses of the stage key                          *)
  MaxResets    (* bound: presses of the reset key                          *)

ASSUME RaceAssumption == /\ SplitTimes \in Seq(Nat) /\ Len(SplitTimes) > 0
                         /\ MaxStages \in Nat /\ MaxResets \in Nat

VARIABLES
  program,
  staged, running, splits, elapsed, lights, chain, left, floored, stages, resets, saved

Race == INSTANCE DragRace

race == <<staged, running, splits, elapsed, lights, chain, left, floored, stages,
          resets, saved>>
all  == <<program, vars, race>>

AnyInit == /\ program \in {"dashboard", "drag race"}
           /\ Init /\ (program # "dashboard" => daemon = "up")
           /\ Race!Init

AnyNext == \/ program = "dashboard" /\ Next /\ UNCHANGED <<program, race>>
           \/ program = "drag race" /\ Race!Next /\ UNCHANGED <<program, vars>>

(* Server, page and browser run the handlers that are due, and the driver  *)
(* launches in the end: see Bridge and DragRace.                           *)
BridgeFair == /\ \A s \in Slots : WF_vars(program = "dashboard" /\ Server(s))
              /\ WF_vars(program = "dashboard" /\ Booting)
              /\ \A s \in Polls : WF_vars(program = "dashboard" /\ Polling(s))
RaceFair   == /\ WF_race(program = "drag race" /\ Race!Timers)
              /\ WF_race(program = "drag race" /\ Race!TrackFrame)
              /\ WF_race(program = "drag race" /\ Race!Tick)
              /\ SF_race(program = "drag race" /\ Race!WatchFrame)
              /\ []<>(program = "drag race" => floored)

AnySpec == AnyInit /\ [][AnyNext]_all /\ BridgeFair /\ RaceFair

------------------------------------------------------------------------------
(* The types of the program that runs.                                     *)
TypesOK == IF program = "dashboard" THEN TypeOK ELSE Race!TypeOK

(* The page starts to poll in the end, with or without a daemon            *)
(* (waitForDaemon: "starting anyway").  Once the daemon answers for good   *)
(* the page is connected for good ("Auto-reconnect on connection loss",    *)
(* ms2d-dashboard/README.md:40), and once it is gone, or answers no more,  *)
(* the page does not stay connected, although a status that fails makes it *)
(* connected.  A staged car comes to the end of a run or is reset.         *)
PageGoesOn ==
  /\ program = "dashboard" => StartsAnyway /\ AutoReconnects /\ LossIsSeen
  /\ program = "drag race" => Race!RaceEnds

(* No run goes on once the car is not staged any more, whichever chains of *)
(* callbacks are still under way; a run ends no sooner than its own        *)
(* quarter mile, and is saved once even if two chains track it (DragRace   *)
(* of app.js).                                                             *)
RunsAreWhole ==
  /\ []Race!RunningIsStaged
  /\ Race!EndsAtQuarterMile
  /\ Race!SavedOnce

------------------------------------------------------------------------------
(* Two splits, so near to each other and to the launch that a countdown    *)
(* can begin, flash and end before, in and after a run.                    *)
TwoSplits == <<1, 3>>
===============================================================================
