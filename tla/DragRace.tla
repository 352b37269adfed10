-------------------------------- MODULE DragRace --------------------------------
(***************************************************************************)
(* The drag race of the dashboard (app.js, DragRace): each press of the    *)
(* stage key starts a chain of timers and frame callbacks, and all chains  *)
(* share one state.  Nothing stops a chain from outside: it ends by what   *)
(* it reads when it is called.                                             *)
(*                                                                         *)
(* Time is counted in half seconds, the delay between two lights.  The     *)
(* distance is a function of the time since the launch, so a split is the  *)
(* time after which it is recorded.                                        *)
(***************************************************************************)
EXTENDS Naturals, FiniteSets, Sequences

CONSTANTS
  SplitTimes, (* when each split is reached, the quarter mile last         *)
  MaxStages,  (* bound: presses of the stage key                           *)
  MaxResets   (* bound: presses of the reset key                           *)

VARIABLES
  staged, running, splits,  (* state.dragRace                              *)
  elapsed,   (* since startTime                                            *)
  lights,    (* the lights that are on                                     *)
  chain,     (* what each chain does next                                  *)
  left,      (* the delay of its timer                                     *)
  floored,   (* what checkLaunch looks for in the data                     *)
  stages, resets,
  saved      (* runs saved                                                 *)

race == <<staged, running, splits, elapsed>>
keys == <<stages, resets>>
vars == <<race, lights, chain, left, floored, keys, saved>>

Chains  == 1 .. MaxStages
Splits  == DOMAIN SplitTimes
Quarter == Len(SplitTimes)
Ambers  == {"amber1", "amber2", "amber3"}
Timed   == Ambers \cup {"countdown", "green"}

Init == /\ staged = FALSE /\ running = FALSE /\ splits = {} /\ elapsed = 0
        /\ lights = {}
        /\ chain = [k \in Chains |-> "none"] /\ left = [k \in Chains |-> 0]
        /\ floored = FALSE
        /\ stages = 0 /\ resets = 0
        /\ saved = 0

------------------------------------------------------------------------------
(* A faulty variant: the splits of the last run are kept.                  *)
StageKeeps == /\ stages < MaxStages
              /\ stages' = stages + 1
              /\ staged' = TRUE /\ running' = FALSE
              /\ chain' = [chain EXCEPT ![stages'] = "countdown"]
              /\ left'  = [left EXCEPT ![stages'] = 2]
              /\ UNCHANGED <<splits, elapsed, lights, floored, resets, saved>>

(* The keys.                                                               *)
Stage == /\ stages < MaxStages
         /\ stages' = stages + 1
         /\ staged' = TRUE /\ running' = FALSE /\ splits' = {}
         /\ chain' = [chain EXCEPT ![stages'] = "countdown"]
         /\ left'  = [left EXCEPT ![stages'] = 2]
         /\ UNCHANGED <<elapsed, lights, floored, resets, saved>>

Reset == /\ resets < MaxResets
         /\ resets' = resets + 1
         /\ staged' = FALSE /\ running' = FALSE
         /\ lights' = {}
         /\ UNCHANGED <<splits, elapsed, chain, left, floored, stages, saved>>

------------------------------------------------------------------------------
(* The timers.                                                             *)

Due(k) == chain[k] \in Timed /\ left[k] = 0

(* countdown; the first light is set at once.                              *)
Countdown(k) ==
  /\ Due(k) /\ chain[k] = "countdown"
  /\ \/ /\ staged
        /\ chain' = [chain EXCEPT ![k] = "amber2"]
        /\ left'  = [left EXCEPT ![k] = 1]
        /\ lights' = lights \cup {"amber1"}
     \/ /\ ~ staged
        /\ chain' = [chain EXCEPT ![k] = "none"]
        /\ UNCHANGED <<left, lights>>
  /\ UNCHANGED <<race, floored, keys, saved>>

(* A faulty variant: there is one amber light more.                        *)
AmberFour(k) ==
  /\ Due(k) /\ chain[k] \in {"amber2", "amber3"}
  /\ chain' = [chain EXCEPT ![k] = IF @ = "amber2" THEN "amber3" ELSE "amber4"]
  /\ left'  = [left EXCEPT ![k] = 1]
  /\ lights' = lights \cup {chain[k]}
  /\ UNCHANGED <<race, floored, keys, saved>>

(* flash does not look whether the car is still staged.                    *)
Amber(k) == /\ Due(k) /\ chain[k] \in {"amber2", "amber3"}
            /\ chain' = [chain EXCEPT ![k] = IF @ = "amber2" THEN "amber3" ELSE "green"]
            /\ left'  = [left EXCEPT ![k] = 1]
            /\ lights' = lights \cup {chain[k]}
            /\ UNCHANGED <<race, floored, keys, saved>>

(* start, and the first call of trackSplits: nothing is reached yet.       *)
(* detectLaunch is called after greenTime was set, so that reactionTime is *)
(* never below zero and the red light is never switched on.                *)
Start == running' = TRUE /\ elapsed' = 0

(* A faulty variant: the first look at the data does not ask for a staged  *)
(* car.                                                                    *)
GreenAnyway(k) ==
  /\ Due(k) /\ chain[k] = "green"
  /\ lights' = lights \cup {"green"}
  /\ \/ /\ floored /\ Start
        /\ chain' = [chain EXCEPT ![k] = "track"]
     \/ /\ ~ floored
        /\ chain' = [chain EXCEPT ![k] = "watch"]
        /\ UNCHANGED <<running, elapsed>>
  /\ UNCHANGED <<staged, splits, left, floored, keys, saved>>

(* The last flash and the first checkLaunch.                               *)
Green(k) ==
  /\ Due(k) /\ chain[k] = "green"
  /\ lights' = lights \cup {"green"}
  /\ \/ /\ staged /\ floored /\ Start
        /\ chain' = [chain EXCEPT ![k] = "track"]
     \/ /\ staged /\ ~ floored
        /\ chain' = [chain EXCEPT ![k] = "watch"]
        /\ UNCHANGED <<running, elapsed>>
     \/ /\ ~ staged
        /\ chain' = [chain EXCEPT ![k] = "none"]
        /\ UNCHANGED <<running, elapsed>>
  /\ UNCHANGED <<staged, splits, left, floored, keys, saved>>

Timers == \E k \in Chains : Countdown(k) \/ Amber(k) \/ Green(k)

------------------------------------------------------------------------------
(* The frames: all callbacks are called in each.  They read one state, so  *)
(* all that watch do the same; of those that track the first does what     *)
(* there is to do.                                                         *)

Doing(what) == {k \in Chains : chain[k] = what}
Turn(ks, what) == chain' = [k \in Chains |-> IF k \in ks THEN what ELSE chain[k]]

WatchFrame ==
  /\ Doing("watch") # {}
  /\ \/ ~ staged /\ Turn(Doing("watch"), "none") /\ UNCHANGED <<running, elapsed>>
     \/ staged /\ floored /\ Start /\ Turn(Doing("watch"), "track")
  /\ UNCHANGED <<staged, splits, lights, left, floored, keys, saved>>

Reached == splits \cup {i \in Splits : SplitTimes[i] <= elapsed}

(* Faulty variants: each callback saves the run; the car stays staged.     *)
FinishEach ==
  /\ running /\ Quarter \in Reached
  /\ splits' = Reached
  /\ running' = FALSE /\ staged' = FALSE
  /\ saved' = saved + Cardinality(Doing("track"))
  /\ Turn(Doing("track"), "none")
  /\ UNCHANGED <<elapsed, lights, left, floored, keys>>

FinishStaged ==
  /\ running /\ Quarter \in Reached
  /\ splits' = Reached
  /\ running' = FALSE
  /\ saved' = saved + 1
  /\ Turn(Doing("track"), "none")
  /\ UNCHANGED <<staged, elapsed, lights, left, floored, keys>>

(* trackSplits and finish.                                                 *)
Finish ==
  /\ running /\ Quarter \in Reached
  /\ splits' = Reached
  /\ running' = FALSE /\ staged' = FALSE
  /\ saved' = saved + 1
  /\ Turn(Doing("track"), "none")
  /\ UNCHANGED <<elapsed, lights, left, floored, keys>>

Track ==
  /\ running /\ Quarter \notin Reached
  /\ splits' = Reached
  /\ UNCHANGED <<staged, running, elapsed, lights, chain, left, floored, keys, saved>>

StopTracking ==
  /\ ~ running
  /\ Turn(Doing("track"), "none")
  /\ UNCHANGED <<race, lights, left, floored, keys, saved>>

TrackFrame == Doing("track") # {} /\ (Finish \/ Track \/ StopTracking)

Frame == WatchFrame \/ TrackFrame

------------------------------------------------------------------------------
(* Half a second passes, in which all frames are drawn and all timers that *)
(* are due are called.                                                     *)
Drawn == /\ Doing("watch") # {} => staged /\ ~ floored
         /\ Doing("track") # {} => running /\ Reached = splits

Tick == /\ \A k \in Chains : ~ Due(k)
        /\ Drawn
        /\ left' = [k \in Chains |-> IF left[k] > 0 THEN left[k] - 1 ELSE 0]
        /\ elapsed' = IF running /\ elapsed < SplitTimes[Quarter] THEN elapsed + 1 ELSE elapsed
        /\ UNCHANGED <<staged, running, splits, lights, chain, floored, keys, saved>>

(* The data: the throttle is opened or closed, or the speed drops.         *)
Drive == /\ floored' = ~ floored
         /\ UNCHANGED <<race, lights, chain, left, keys, saved>>

Next == Stage \/ Reset \/ Timers \/ Frame \/ Tick \/ Drive

Spec == Init /\ [][Next]_vars

(* The browser calls what is due; the driver launches in the end.          *)
FairSpec == /\ Spec
            /\ WF_vars(Timers) /\ WF_vars(TrackFrame) /\ WF_vars(Tick)
            /\ SF_vars(WatchFrame)
            /\ []<> floored

------------------------------------------------------------------------------
TypeOK == /\ {staged, running, floored} \subseteq BOOLEAN
          /\ splits \subseteq Splits
          /\ elapsed \in 0 .. SplitTimes[Quarter]
          /\ lights \subseteq Ambers \cup {"green", "red"}
          /\ chain \in [Chains -> Timed \cup {"none", "watch", "track"}]
          /\ left \in [Chains -> 0 .. 2]
          /\ stages \in 0 .. MaxStages /\ resets \in 0 .. MaxResets /\ saved \in Nat

(* No run goes on once the car is not staged any more, whichever chains    *)
(* are still under way (reset, finish and the tests of staged).            *)
RunningIsStaged == running => staged

(* A run ends no sooner than it can: the quarter mile that ends it is its  *)
(* own and not one that an earlier run or another chain has left behind.   *)
EndsAtQuarterMile == [][saved' # saved => elapsed >= SplitTimes[Quarter]]_vars

(* A run is saved once, even if two chains track it (trackSplits returns   *)
(* if nothing runs).                                                       *)
SavedOnce == [][saved' # saved => saved' = saved + 1 /\ running /\ ~ running']_vars

(* A staged car comes to the end of a run, or is reset.                    *)
RaceEnds == staged ~> ~ staged
===============================================================================
