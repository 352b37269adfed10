-------------------------- MODULE EngineSimulation ----------------------------
(***************************************************************************)
(* The simulated engine of ecuSim (EngineState of engine_state.py).  The   *)
(* main loop calls update once in each round, with the time dt that the    *)
(* last round took, and answers requests in between.                       *)
(*                                                                         *)
(* Time is counted in tenths of a second, and values are rounded to whole  *)
(* units.  Each random.uniform of the code is a constant set of values in  *)
(* its interval.  What the speed, the throttle and the pressure do not     *)
(* depend on is left out: temperatures and the flags and enrichments that  *)
(* follow from them, AFR, advance, pulse widths, VE, battery, derivatives. *)
(***************************************************************************)
EXTENDS Integers

CONSTANTS
  Ticks,     (* what dt may be                                             *)
  Timers,    (* mode_timer: between 2 and 8 s                              *)
  IdleRpm, IdleMap, CruiseRpm, CruiseTps, CruiseMap

Modes == {"idle", "cruise", "accel", "decel"}

ASSUME TimeAssumption  == Ticks \subseteq Nat /\ Timers \subseteq 20 .. 80
ASSUME NoiseAssumption ==
  /\ IdleRpm   \subseteq 830 .. 870   /\ IdleMap   \subseteq 28 .. 32
  /\ CruiseRpm \subseteq 2700 .. 2900 /\ CruiseTps \subseteq 22 .. 28
  /\ CruiseMap \subseteq 50 .. 60

VARIABLES mode, timer, rpm, target, tps, map

vars == <<mode, timer, rpm, target, tps, map>>

Least(a, b) == IF a < b THEN a ELSE b
Most(a, b)  == IF a > b THEN a ELSE b

Init == /\ mode = "idle" /\ timer = 0
        /\ rpm = 850 /\ target = 850 /\ tps = 0 /\ map = 35

------------------------------------------------------------------------------
(* _change_mode may choose any mode; only the odds depend on the speed.    *)
ChangeMode(t) == IF t <= 0 THEN mode' \in Modes /\ timer' \in Timers
                           ELSE mode' = mode /\ timer' = t

(* Where the mode takes the wanted speed, the throttle and the pressure.   *)
Idle(dt) == /\ target' \in IdleRpm
            /\ tps' = Most(0, tps - 5 * dt)
            /\ map' \in IdleMap

Cruise == target' \in CruiseRpm /\ tps' \in CruiseTps /\ map' \in CruiseMap

(* A faulty variant: the throttle has no upper limit.                      *)
AccelUnlimited(dt) == /\ target' = Least(6500, target + 200 * dt)
                      /\ tps' = tps + 10 * dt
                      /\ map' = Least(100, 40 + (6 * tps') \div 10)

Accel(dt) == /\ target' = Least(6500, target + 200 * dt)
             /\ tps' = Least(95, tps + 10 * dt)
             /\ map' = Least(100, 40 + (6 * tps') \div 10)

Decel(dt) == /\ target' = Most(1200, target - 150 * dt)
             /\ tps' = Most(0, tps - 8 * dt)
             /\ map' = Most(20, map - 3 * dt)

Drive(dt) == CASE mode' = "idle"   -> Idle(dt)
               [] mode' = "cruise" -> Cruise
               [] mode' = "accel"  -> Accel(dt)
               [] mode' = "decel"  -> Decel(dt)

(* A faulty variant: the step is not limited, and overshoots.              *)
SmoothFreely(r, t, dt) == r + ((t - r) * dt) \div 2

(* rpm += (target - rpm) * min(1, 5 dt)                                    *)
Smooth(r, t, dt) == r + ((t - r) * Least(2, dt)) \div 2

Update == \E dt \in Ticks :
            /\ ChangeMode(timer - dt)
            /\ Drive(dt)
            /\ rpm' = Most(0, Smooth(rpm, target', dt))

Next == Update

Spec == Init /\ [][Next]_vars

------------------------------------------------------------------------------
TypeOK == /\ mode \in Modes /\ timer \in Int
          /\ rpm \in Int /\ target \in Int /\ tps \in Int /\ map \in Int

(* Whatever modes follow one another and however long a round takes, the   *)
(* engine stays within its limits (the min and max in the updates of the   *)
(* modes, and the smoothing of the speed).                                 *)
InRange == /\ rpm \in 0 .. 6500 /\ target \in 830 .. 6500
           /\ tps \in 0 .. 95 /\ map \in 20 .. 100
===============================================================================
